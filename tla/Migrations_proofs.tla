-------------------------- MODULE Migrations_proofs --------------------------
(***************************************************************************)
(* Theorems about Migrations, for any addresses and any number of writes.  *)
(*                                                                         *)
(* The tables of a revision are written down once (SchemaOf); each list of *)
(* operations is shown to run from the tables of one revision to those of  *)
(* the next without being refused (ListsRun), and a command under way to   *)
(* have the tables that the operations before its next one leave           *)
(* (TablesInv).                                                            *)
(***************************************************************************)
EXTENDS Migrations, WellFoundedInduction, TLAPS

-----------------------------------------------------------------------------
(* What the revisions contain. *)

Down(r) == Revisions[r].down
Up(r) == Revisions[r].up

LEMMA Twelve == Latest = 12
BY DEF Latest, Revisions

LEMMA ListsAre ==
  /\ Up(1) = initial_schema /\ Down(1) = initial_schema_down
  /\ Up(2) = collapse_roles /\ Down(2) = collapse_roles_down
  /\ Up(3) = drop_password /\ Down(3) = drop_password_down
  /\ Up(4) = create_role_assignments /\ Down(4) = create_role_assignments_down
  /\ Up(5) = bootstrap_super_admin /\ Down(5) = bootstrap_super_admin_down
  /\ Up(6) = split_correction /\ Down(6) = split_correction_down
  /\ Up(7) = restore_password /\ Down(7) = restore_password_down
  /\ Up(8) = eligibility_screening /\ Down(8) = eligibility_screening_down
  /\ Up(9) = document_purge /\ Down(9) = document_purge_down
  /\ Up(10) = eligibility_notifications /\ Down(10) = eligibility_notifications_down
  /\ Up(11) = reduce_to_eligibility /\ Down(11) = reduce_to_eligibility_down
  /\ Up(12) = restore_audit_trail /\ Down(12) = restore_audit_trail_down
BY DEF Up, Down, Revisions

\* A list that brings a revision undone creates nothing; one that brings it about drops no
\* account and no assignment, splits no role and, but for the first, makes no table of reviews.
Undoing(ops) == \A k \in 1..Len(ops) : ops[k].do # "create"
Building(ops) == \A k \in 1..Len(ops) :
  /\ ops[k].do = "drop" => ops[k].table \notin {"users", "role_assignments"}
  /\ ops[k].do # "split"
NoReviews(ops) == \A k \in 1..Len(ops) : ops[k].do = "create" => ops[k].table # "tender_reviews"
NoSplit(ops) == \A k \in 1..Len(ops) : ops[k].do # "split"

LEMMA DownUndoes == \A r \in 1..Latest : Undoing(Down(r)) /\ (r # 2 => NoSplit(Down(r)))
<1>1. Undoing(initial_schema_down) /\ NoSplit(initial_schema_down)
  BY DEF Undoing, NoSplit, initial_schema_down, DropTable
<1>2. Undoing(collapse_roles_down)
  BY DEF Undoing, collapse_roles_down, Rows
<1>3. Undoing(drop_password_down) /\ NoSplit(drop_password_down)
  BY DEF Undoing, NoSplit, drop_password_down, AddColumn, Operation
<1>4. Undoing(create_role_assignments_down) /\ NoSplit(create_role_assignments_down)
  BY DEF Undoing, NoSplit, create_role_assignments_down, DropTable
<1>5. Undoing(bootstrap_super_admin_down) /\ NoSplit(bootstrap_super_admin_down)
  BY DEF Undoing, NoSplit, bootstrap_super_admin_down, Rows
<1>6. Undoing(split_correction_down) /\ NoSplit(split_correction_down)
  BY DEF Undoing, NoSplit, split_correction_down, DropIndex, Rows, SetNotNull, DropColumn, Operation
<1>7. Undoing(restore_password_down) /\ NoSplit(restore_password_down)
  BY DEF Undoing, NoSplit, restore_password_down, DropColumn, Operation
<1>8. Undoing(eligibility_screening_down) /\ NoSplit(eligibility_screening_down)
  BY DEF Undoing, NoSplit, eligibility_screening_down, DropTable, DropIndex, DropColumn, Operation
<1>9. Undoing(document_purge_down) /\ NoSplit(document_purge_down)
  BY DEF Undoing, NoSplit, document_purge_down, DropColumn, Operation
<1>10. Undoing(eligibility_notifications_down) /\ NoSplit(eligibility_notifications_down)
  BY DEF Undoing, NoSplit, eligibility_notifications_down, DropTable
<1>11. Undoing(reduce_to_eligibility_down) /\ NoSplit(reduce_to_eligibility_down)
  BY DEF Undoing, NoSplit, reduce_to_eligibility_down, Rows
<1>12. Undoing(restore_audit_trail_down) /\ NoSplit(restore_audit_trail_down)
  BY DEF Undoing, NoSplit, restore_audit_trail_down, DropTable
<1> QED BY <1>1, <1>2, <1>3, <1>4, <1>5, <1>6, <1>7, <1>8, <1>9, <1>10, <1>11, <1>12, ListsAre, Twelve

LEMMA UpBuilds == \A r \in 1..Latest : Building(Up(r)) /\ (r # 1 => NoReviews(Up(r)))
<1>1. Building(initial_schema)
  BY DEF Building, initial_schema, CreateTable
<1>2. Building(collapse_roles) /\ NoReviews(collapse_roles)
  BY DEF Building, NoReviews, collapse_roles, Rows
<1>3. Building(drop_password) /\ NoReviews(drop_password)
  BY DEF Building, NoReviews, drop_password, DropColumn, Operation
<1>4. Building(create_role_assignments) /\ NoReviews(create_role_assignments)
  BY DEF Building, NoReviews, create_role_assignments, CreateTable
<1>5. Building(bootstrap_super_admin) /\ NoReviews(bootstrap_super_admin)
  BY DEF Building, NoReviews, bootstrap_super_admin, Rows
<1>6. Building(split_correction) /\ NoReviews(split_correction)
  BY DEF Building, NoReviews, split_correction, AddColumn, Rows, SetNotNull, DropNotNull, CreateIndex,
         Operation
<1>7. Building(restore_password) /\ NoReviews(restore_password)
  BY DEF Building, NoReviews, restore_password, AddColumn, Operation
<1>8. Building(eligibility_screening) /\ NoReviews(eligibility_screening)
  BY DEF Building, NoReviews, eligibility_screening, CreateTable, AddColumn, CreateUnique, Operation
<1>9. Building(document_purge) /\ NoReviews(document_purge)
  BY DEF Building, NoReviews, document_purge, AddColumn, Operation
<1>10. Building(eligibility_notifications) /\ NoReviews(eligibility_notifications)
  BY DEF Building, NoReviews, eligibility_notifications, CreateTable
<1>11. Building(reduce_to_eligibility) /\ NoReviews(reduce_to_eligibility)
  BY DEF Building, NoReviews, reduce_to_eligibility, DropTable
<1>12. Building(restore_audit_trail) /\ NoReviews(restore_audit_trail)
  BY DEF Building, NoReviews, restore_audit_trail, CreateTable
<1> QED BY <1>1, <1>2, <1>3, <1>4, <1>5, <1>6, <1>7, <1>8, <1>9, <1>10, <1>11, <1>12, ListsAre, Twelve
-----------------------------------------------------------------------------
(* The inductive invariant. *)

\* A database is its revision, its tables and its rows.
Shaped(d) ==
  d = [at |-> d.at, schema |-> d.schema, users |-> d.users, grants |-> d.grants,
       reviews |-> d.reviews]

\* The rows are such as their tables admit, and a correction decides nothing.
Typed(d) ==
  /\ d.at \in 0..Latest
  /\ d.users \in [Emails -> LegacyRoles \cup UserRole \cup {None}]
  /\ d.grants \in [Emails -> Grant \cup {None}] /\ d.reviews \subseteq Review
  /\ \A r \in d.reviews : r.kind = "CORRECTION" => ~r.verdict

\* Every account has a role that UserRole names.
Named(d) == \A e \in Emails : d.users[e] \in UserRole \cup {None}

\* A command goes one way, and has not left the revisions between its ends.
CommandInv ==
  /\ cmd = None => tx = db
  /\ cmd # None =>
       /\ cmd \in [to : 0..Latest, next : Nat \ {0}] /\ cmd.to # db.at
       /\ cmd.to > db.at => tx.at \in db.at..cmd.to
       /\ cmd.to < db.at => tx.at \in cmd.to..db.at

\* Roles are named between the collapse of roles and its undoing.
RolesInv ==
  /\ db.at >= 2 => Named(db)
  /\ cmd # None =>
       /\ tx.at >= 3 => Named(tx)
       /\ tx.at = 2 /\ (cmd.to >= 2 \/ cmd.next = 1) => Named(tx)
       /\ tx.at = 1 /\ cmd.to > 1 /\ cmd.next >= 2 => Named(tx)

\* What a command may do to the accounts, the assignments and the reviews: it keeps what counts,
\* or has given their table up for good.
UsersStand(d, x) ==
  \A e \in Emails :
    /\ d.users[e] # None => x.users[e] # None
    /\ d.users[e] \in Elevated \/ x.users[e] \in Elevated => x.users[e] = d.users[e]
GrantsStand(d, x) ==
  \A e \in Emails : d.grants[e] # None /\ d.grants[e].consumed => x.grants[e] = d.grants[e]
VerdictsStand(d, x) ==
  \A r \in d.reviews : r.verdict => \E s \in x.reviews : s.by = r.by /\ s.verdict

StandInv ==
  cmd # None =>
    /\ UsersStand(db, tx) \/ (cmd.to < db.at /\ "users" \notin Tables(tx))
    /\ GrantsStand(db, tx) \/ (cmd.to < db.at /\ "role_assignments" \notin Tables(tx))
    /\ \/ VerdictsStand(db, tx)
       \/ (cmd.to < db.at \/ tx.at >= 1) /\ "tender_reviews" \notin Tables(tx)

IInv ==
  /\ Shaped(db) /\ Shaped(tx) /\ Typed(db) /\ Typed(tx)
  /\ CommandInv /\ RolesInv /\ StandInv

-----------------------------------------------------------------------------
(* What an operation does to each part of a database. *)

UsersAfter(op, d) ==
  CASE op.do = "collapse" ->
         [e \in Emails |-> IF d.users[e] = None THEN None ELSE Collapsed(d.users[e])]
    [] op.do = "split" ->
         [e \in Emails |-> IF d.users[e] = None THEN None ELSE Split(d.users[e])]
    [] op.do = "drop" /\ op.table = "users" -> NoRow
    [] OTHER -> d.users

GrantsAfter(op, d) ==
  CASE op.do = "seed" /\ Seeds(d) ->
         [d.grants EXCEPT ![Bootstrap] = [role |-> "SUPER_ADMIN", by |-> None, consumed |-> FALSE]]
    [] op.do = "unseed" -> [e \in Emails |-> IF e \in Unseeds(d) THEN None ELSE d.grants[e]]
    [] op.do = "drop" /\ op.table = "role_assignments" -> NoRow
    [] OTHER -> d.grants

ReviewsAfter(op, d) ==
  CASE op.do = "backfill" -> {Backfilled(r) : r \in d.reviews}
    [] op.do = "delete" -> d.reviews \ Corrections(d)
    [] op.do = "remove" /\ op.table = "tender_reviews" -> {[r EXCEPT !.kind = None] : r \in d.reviews}
    [] op.do = "drop" /\ op.table = "tender_reviews" -> {}
    [] OTHER -> d.reviews

LEMMA RewrittenIs ==
  ASSUME NEW op, NEW d, Shaped(d)
  PROVE  Rewritten(op, d) =
           [at |-> d.at, schema |-> d.schema, users |-> UsersAfter(op, d),
            grants |-> GrantsAfter(op, d), reviews |-> ReviewsAfter(op, d)]
<1>1. CASE op.do = "collapse"
  BY <1>1 DEF Shaped, Rewritten, UsersAfter, GrantsAfter, ReviewsAfter
<1>2. CASE op.do = "split"
  BY <1>2 DEF Shaped, Rewritten, UsersAfter, GrantsAfter, ReviewsAfter
<1>3. CASE op.do = "seed"
  <2>1. CASE Seeds(d)
    BY <1>3, <2>1 DEF Shaped, Rewritten, UsersAfter, GrantsAfter, ReviewsAfter
  <2>2. CASE ~Seeds(d)
    BY <1>3, <2>2 DEF Shaped, Rewritten, UsersAfter, GrantsAfter, ReviewsAfter
  <2> QED BY <2>1, <2>2
<1>4. CASE op.do = "unseed"
  BY <1>4 DEF Shaped, Rewritten, UsersAfter, GrantsAfter, ReviewsAfter
<1>5. CASE op.do = "backfill"
  BY <1>5 DEF Shaped, Rewritten, UsersAfter, GrantsAfter, ReviewsAfter
<1>6. CASE op.do = "delete"
  BY <1>6 DEF Shaped, Rewritten, UsersAfter, GrantsAfter, ReviewsAfter
<1>7. CASE op.do = "remove" /\ op.table = "tender_reviews"
  BY <1>7 DEF Shaped, Rewritten, UsersAfter, GrantsAfter, ReviewsAfter
<1>8. CASE op.do = "drop"
  BY <1>8 DEF Shaped, Rewritten, UsersAfter, GrantsAfter, ReviewsAfter
<1>9. CASE /\ op.do \notin {"collapse", "split", "seed", "unseed", "backfill", "delete", "drop"}
           /\ ~(op.do = "remove" /\ op.table = "tender_reviews")
  BY <1>9 DEF Shaped, Rewritten, UsersAfter, GrantsAfter, ReviewsAfter
<1> QED BY <1>1, <1>2, <1>3, <1>4, <1>5, <1>6, <1>7, <1>8, <1>9

LEMMA ExecuteIs ==
  ASSUME NEW op, NEW d, Shaped(d)
  PROVE  /\ Shaped(Execute(op, d)) /\ Execute(op, d).at = d.at
         /\ Execute(op, d).schema = Altered(op, d.schema)
         /\ Execute(op, d).users = UsersAfter(op, d)
         /\ Execute(op, d).grants = GrantsAfter(op, d)
         /\ Execute(op, d).reviews = ReviewsAfter(op, d)
BY RewrittenIs DEF Execute, Shaped

LEMMA TablesAfter ==
  ASSUME NEW op, NEW d, Shaped(d)
  PROVE  /\ op.do = "create" => Tables(Execute(op, d)) = Tables(d) \cup {op.table}
         /\ op.do = "drop" => Tables(Execute(op, d)) = Tables(d) \ {op.table}
         /\ op.do \notin {"create", "drop"} => Tables(Execute(op, d)) = Tables(d)
<1>0. Execute(op, d).schema = Altered(op, d.schema)
  BY ExecuteIs
<1>1. CASE op.do = "create"
  BY <1>0, <1>1 DEF Tables, Altered
<1>2. CASE op.do = "drop"
  BY <1>0, <1>2 DEF Tables, Altered
<1>3. CASE op.do \notin {"create", "drop"}
  BY <1>0, <1>3 DEF Tables, Altered
<1> QED BY <1>1, <1>2, <1>3

-----------------------------------------------------------------------------
(* What an operation keeps. *)

Roles == LegacyRoles \cup UserRole

LEMMA RolesMoved ==
  /\ None \notin Roles /\ Elevated \subseteq UserRole
  /\ \A role \in Roles :
       /\ Collapsed(role) \in UserRole /\ Split(role) \in Roles
       /\ role \in Elevated \/ Collapsed(role) \in Elevated => Collapsed(role) = role
       /\ role \in Elevated \/ Split(role) \in Elevated => Split(role) = role
BY NoneIsNothing DEF Roles, LegacyRoles, UserRole, Elevated, Collapsed, Split

LEMMA TypedAfter ==
  ASSUME NEW op, NEW d, Shaped(d), Typed(d)
  PROVE  Typed(Execute(op, d))
<1> DEFINE x == Execute(op, d)
<1>0. /\ x.at = d.at /\ x.users = UsersAfter(op, d)
      /\ x.grants = GrantsAfter(op, d) /\ x.reviews = ReviewsAfter(op, d)
  BY ExecuteIs
<1>1. UsersAfter(op, d) \in [Emails -> Roles \cup {None}]
  <2>0. d.users \in [Emails -> Roles \cup {None}]
    BY DEF Typed, Roles
  <2>1. CASE op.do = "collapse"
    <3>1. UsersAfter(op, d) =
            [e \in Emails |-> IF d.users[e] = None THEN None ELSE Collapsed(d.users[e])]
      BY <2>1 DEF UsersAfter
    <3>2. \A e \in Emails : d.users[e] # None => Collapsed(d.users[e]) \in Roles
      BY <2>0, RolesMoved DEF Roles
    <3> QED BY <3>1, <3>2
  <2>2. CASE op.do = "split"
    <3>1. UsersAfter(op, d) =
            [e \in Emails |-> IF d.users[e] = None THEN None ELSE Split(d.users[e])]
      BY <2>2 DEF UsersAfter
    <3>2. \A e \in Emails : d.users[e] # None => Split(d.users[e]) \in Roles
      BY <2>0, RolesMoved
    <3> QED BY <3>1, <3>2
  <2>3. CASE op.do \notin {"collapse", "split"}
    BY <2>0, <2>3 DEF UsersAfter, NoRow
  <2> QED BY <2>1, <2>2, <2>3
<1>2. GrantsAfter(op, d) \in [Emails -> Grant \cup {None}]
  <2>1. CASE op.do = "seed" /\ Seeds(d)
    <3>1. Bootstrap \in Emails
      BY <2>1, MigrationsAssumption DEF Seeds
    <3>2. [role |-> "SUPER_ADMIN", by |-> None, consumed |-> FALSE] \in Grant
      BY DEF Grant, Elevated, UserRole
    <3> HIDE DEF Grant
    <3> QED BY <2>1, <3>1, <3>2 DEF GrantsAfter, Typed
  <2>2. CASE ~(op.do = "seed" /\ Seeds(d))
    BY <2>2 DEF GrantsAfter, Typed, NoRow
  <2> QED BY <2>1, <2>2
<1>3. /\ ReviewsAfter(op, d) \subseteq Review
      /\ \A r \in ReviewsAfter(op, d) : r.kind = "CORRECTION" => ~r.verdict
  <2>1. CASE op.do = "backfill"
    <3>1. \A r \in Review : /\ Backfilled(r) \in Review
                            /\ Backfilled(r).kind = "CORRECTION" => r.kind = "CORRECTION"
                            /\ Backfilled(r).verdict = r.verdict
      BY DEF Backfilled, Review
    <3> QED BY <2>1, <3>1 DEF ReviewsAfter, Typed
  <2>2. CASE op.do = "remove" /\ op.table = "tender_reviews"
    <3>1. SUFFICES ASSUME NEW s \in ReviewsAfter(op, d)
                   PROVE  s \in Review /\ s.kind # "CORRECTION"
      OBVIOUS
    <3>2. PICK r \in d.reviews : s = [r EXCEPT !.kind = None]
      BY <2>2 DEF ReviewsAfter
    <3>3. s = [by |-> r.by, kind |-> None, verdict |-> r.verdict]
      BY <3>2 DEF Typed, Review
    <3>4. r.by \in Emails /\ r.verdict \in BOOLEAN
      BY DEF Typed, Review
    <3> QED BY <3>3, <3>4, NoneIsNothing DEF Review
  <2>3. CASE op.do # "backfill" /\ ~(op.do = "remove" /\ op.table = "tender_reviews")
    BY <2>3 DEF ReviewsAfter, Typed
  <2> QED BY <2>1, <2>2, <2>3
<1> QED BY <1>0, <1>1, <1>2, <1>3 DEF Typed, Roles

LEMMA NamedAfter ==
  ASSUME NEW op, NEW d, Shaped(d), Typed(d), op.do = "collapse" \/ (op.do # "split" /\ Named(d))
  PROVE  Named(Execute(op, d))
<1>0. Execute(op, d).users = UsersAfter(op, d)
  BY ExecuteIs
<1>1. d.users \in [Emails -> Roles \cup {None}]
  BY DEF Typed, Roles
<1>2. CASE op.do = "collapse"
  <2>1. UsersAfter(op, d) =
          [e \in Emails |-> IF d.users[e] = None THEN None ELSE Collapsed(d.users[e])]
    BY <1>2 DEF UsersAfter
  <2>2. \A e \in Emails : d.users[e] # None => Collapsed(d.users[e]) \in UserRole
    BY <1>1, RolesMoved
  <2> QED BY <1>0, <2>1, <2>2 DEF Named
<1>3. CASE op.do # "collapse"
  BY <1>0, <1>3 DEF UsersAfter, NoRow, Named
<1> QED BY <1>2, <1>3

LEMMA UsersStandAfter ==
  ASSUME NEW op, NEW d, NEW x, Shaped(x), Typed(d), Typed(x), UsersStand(d, x),
         ~(op.do = "drop" /\ op.table = "users")
  PROVE  UsersStand(d, Execute(op, x))
<1>0. Execute(op, x).users = UsersAfter(op, x)
  BY ExecuteIs
<1>1. x.users \in [Emails -> Roles \cup {None}]
  BY DEF Typed, Roles
<1>2. SUFFICES ASSUME NEW e \in Emails
               PROVE  /\ x.users[e] # None => UsersAfter(op, x)[e] # None
                      /\ x.users[e] \in Elevated \/ UsersAfter(op, x)[e] \in Elevated
                           => UsersAfter(op, x)[e] = x.users[e]
  BY <1>0 DEF UsersStand
<1>3. CASE op.do = "collapse"
  <2>1. UsersAfter(op, x)[e] = IF x.users[e] = None THEN None ELSE Collapsed(x.users[e])
    BY <1>3 DEF UsersAfter
  <2> QED BY <2>1, <1>1, RolesMoved DEF Roles
<1>4. CASE op.do = "split"
  <2>1. UsersAfter(op, x)[e] = IF x.users[e] = None THEN None ELSE Split(x.users[e])
    BY <1>4 DEF UsersAfter
  <2> QED BY <2>1, <1>1, RolesMoved DEF Roles
<1>5. CASE op.do \notin {"collapse", "split"}
  BY <1>5 DEF UsersAfter
<1> QED BY <1>3, <1>4, <1>5

LEMMA GrantsStandAfter ==
  ASSUME NEW op, NEW d, NEW x, Shaped(x), Typed(d), Typed(x), GrantsStand(d, x),
         ~(op.do = "drop" /\ op.table = "role_assignments")
  PROVE  GrantsStand(d, Execute(op, x))
<1>0. Execute(op, x).grants = GrantsAfter(op, x)
  BY ExecuteIs
<1>1. SUFFICES ASSUME NEW e \in Emails, x.grants[e] # None, x.grants[e].consumed
               PROVE  GrantsAfter(op, x)[e] = x.grants[e]
  BY <1>0 DEF GrantsStand
<1>2. CASE op.do = "seed" /\ Seeds(x)
  <2>1. e # Bootstrap
    BY <1>1, <1>2 DEF Seeds
  <2> QED BY <1>2, <2>1 DEF GrantsAfter, Typed
<1>3. CASE op.do = "unseed"
  BY <1>1, <1>3 DEF GrantsAfter, Unseeds
<1>4. CASE ~(op.do = "seed" /\ Seeds(x)) /\ op.do # "unseed"
  BY <1>4 DEF GrantsAfter
<1> QED BY <1>2, <1>3, <1>4

LEMMA VerdictsStandAfter ==
  ASSUME NEW op, NEW d, NEW x, Shaped(x), Typed(d), Typed(x), VerdictsStand(d, x),
         ~(op.do = "drop" /\ op.table = "tender_reviews")
  PROVE  VerdictsStand(d, Execute(op, x))
<1>0. Execute(op, x).reviews = ReviewsAfter(op, x)
  BY ExecuteIs
<1>1. SUFFICES ASSUME NEW r \in x.reviews, r.verdict
               PROVE  \E s \in ReviewsAfter(op, x) : s.by = r.by /\ s.verdict
  BY <1>0 DEF VerdictsStand
<1>2. r \in Review
  BY DEF Typed
<1>3. CASE op.do = "backfill"
  <2>1. Backfilled(r).by = r.by /\ Backfilled(r).verdict
    BY <1>1, <1>2 DEF Backfilled, Review
  <2>2. Backfilled(r) \in ReviewsAfter(op, x)
    BY <1>3 DEF ReviewsAfter
  <2> QED BY <2>1, <2>2
<1>4. CASE op.do = "remove" /\ op.table = "tender_reviews"
  <2> DEFINE s == [r EXCEPT !.kind = None]
  <2>1. s.by = r.by /\ s.verdict
    BY <1>1, <1>2 DEF Review
  <2>2. s \in ReviewsAfter(op, x)
    BY <1>4 DEF ReviewsAfter
  <2> QED BY <2>1, <2>2
<1>5. CASE op.do = "delete"
  BY <1>1, <1>5 DEF ReviewsAfter, Corrections, Typed
<1>6. CASE op.do \notin {"backfill", "delete"} /\ ~(op.do = "remove" /\ op.table = "tender_reviews")
  BY <1>1, <1>6 DEF ReviewsAfter
<1> QED BY <1>3, <1>4, <1>5, <1>6

-----------------------------------------------------------------------------
(* The operations of a command under way. *)

LEMMA OperationsAre ==
  ASSUME CommandInv, Typed(db), cmd # None, cmd.to # tx.at
  PROVE  \/ /\ cmd.to > db.at /\ Upgrading /\ tx.at + 1 \in 1..Latest /\ tx.at + 1 <= cmd.to
            /\ Operations = Up(tx.at + 1)
         \/ /\ cmd.to < db.at /\ ~Upgrading /\ tx.at \in 1..Latest /\ cmd.to <= tx.at - 1
            /\ Operations = Down(tx.at)
BY Twelve DEF CommandInv, Typed, Upgrading, Operations, Up, Down

\* What the operation at hand may be, by the revision and the way.
LEMMA OperationIs ==
  ASSUME CommandInv, Typed(db), Pending, NEW op, op = Operations[cmd.next]
  PROVE  \/ /\ cmd.to < db.at /\ ~Upgrading /\ op.do # "create" /\ tx.at \in 1..Latest
            /\ tx.at # 2 => op.do # "split"
         \/ /\ cmd.to > db.at /\ Upgrading /\ op.do # "split" /\ tx.at \in 0..Latest
            /\ op.do = "drop" => op.table \notin {"users", "role_assignments"} /\ tx.at >= 1
            /\ op.do = "create" /\ tx.at >= 1 => op.table # "tender_reviews"
            /\ tx.at = 1 => op.do = "collapse"
<1>0. cmd # None /\ cmd.to # tx.at /\ cmd.next \in 1..Len(Operations)
  BY DEF Pending, Idle, CommandInv
<1>1. CASE cmd.to > db.at /\ Upgrading /\ tx.at + 1 \in 1..Latest /\ Operations = Up(tx.at + 1)
  <2>1. Building(Operations) /\ (tx.at + 1 # 1 => NoReviews(Operations))
    BY <1>1, UpBuilds
  <2>2. tx.at \in 0..Latest
    <3>1. db.at \in 0..Latest
      BY DEF Typed
    <3>2. cmd.to \in 0..Latest /\ tx.at \in db.at..cmd.to
      BY <1>0, <1>1 DEF CommandInv
    <3> QED BY <3>1, <3>2, Twelve
  <2>3. tx.at = 0 => op.do # "drop"
    <3>1. \A k \in 1..Len(initial_schema) : initial_schema[k].do = "create"
      BY DEF initial_schema, CreateTable
    <3> QED BY <3>1, <1>0, <1>1, ListsAre
  <2>4. tx.at = 1 => op.do = "collapse"
    <3>1. \A k \in 1..Len(collapse_roles) : collapse_roles[k].do = "collapse"
      BY DEF collapse_roles, Rows
    <3> QED BY <3>1, <1>0, <1>1, ListsAre
  <2> QED BY <1>0, <1>1, <2>1, <2>2, <2>3, <2>4, Twelve DEF Building, NoReviews
<1>2. CASE cmd.to < db.at /\ ~Upgrading /\ tx.at \in 1..Latest /\ Operations = Down(tx.at)
  <2>1. Undoing(Operations) /\ (tx.at # 2 => NoSplit(Operations))
    BY <1>2, DownUndoes
  <2> QED BY <1>0, <1>2, <2>1 DEF Undoing, NoSplit
<1> QED BY <1>0, <1>1, <1>2, OperationsAre

-----------------------------------------------------------------------------
(* The invariant is inductive: the commands. *)

LEMMA Initially == Init => IInv
<1> SUFFICES ASSUME Init PROVE IInv
  OBVIOUS
<1>1. Shaped(Empty) /\ Typed(Empty) /\ Empty.at = 0
  BY Twelve DEF Shaped, Typed, Empty, NoRow
<1> QED BY <1>1 DEF Init, IInv, CommandInv, RolesInv, StandInv

LEMMA Reflexive ==
  ASSUME NEW d
  PROVE  UsersStand(d, d) /\ GrantsStand(d, d) /\ VerdictsStand(d, d)
BY DEF UsersStand, GrantsStand, VerdictsStand

LEMMA BeginKeeps ==
  ASSUME IInv, NEW revision \in 0..Latest, Begin(revision)
  PROVE  IInv'
<1>1. /\ db' = db /\ tx' = tx /\ tx = db /\ revision # db.at
      /\ cmd' = [to |-> revision, next |-> 1]
  BY DEF Begin, Idle, IInv, CommandInv
<1>2. cmd'.to = revision /\ cmd'.next = 1 /\ cmd' \in [to : 0..Latest, next : Nat \ {0}]
  BY <1>1
<1>3. Shaped(db)' /\ Shaped(tx)' /\ Typed(db)' /\ Typed(tx)'
  BY <1>1 DEF IInv
<1>4. cmd' # None
  BY <1>2, NoneIsNothing, Twelve
<1>5. CommandInv'
  BY <1>1, <1>2, <1>4, Twelve DEF CommandInv, IInv, Typed
<1>6. RolesInv'
  BY <1>1, <1>2, <1>4 DEF IInv, RolesInv, Typed, Named
<1>7. StandInv'
  BY <1>1, Reflexive DEF StandInv
<1> QED BY <1>3, <1>5, <1>6, <1>7 DEF IInv

LEMMA StepKeeps ==
  ASSUME IInv, Step
  PROVE  IInv'
<1> PICK op : op = Operations[cmd.next]
  OBVIOUS
<1>0. /\ Pending /\ db' = db /\ tx' = Execute(op, tx)
      /\ cmd # None /\ cmd.to # tx.at
      /\ cmd' = [cmd EXCEPT !.next = @ + 1]
  BY DEF Step, Pending, Idle
<1>1. cmd \in [to : 0..Latest, next : Nat \ {0}]
  BY <1>0 DEF IInv, CommandInv
<1>2. cmd'.to = cmd.to /\ cmd'.next = cmd.next + 1 /\ cmd' \in [to : 0..Latest, next : Nat \ {0}]
  BY <1>0, <1>1
<1>3. cmd' # None
  BY <1>2, NoneIsNothing
<1>4. /\ Shaped(db) /\ Shaped(tx) /\ Typed(db) /\ Typed(tx)
      /\ CommandInv /\ RolesInv /\ StandInv
  BY DEF IInv
<1>5. PICK x : x = tx' /\ x = Execute(op, tx)
  BY <1>0
<1>6. Shaped(x) /\ Typed(x) /\ x.at = tx.at
  BY <1>4, <1>5, ExecuteIs, TypedAfter
<1>7. CommandInv'
  BY <1>0, <1>2, <1>3, <1>4, <1>5, <1>6 DEF CommandInv
<1>8. \/ /\ cmd.to < db.at /\ ~Upgrading /\ op.do # "create" /\ tx.at \in 1..Latest
         /\ tx.at # 2 => op.do # "split"
      \/ /\ cmd.to > db.at /\ Upgrading /\ op.do # "split" /\ tx.at \in 0..Latest
         /\ op.do = "drop" => op.table \notin {"users", "role_assignments"} /\ tx.at >= 1
         /\ op.do = "create" /\ tx.at >= 1 => op.table # "tender_reviews"
         /\ tx.at = 1 => op.do = "collapse"
  BY <1>0, <1>4, OperationIs
<1>9. RolesInv'
  <2>1. op.do = "collapse" \/ (op.do # "split" /\ Named(tx)) => Named(x)
    BY <1>4, <1>5, NamedAfter
  <2>2. /\ tx.at >= 3 => Named(tx)
        /\ tx.at = 2 /\ (cmd.to >= 2 \/ cmd.next = 1) => Named(tx)
        /\ tx.at = 1 /\ cmd.to > 1 /\ cmd.next >= 2 => Named(tx)
        /\ db.at >= 2 => Named(db)
    BY <1>0, <1>4 DEF RolesInv
  <2>3. x.at >= 3 => Named(x)
    BY <1>6, <1>8, <2>1, <2>2
  <2>4. x.at = 2 /\ (cmd'.to >= 2 \/ cmd'.next = 1) => Named(x)
    BY <1>0, <1>1, <1>2, <1>6, <1>8, <2>1, <2>2, Twelve DEF Upgrading
  <2>5. x.at = 1 /\ cmd'.to > 1 => Named(x)
    BY <1>0, <1>1, <1>2, <1>6, <1>8, <2>1, <2>2, Twelve DEF Upgrading
  <2> QED BY <1>0, <1>5, <2>2, <2>3, <2>4, <2>5 DEF RolesInv, Named
<1>10. StandInv'
  <2>0. /\ op.do = "create" => Tables(x) = Tables(tx) \cup {op.table}
        /\ op.do = "drop" => Tables(x) = Tables(tx) \ {op.table}
        /\ op.do \notin {"create", "drop"} => Tables(x) = Tables(tx)
    BY <1>4, <1>5, TablesAfter
  <2>00. /\ UsersStand(db, tx) \/ (cmd.to < db.at /\ "users" \notin Tables(tx))
         /\ GrantsStand(db, tx) \/ (cmd.to < db.at /\ "role_assignments" \notin Tables(tx))
         /\ \/ VerdictsStand(db, tx)
            \/ (cmd.to < db.at \/ tx.at >= 1) /\ "tender_reviews" \notin Tables(tx)
    BY <1>0, <1>4 DEF StandInv
  <2>1. UsersStand(db, x) \/ (cmd.to < db.at /\ "users" \notin Tables(x))
    <3>1. CASE UsersStand(db, tx) /\ ~(op.do = "drop" /\ op.table = "users")
      BY <1>4, <1>5, <3>1, UsersStandAfter
    <3>2. CASE op.do = "drop" /\ op.table = "users"
      BY <1>8, <2>0, <3>2
    <3>3. CASE cmd.to < db.at /\ "users" \notin Tables(tx)
      <4>1. cmd.to \in Int /\ db.at \in Int
        BY <1>1, <1>4 DEF Typed
      <4> QED BY <1>8, <2>0, <3>3, <4>1
    <3> QED BY <2>00, <3>1, <3>2, <3>3
  <2>2. GrantsStand(db, x) \/ (cmd.to < db.at /\ "role_assignments" \notin Tables(x))
    <3>1. CASE GrantsStand(db, tx) /\ ~(op.do = "drop" /\ op.table = "role_assignments")
      BY <1>4, <1>5, <3>1, GrantsStandAfter
    <3>2. CASE op.do = "drop" /\ op.table = "role_assignments"
      BY <1>8, <2>0, <3>2
    <3>3. CASE cmd.to < db.at /\ "role_assignments" \notin Tables(tx)
      <4>1. cmd.to \in Int /\ db.at \in Int
        BY <1>1, <1>4 DEF Typed
      <4> QED BY <1>8, <2>0, <3>3, <4>1
    <3> QED BY <2>00, <3>1, <3>2, <3>3
  <2>3. \/ VerdictsStand(db, x)
        \/ (cmd.to < db.at \/ x.at >= 1) /\ "tender_reviews" \notin Tables(x)
    <3>1. CASE VerdictsStand(db, tx) /\ ~(op.do = "drop" /\ op.table = "tender_reviews")
      BY <1>4, <1>5, <3>1, VerdictsStandAfter
    <3>2. CASE op.do = "drop" /\ op.table = "tender_reviews"
      BY <1>6, <1>8, <2>0, <3>2
    <3>3. CASE (cmd.to < db.at \/ tx.at >= 1) /\ "tender_reviews" \notin Tables(tx)
      BY <1>1, <1>4, <1>6, <1>8, <2>0, <3>3, Twelve DEF Typed
    <3> QED BY <2>00, <3>1, <3>2, <3>3
  <2> QED BY <1>0, <1>2, <1>5, <2>1, <2>2, <2>3
           DEF StandInv, UsersStand, GrantsStand, VerdictsStand, Tables
<1> QED BY <1>0, <1>4, <1>5, <1>6, <1>7, <1>9, <1>10 DEF IInv, Shaped, Typed

LEMMA StampKeeps ==
  ASSUME IInv, Stamp
  PROVE  IInv'
<1>0. /\ cmd # None /\ cmd.to # tx.at /\ cmd.next > Len(Operations) /\ db' = db
      /\ tx' = [tx EXCEPT !.at = IF Upgrading THEN @ + 1 ELSE @ - 1]
      /\ cmd' = [cmd EXCEPT !.next = 1]
  BY DEF Stamp, Idle
<1>1. /\ Shaped(db) /\ Shaped(tx) /\ Typed(db) /\ Typed(tx)
      /\ CommandInv /\ RolesInv /\ StandInv
  BY DEF IInv
<1>2. cmd \in [to : 0..Latest, next : Nat \ {0}]
  BY <1>0, <1>1 DEF CommandInv
<1>3. cmd'.to = cmd.to /\ cmd'.next = 1 /\ cmd' \in [to : 0..Latest, next : Nat \ {0}]
  BY <1>0, <1>2
<1>4. cmd' # None
  BY <1>3, NoneIsNothing
<1>5. PICK x : x = tx' /\ x = [tx EXCEPT !.at = IF Upgrading THEN @ + 1 ELSE @ - 1]
  BY <1>0
<1>6. /\ x.at = (IF Upgrading THEN tx.at + 1 ELSE tx.at - 1) /\ Shaped(x)
      /\ x.schema = tx.schema /\ x.users = tx.users /\ x.grants = tx.grants /\ x.reviews = tx.reviews
  BY <1>1, <1>5 DEF Shaped
<1>7. \/ /\ cmd.to > db.at /\ Upgrading /\ tx.at + 1 \in 1..Latest /\ tx.at + 1 <= cmd.to
         /\ Operations = Up(tx.at + 1)
      \/ /\ cmd.to < db.at /\ ~Upgrading /\ tx.at \in 1..Latest /\ cmd.to <= tx.at - 1
         /\ Operations = Down(tx.at)
  BY <1>0, <1>1, OperationsAre
<1>8. /\ cmd.to \in 0..12 /\ db.at \in 0..12 /\ tx.at \in 0..12 /\ cmd.to # db.at
      /\ cmd.to > db.at => tx.at \in db.at..cmd.to
      /\ cmd.to < db.at => tx.at \in cmd.to..db.at
  BY <1>0, <1>1, <1>2, Twelve DEF CommandInv, Typed
<1>9. /\ cmd.to > db.at => x.at = tx.at + 1 /\ x.at \in db.at..cmd.to
      /\ cmd.to < db.at => x.at = tx.at - 1 /\ x.at \in cmd.to..db.at
      /\ x.at \in 0..12
  BY <1>6, <1>7, <1>8
<1>10. Typed(x)
  BY <1>1, <1>6, <1>9, Twelve DEF Typed
<1>11. CommandInv'
  BY <1>0, <1>3, <1>4, <1>5, <1>8, <1>9 DEF CommandInv
<1>12. RolesInv'
  <2>1. /\ tx.at >= 3 => Named(tx)
        /\ tx.at = 2 /\ (cmd.to >= 2 \/ cmd.next = 1) => Named(tx)
        /\ tx.at = 1 /\ cmd.to > 1 /\ cmd.next >= 2 => Named(tx)
        /\ db.at >= 2 => Named(db)
    BY <1>0, <1>1 DEF RolesInv
  <2>2. Named(tx) => Named(x)
    BY <1>6 DEF Named
  <2>3. cmd.to > db.at /\ tx.at = 1 => cmd.next >= 2
    <3>1. Len(Up(2)) = 1
      BY ListsAre DEF collapse_roles
    <3>2. SUFFICES ASSUME cmd.to > db.at, tx.at = 1
                   PROVE  cmd.next >= 2
      OBVIOUS
    <3>3. Operations = Up(2)
      BY <1>7, <1>8, <3>2
    <3> QED BY <1>0, <1>2, <3>1, <3>3
  <2>4. x.at >= 2 /\ cmd.to > db.at => Named(x)
    <3>1. SUFFICES ASSUME x.at >= 2, cmd.to > db.at
                   PROVE  Named(tx)
      BY <2>2
    <3> QED BY <1>8, <1>9, <2>1, <2>3, <3>1
  <2>5. x.at >= 2 /\ cmd.to < db.at => Named(x)
    <3>1. SUFFICES ASSUME x.at >= 2, cmd.to < db.at
                   PROVE  Named(tx)
      BY <2>2
    <3> QED BY <1>8, <1>9, <2>1, <3>1
  <2>6. x.at >= 2 => Named(x)
    BY <1>8, <2>4, <2>5
  <2> QED BY <1>0, <1>3, <1>5, <1>9, <2>1, <2>6 DEF RolesInv, Named
<1>13. StandInv'
  <2>0. /\ UsersStand(db, tx) \/ (cmd.to < db.at /\ "users" \notin Tables(tx))
        /\ GrantsStand(db, tx) \/ (cmd.to < db.at /\ "role_assignments" \notin Tables(tx))
        /\ \/ VerdictsStand(db, tx)
           \/ (cmd.to < db.at \/ tx.at >= 1) /\ "tender_reviews" \notin Tables(tx)
    BY <1>0, <1>1 DEF StandInv
  <2>1. Tables(x) = Tables(tx)
    BY <1>6 DEF Tables
  <2>2. /\ UsersStand(db, tx) => UsersStand(db, x)
        /\ GrantsStand(db, tx) => GrantsStand(db, x)
        /\ VerdictsStand(db, tx) => VerdictsStand(db, x)
    BY <1>6 DEF UsersStand, GrantsStand, VerdictsStand
  <2>3. tx.at >= 1 => cmd.to < db.at \/ x.at >= 1
    BY <1>8, <1>9
  <2>4. /\ UsersStand(db, x) \/ (cmd.to < db.at /\ "users" \notin Tables(x))
        /\ GrantsStand(db, x) \/ (cmd.to < db.at /\ "role_assignments" \notin Tables(x))
        /\ \/ VerdictsStand(db, x)
           \/ (cmd.to < db.at \/ x.at >= 1) /\ "tender_reviews" \notin Tables(x)
    BY <2>0, <2>1, <2>2, <2>3
  <2> QED BY <1>0, <1>3, <1>5, <2>4 DEF StandInv, UsersStand, GrantsStand, VerdictsStand, Tables
<1> QED BY <1>0, <1>1, <1>5, <1>6, <1>10, <1>11, <1>12, <1>13 DEF IInv, Shaped, Typed

LEMMA CommitKeeps ==
  ASSUME IInv, Commit
  PROVE  IInv'
<1>1. cmd # None /\ cmd.to = tx.at /\ db' = tx /\ tx' = tx /\ cmd' = None
  BY DEF Commit, Idle
<1>2. tx.at >= 2 => Named(tx)
  <2>1. tx.at \in 0..12
    BY Twelve DEF IInv, Typed
  <2>2. /\ tx.at >= 3 => Named(tx)
        /\ tx.at = 2 /\ cmd.to >= 2 => Named(tx)
    BY <1>1 DEF IInv, RolesInv
  <2> QED BY <1>1, <2>1, <2>2
<1> QED BY <1>1, <1>2 DEF IInv, CommandInv, RolesInv, StandInv, Shaped, Typed, Named

LEMMA RollBackKeeps ==
  ASSUME IInv, RollBack
  PROVE  IInv'
<1>1. db' = db /\ tx' = db /\ cmd' = None
  BY DEF RollBack
<1> QED BY <1>1 DEF IInv, CommandInv, RolesInv, StandInv, Shaped, Typed, Named

-----------------------------------------------------------------------------
(* The invariant is inductive: the program. *)

\* Whatever the program writes, it is enough that it be admitted, and that it name the roles.
LEMMA WriteKeeps ==
  ASSUME IInv, NEW d, Write(d), Shaped(d), Typed(d), d.at = db.at, Named(db) => Named(d)
  PROVE  IInv'
<1>1. cmd = None /\ db' = d /\ tx' = d /\ cmd' = cmd
  BY DEF Write, Idle
<1>2. db.at >= 2 => Named(d)
  BY DEF IInv, RolesInv
<1> QED BY <1>1, <1>2 DEF IInv, CommandInv, RolesInv, StandInv, Shaped, Typed, Named

LEMMA SignUpKeeps ==
  ASSUME IInv, NEW e \in Emails, SignUp(e)
  PROVE  IInv'
<1>0. Shaped(db) /\ Typed(db)
  BY DEF IInv
<1>1. db.users \in [Emails -> Roles \cup {None}] /\ db.grants \in [Emails -> Grant \cup {None}]
  BY <1>0 DEF Typed, Roles
<1>2. CASE db.grants[e] = None
  <2>1. PICK role \in RolesOf(db.at) : Write([db EXCEPT !.users[e] = role])
    BY <1>2 DEF SignUp
  <2>2. PICK d : d = [db EXCEPT !.users[e] = role]
    OBVIOUS
  <2>3. d = [at |-> db.at, schema |-> db.schema, users |-> [db.users EXCEPT ![e] = role],
             grants |-> db.grants, reviews |-> db.reviews]
    BY <1>0, <2>2 DEF Shaped
  <2>4. role \in Roles
    BY DEF RolesOf, Roles
  <2>5. Shaped(d) /\ Typed(d) /\ d.at = db.at
    BY <1>0, <1>1, <2>3, <2>4 DEF Shaped, Typed, Roles
  <2>6. CASE db.at = 1
    <3>1. cmd = None /\ db' = d /\ tx' = d /\ cmd' = cmd
      BY <2>1, <2>2 DEF Write, Idle
    <3> QED BY <2>5, <2>6, <3>1 DEF IInv, CommandInv, RolesInv, StandInv, Shaped, Typed, Named
  <2>7. CASE db.at # 1
    <3>1. Named(db) => Named(d)
      BY <1>1, <2>3, <2>7 DEF Named, RolesOf
    <3> QED BY <2>1, <2>2, <2>5, <3>1, WriteKeeps
  <2> QED BY <2>6, <2>7
<1>3. CASE db.grants[e] # None
  <2>1. PICK d : d = [db EXCEPT !.users[e] = db.grants[e].role, !.grants[e].consumed = TRUE]
    OBVIOUS
  <2>2. Write(d)
    BY <1>3, <2>1 DEF SignUp
  <2>3. d = [at |-> db.at, schema |-> db.schema, users |-> [db.users EXCEPT ![e] = db.grants[e].role],
             grants |-> [db.grants EXCEPT ![e] = [db.grants[e] EXCEPT !.consumed = TRUE]],
             reviews |-> db.reviews]
    BY <1>0, <2>1 DEF Shaped
  <2>4. db.grants[e] \in Grant
    BY <1>1, <1>3
  <2>5. db.grants[e].role \in UserRole /\ [db.grants[e] EXCEPT !.consumed = TRUE] \in Grant
    BY <2>4 DEF Grant, Elevated
  <2> HIDE DEF Grant
  <2>6. Shaped(d) /\ Typed(d) /\ d.at = db.at
    BY <1>0, <1>1, <2>3, <2>5 DEF Shaped, Typed, Roles
  <2>7. Named(db) => Named(d)
    BY <1>1, <2>3, <2>5 DEF Named
  <2> QED BY <2>2, <2>6, <2>7, WriteKeeps
<1> QED BY <1>2, <1>3

LEMMA DeleteUserKeeps ==
  ASSUME IInv, NEW e \in Emails, DeleteUser(e)
  PROVE  IInv'
<1>0. Shaped(db) /\ Typed(db)
  BY DEF IInv
<1>1. db.users \in [Emails -> Roles \cup {None}] /\ db.grants \in [Emails -> Grant \cup {None}]
  BY <1>0 DEF Typed, Roles
<1>2. PICK grants :
        grants = [a \in Emails |->
          IF db.grants[a] # None /\ db.grants[a].by = e THEN [db.grants[a] EXCEPT !.by = None]
          ELSE db.grants[a]]
  OBVIOUS
<1>3. PICK d : d = [at |-> db.at, schema |-> db.schema, users |-> [db.users EXCEPT ![e] = None],
                    grants |-> grants, reviews |-> db.reviews]
  OBVIOUS
<1>4. Write(d)
  <2>1. Write([db EXCEPT !.users[e] = None, !.grants = grants])
    BY <1>2 DEF DeleteUser
  <2>2. d = [db EXCEPT !.users[e] = None, !.grants = grants]
    <3>1. PICK m : m = [db EXCEPT !.users[e] = None]
      OBVIOUS
    <3>2. m = [at |-> db.at, schema |-> db.schema, users |-> [db.users EXCEPT ![e] = None],
               grants |-> db.grants, reviews |-> db.reviews]
      BY ONLY <1>0, <3>1 DEF Shaped
    <3>3. d = [m EXCEPT !.grants = grants]
      BY ONLY <1>3, <3>2
    <3> QED BY <3>1, <3>3
  <2> QED BY <2>1, <2>2
<1>5. grants \in [Emails -> Grant \cup {None}]
  <2>1. \A g \in Grant : [g EXCEPT !.by = None] \in Grant
    BY DEF Grant
  <2> HIDE DEF Grant
  <2> QED BY <1>1, <1>2, <2>1
<1>6. Shaped(d) /\ Typed(d) /\ d.at = db.at
  BY <1>0, <1>1, <1>3, <1>5 DEF Shaped, Typed, Roles
<1>7. Named(db) => Named(d)
  BY <1>1, <1>3 DEF Named
<1> QED BY <1>4, <1>6, <1>7, WriteKeeps

LEMMA CreateRoleAssignmentKeeps ==
  ASSUME IInv, NEW e \in Emails, NEW by \in Emails, CreateRoleAssignment(e, by)
  PROVE  IInv'
<1>0. Shaped(db) /\ Typed(db)
  BY DEF IInv
<1>1. PICK role \in Elevated :
        Write([db EXCEPT !.grants[e] = [role |-> role, by |-> by, consumed |-> FALSE]])
  BY DEF CreateRoleAssignment
<1>2. PICK grant : grant = [role |-> role, by |-> by, consumed |-> FALSE]
  OBVIOUS
<1>3. grant \in Grant
  BY <1>2 DEF Grant
<1>4. PICK d : d = [at |-> db.at, schema |-> db.schema, users |-> db.users,
                    grants |-> [db.grants EXCEPT ![e] = grant], reviews |-> db.reviews]
  OBVIOUS
<1>5. Write(d)
  <2>1. d = [db EXCEPT !.grants[e] = grant]
    BY <1>0, <1>4 DEF Shaped
  <2> QED BY <1>1, <1>2, <2>1
<1>6. Shaped(d) /\ Typed(d) /\ d.at = db.at
  BY <1>0, <1>3, <1>4 DEF Shaped, Typed
<1>7. Named(db) => Named(d)
  BY <1>4 DEF Named
<1> QED BY <1>5, <1>6, <1>7, WriteKeeps

LEMMA SaveReviewKeeps ==
  ASSUME IInv, NEW e \in Emails, SaveReview(e)
  PROVE  IInv'
<1>0. Shaped(db) /\ Typed(db)
  BY DEF IInv
<1>1. PICK r : /\ Write([db EXCEPT !.reviews = @ \cup {r}])
               /\ r \in Review /\ (r.kind = "CORRECTION" => ~r.verdict)
  <2>1. CASE Write([db EXCEPT !.reviews = @ \cup {[by |-> e, kind |-> None, verdict |-> TRUE]}])
    <3>1. PICK r : r = [by |-> e, kind |-> None, verdict |-> TRUE]
      OBVIOUS
    <3>2. Write([db EXCEPT !.reviews = @ \cup {r}])
      BY <2>1, <3>1
    <3>3. r \in Review /\ r.kind # "CORRECTION"
      BY <3>1, NoneIsNothing DEF Review
    <3> QED BY <3>2, <3>3
  <2>2. ASSUME NEW kind \in {"VERDICT", "CORRECTION"},
               Write([db EXCEPT !.reviews =
                 @ \cup {[by |-> e, kind |-> kind, verdict |-> kind = "VERDICT"]}])
        PROVE  \E r : /\ Write([db EXCEPT !.reviews = @ \cup {r}])
                      /\ r \in Review /\ (r.kind = "CORRECTION" => ~r.verdict)
    <3>1. PICK r : r = [by |-> e, kind |-> kind, verdict |-> kind = "VERDICT"]
      OBVIOUS
    <3>2. Write([db EXCEPT !.reviews = @ \cup {r}])
      BY <2>2, <3>1
    <3>3. r \in Review /\ (r.kind = "CORRECTION" => ~r.verdict)
      BY <2>2, <3>1 DEF Review
    <3> QED BY <3>2, <3>3
  <2> QED BY <2>1, <2>2 DEF SaveReview
<1>2. PICK d : d = [at |-> db.at, schema |-> db.schema, users |-> db.users, grants |-> db.grants,
                    reviews |-> db.reviews \cup {r}]
  OBVIOUS
<1>3. Write(d)
  <2>1. d = [db EXCEPT !.reviews = @ \cup {r}]
    BY <1>0, <1>2 DEF Shaped
  <2> QED BY <1>1, <2>1
<1>4. Shaped(d) /\ Typed(d) /\ d.at = db.at
  BY <1>0, <1>1, <1>2 DEF Shaped, Typed
<1>5. Named(db) => Named(d)
  BY <1>2 DEF Named
<1> QED BY <1>3, <1>4, <1>5, WriteKeeps

-----------------------------------------------------------------------------
(* Running a list of operations over tables: the fold of SchemaAt, one operation at a time. *)

\* A set of natural numbers has a least element.
LEMMA Least ==
  ASSUME NEW S \in SUBSET Nat, S # {}
  PROVE  \E n \in S : \A m \in S : n <= m
<1>1. PICK R : R = OpToRel(<, Nat)
  OBVIOUS
<1>2. \A x, y \in Nat : <<x, y>> \in R <=> x < y
  BY <1>1 DEF OpToRel
<1>3. IsWellFoundedOn(R, Nat)
  BY <1>1, NatLessThanWellFounded
<1>4. PICK n \in S : \A m \in S : <<m, n>> \notin R
  BY <1>3, WFMin
<1>5. \A m \in S : n \in Nat /\ m \in Nat /\ ~(m < n)
  BY <1>2, <1>4
<1> QED BY <1>5

LEMMA MaxIs ==
  ASSUME NEW n \in Nat, NEW s \in SUBSET (1..n), n \in s
  PROVE  Max(s) = n
<1>1. n \in s /\ \A m \in s : n >= m
  OBVIOUS
<1>2. \A x \in s : (\A m \in s : x >= m) => x = n
  OBVIOUS
<1> QED BY <1>1, <1>2 DEF Max

\* f gives the tables after any subset of the operations 1..n, the last of them last.
Over(ops, start, n, f) ==
  f = [s \in SUBSET (1..n) |->
         IF s = {} THEN start ELSE Altered(ops[Max(s)], f[s \ {Max(s)}])]

LEMMA OverExists ==
  ASSUME NEW ops, NEW start, NEW n \in Nat
  PROVE  \E f : Over(ops, start, n, f)
<1> DEFINE bad == {m \in Nat : ~\E f : Over(ops, start, m, f)}
<1> SUFFICES ASSUME bad # {} PROVE FALSE
  OBVIOUS
<1>1. PICK m \in bad : \A k \in bad : m <= k
  <2>1. bad \in SUBSET Nat
    OBVIOUS
  <2> HIDE DEF bad
  <2> QED BY <2>1, Least
<1>2. m # 0
  <2>1. Over(ops, start, 0, [s \in SUBSET (1..0) |-> start])
    BY DEF Over
  <2> QED BY <2>1
<1>3. m - 1 \in Nat /\ m - 1 \notin bad
  BY <1>1, <1>2
<1>4. PICK f : Over(ops, start, m - 1, f)
  BY <1>3
<1> DEFINE value(s) == IF m \in s THEN Altered(ops[m], f[s \ {m}]) ELSE f[s]
<1>5. PICK g : g = [s \in SUBSET (1..m) |-> value(s)]
  OBVIOUS
<1>6. ASSUME NEW s \in SUBSET (1..m)
      PROVE  g[s] = IF s = {} THEN start ELSE Altered(ops[Max(s)], g[s \ {Max(s)}])
  <2>1. CASE m \in s
    <3>1. Max(s) = m /\ s \ {m} \in SUBSET (1..m) /\ s # {}
      BY <1>1, <2>1, MaxIs
    <3>2. g[s] = Altered(ops[m], f[s \ {m}]) /\ g[s \ {m}] = f[s \ {m}]
      BY <1>5, <2>1, <3>1
    <3> QED BY <3>1, <3>2
  <2>2. CASE m \notin s
    <3>1. s \in SUBSET (1..m - 1) /\ s \ {Max(s)} \in SUBSET (1..m) /\ m \notin s \ {Max(s)}
      <4>1. m \in Nat /\ \A x \in s : x \in 1..m /\ x # m
        BY <2>2
      <4>2. \A x \in s : x \in 1..m - 1
        BY <4>1
      <4> QED BY <2>2, <4>2
    <3>2. g[s] = f[s] /\ g[s \ {Max(s)}] = f[s \ {Max(s)}]
      BY <1>5, <2>2, <3>1
    <3>3. f[s] = IF s = {} THEN start ELSE Altered(ops[Max(s)], f[s \ {Max(s)}])
      BY <1>4, <3>1 DEF Over
    <3> QED BY <3>2, <3>3
  <2> QED BY <2>1, <2>2
<1>7. Over(ops, start, m, g)
  <2>1. g = [s \in SUBSET (1..m) |-> g[s]]
    BY <1>5
  <2> QED BY <1>6, <2>1 DEF Over
<1> QED BY <1>1, <1>7

\* The tables after the first k operations.
Run(ops, start, k) == (CHOOSE f : Over(ops, start, Len(ops), f))[1..k]

LEMMA RunIs ==
  ASSUME NEW ops, NEW start, Len(ops) \in Nat
  PROVE  /\ Run(ops, start, 0) = start
         /\ \A k \in 1..Len(ops) : Run(ops, start, k) = Altered(ops[k], Run(ops, start, k - 1))
<1>1. PICK f : Over(ops, start, Len(ops), f) /\ \A k : Run(ops, start, k) = f[1..k]
  BY OverExists DEF Run
<1>2. f[1..0] = start
  BY <1>1 DEF Over
<1>3. ASSUME NEW k \in 1..Len(ops)
      PROVE  f[1..k] = Altered(ops[k], f[1..k - 1])
  <2>1. 1..k \in SUBSET (1..Len(ops)) /\ 1..k # {} /\ Max(1..k) = k /\ (1..k) \ {k} = 1..k - 1
    BY MaxIs
  <2> QED BY <1>1, <2>1 DEF Over
<1> QED BY <1>1, <1>2, <1>3

LEMMA FoldRuns ==
  ASSUME NEW ops, NEW start, Len(ops) \in Nat, DOMAIN ops = 1..Len(ops)
  PROVE  FoldLeft(LAMBDA schema, op : Altered(op, schema), start, ops) = Run(ops, start, Len(ops))
BY DEF FoldLeft, MapThenFoldSet, Over, Run

-----------------------------------------------------------------------------
(* The tables, in the order in which the revisions make them. *)

Order ==
  << "audit_logs", "past_projects", "tenders", "users", "boq_items", "tender_documents",
     "tender_metadata", "tender_reviews", "user_sessions", "role_assignments", "work_types",
     "work_type_aliases", "past_project_work_types", "company_turnover", "tender_eligibility",
     "tender_eligibility_work_types", "tender_eligibility_projects", "portfolio_version",
     "eligibility_notifications" >>
Names == {Order[i] : i \in 1..19}
First(n) == {Order[i] : i \in 1..n}

\* A table as the revision that makes it first makes it.
Makes(i) ==
  IF i <= 9 THEN initial_schema[i]
  ELSE IF i = 10 THEN create_role_assignments[1]
  ELSE IF i <= 18 THEN eligibility_screening[i - 10] ELSE eligibility_notifications[1]
Made == [name \in Names |-> Makes(CHOOSE i \in 1..19 : Order[i] = name).as]

\* The tables named, each as "v" has it.
Schema(names, v) == [name \in names |-> v[name]]

LEMMA OrderIs ==
  ASSUME NEW i \in 1..19, NEW j \in 1..19, Order[i] = Order[j]
  PROVE  i = j
BY DEF Order

LEMMA FirstIs ==
  /\ First(0) = {} /\ First(19) = Names
  /\ \A n \in 1..19 : /\ Order[n] \in Names /\ Order[n] \notin First(n - 1)
                      /\ First(n) = First(n - 1) \cup {Order[n]}
                      /\ First(n - 1) = First(n) \ {Order[n]}
                      /\ First(n) \subseteq Names
<1>1. First(0) = {} /\ First(19) = Names
  BY DEF First, Names
<1>2. ASSUME NEW n \in 1..19
      PROVE  /\ Order[n] \in Names /\ First(n) = First(n - 1) \cup {Order[n]}
             /\ First(n) \subseteq Names
  <2>1. 1..n = (1..n - 1) \cup {n} /\ 1..n \subseteq 1..19
    OBVIOUS
  <2> QED BY <2>1 DEF First, Names
<1>3. ASSUME NEW n \in 1..19
      PROVE  Order[n] \notin First(n - 1)
  <2>1. ASSUME NEW i \in 1..n - 1 PROVE Order[i] # Order[n]
    <3>1. i \in 1..19 /\ i # n
      OBVIOUS
    <3> QED BY <3>1, OrderIs
  <2> QED BY <2>1 DEF First
<1> QED BY <1>1, <1>2, <1>3

LEMMA MadeIs ==
  /\ DOMAIN Made = Names
  /\ \A i \in 1..19 : Made[Order[i]] = Makes(i).as /\ Makes(i) = CreateTable(Order[i], Made[Order[i]])
<1>1. ASSUME NEW i \in 1..19
      PROVE  Made[Order[i]] = Makes(i).as
  <2>1. (CHOOSE j \in 1..19 : Order[j] = Order[i]) = i
    BY OrderIs
  <2>2. Order[i] \in Names
    BY DEF Names
  <2> QED BY <2>1, <2>2 DEF Made
<1>2. \A i \in 1..9 : initial_schema[i] = CreateTable(Order[i], initial_schema[i].as)
  BY DEF Order, initial_schema, CreateTable
<1>3. create_role_assignments[1] = CreateTable(Order[10], create_role_assignments[1].as)
  BY DEF Order, create_role_assignments, CreateTable
<1>4. \A i \in 1..8 : eligibility_screening[i] = CreateTable(Order[i + 10], eligibility_screening[i].as)
  BY DEF Order, eligibility_screening, CreateTable
<1>5. eligibility_notifications[1] = CreateTable(Order[19], eligibility_notifications[1].as)
  BY DEF Order, eligibility_notifications, CreateTable
<1>6. ASSUME NEW i \in 1..19
      PROVE  Makes(i) = CreateTable(Order[i], Makes(i).as)
  <2>1. i \in 11..18 => i - 10 \in 1..8 /\ (i - 10) + 10 = i
    OBVIOUS
  <2> QED BY <2>1, <1>2, <1>3, <1>4, <1>5 DEF Makes
<1> QED BY <1>1, <1>6 DEF Made

\* What a table refers to was made before it.
LEMMA RefersBack ==
  \A i \in 1..19 : \A r \in Made[Order[i]].refers : r.to \in First(i - 1)
<1> DEFINE Back(i, table) == \A r \in table.refers : \E j \in 1..i - 1 : r.to = Order[j]
<1>1. \A i \in 1..9 : Back(i, initial_schema[i].as)
  BY DEF initial_schema, CreateTable, Table, Order, OfTender, Refers, AuditLogs
<1>2. Back(10, create_role_assignments[1].as)
  BY DEF create_role_assignments, CreateTable, Table, Order, Refers
<1>3. \A i \in 1..8 : Back(i + 10, eligibility_screening[i].as)
  BY DEF eligibility_screening, CreateTable, Table, Order, OfTender, OfScreening, OfWorkType, OfProject,
         Refers
<1>4. Back(19, eligibility_notifications[1].as)
  BY DEF eligibility_notifications, CreateTable, Table, Order, OfTender, Refers
<1>5. ASSUME NEW i \in 1..19 PROVE Back(i, Makes(i).as)
  <2>1. i \in 11..18 => i - 10 \in 1..8 /\ (i - 10) + 10 = i
    OBVIOUS
  <2> HIDE DEF Back
  <2> QED BY <2>1, <1>1, <1>2, <1>3, <1>4 DEF Makes
<1> QED BY <1>5, MadeIs DEF First

-----------------------------------------------------------------------------
(* What an operation does to the tables of a revision, and what it needs of them. *)

\* Tables that refer to what they referred to when they were made.
Versions(v) == DOMAIN v = Names /\ \A name \in Names : v[name].refers = Made[name].refers

\* A database of these tables without a row: what is refused there is refused for the tables.
Bare(schema) == [Empty EXCEPT !.schema = schema]

LEMMA RefusedIs ==
  ASSUME NEW op, NEW d, Shaped(d), Refused(op, d), op.do # "refuse"
  PROVE  \/ Refused(op, Bare(d.schema))
         \/ op.do = "require" /\ \E r \in d.reviews : IsNull(r, op.column)
<1>1. Bare(d.schema).schema = d.schema /\ Tables(Bare(d.schema)) = Tables(d)
  BY DEF Bare, Empty, Tables
<1>2. \A name, column : Has(d, name, column) => Has(Bare(d.schema), name, column)
  BY <1>1 DEF Has
<1>3. CASE op.do \in {"create", "drop", "add", "remove", "relax"}
  BY <1>1, <1>2, <1>3 DEF Refused, Has
<1>4. CASE op.do \in {"require", "index", "unique", "unindex"}
  BY <1>1, <1>2, <1>4 DEF Refused, Has
<1>5. CASE op.do = "seed"
  BY <1>1, <1>5 DEF Refused, Seeds
<1>6. CASE op.do \notin {"create", "drop", "add", "remove", "relax", "require", "index", "unique",
                       "unindex", "seed", "refuse"}
  BY <1>1, <1>6 DEF Refused
<1> QED BY <1>3, <1>4, <1>5, <1>6

LEMMA Creating ==
  ASSUME NEW n \in 1..19, NEW names \in SUBSET Names, NEW v, Versions(v), NEW op,
         op = CreateTable(Order[n], v[Order[n]]), Order[n] \notin names, First(n - 1) \subseteq names
  PROVE  /\ Altered(op, Schema(names, v)) = Schema(names \cup {Order[n]}, v)
         /\ ~Refused(op, Bare(Schema(names, v)))
<1>1. op.do = "create" /\ op.table = Order[n] /\ op.as = v[Order[n]]
  BY DEF CreateTable
<1>2. Bare(Schema(names, v)).schema = Schema(names, v) /\ DOMAIN Schema(names, v) = names
  BY DEF Bare, Empty, Schema
<1>3. Altered(op, Schema(names, v)) = Schema(names \cup {Order[n]}, v)
  BY <1>1 DEF Altered, Schema
<1>4. \A r \in op.as.refers : r.to \in names
  BY <1>1, RefersBack, FirstIs DEF Versions
<1> QED BY <1>1, <1>2, <1>3, <1>4 DEF Refused, Tables

LEMMA Dropping ==
  ASSUME NEW names \in SUBSET Names, NEW v, Versions(v), NEW name \in names, NEW indexes,
         NEW op, op = DropTable(name, indexes), indexes \subseteq Indexed(v[name]),
         \A t \in names \ {name} : \A r \in Made[t].refers : r.to # name
  PROVE  /\ Altered(op, Schema(names, v)) = Schema(names \ {name}, v)
         /\ ~Refused(op, Bare(Schema(names, v)))
<1>1. op.do = "drop" /\ op.table = name /\ op.indexes = indexes
  BY DEF DropTable
<1>2. /\ Bare(Schema(names, v)).schema = Schema(names, v) /\ DOMAIN Schema(names, v) = names
      /\ \A t \in names : Schema(names, v)[t] = v[t]
  BY DEF Bare, Empty, Schema
<1>3. Altered(op, Schema(names, v)) = Schema(names \ {name}, v)
  BY <1>1 DEF Altered, Schema
<1>4. \A t \in names \ {name} : \A r \in v[t].refers : r.to # name
  BY DEF Versions
<1> QED BY <1>1, <1>2, <1>3, <1>4 DEF Refused, Tables

\* The table made last is dropped first.
LEMMA DroppingLast ==
  ASSUME NEW n \in 1..19, NEW v, Versions(v), NEW indexes, NEW op,
         op = DropTable(Order[n], indexes), indexes \subseteq Indexed(v[Order[n]])
  PROVE  /\ Altered(op, Schema(First(n), v)) = Schema(First(n - 1), v)
         /\ ~Refused(op, Bare(Schema(First(n), v)))
<1>1. /\ First(n) \in SUBSET Names /\ Order[n] \in First(n)
      /\ First(n) \ {Order[n]} = First(n - 1)
  BY FirstIs
<1>2. ASSUME NEW t \in First(n) \ {Order[n]}, NEW r \in Made[t].refers
      PROVE  r.to # Order[n]
  <2>1. PICK i \in 1..n - 1 : t = Order[i]
    BY <1>1 DEF First
  <2>2. i \in 1..19 /\ i - 1 <= n - 1 /\ 1..i - 1 \subseteq 1..n - 1
    OBVIOUS
  <2>3. r.to \in First(i - 1)
    BY <2>1, <2>2, RefersBack
  <2>4. r.to \in First(n - 1)
    BY <2>2, <2>3 DEF First
  <2> QED BY <2>4, FirstIs
<1> QED BY <1>1, <1>2, Dropping

\* A table after an operation on its columns and indexes, and what the operation needs of it.
Changed(op, table) ==
  CASE op.do = "add" -> [table EXCEPT !.optional = @ \cup {op.column}]
    [] op.do = "remove" -> Without(table, op.column)
    [] op.do = "require" -> [table EXCEPT !.required = @ \cup {op.column},
                                          !.optional = @ \ {op.column}]
    [] op.do = "relax" -> [table EXCEPT !.required = @ \ {op.column},
                                        !.optional = @ \cup {op.column}]
    [] op.do = "index" -> [table EXCEPT !.indexed = @ \cup {op.column}]
    [] op.do = "unique" -> [table EXCEPT !.unique = @ \cup {op.column}]
    [] op.do = "unindex" -> [table EXCEPT !.indexed = @ \ {op.column}, !.unique = @ \ {op.column}]
    [] OTHER -> table
Admits(table, op) ==
  CASE op.do = "add" -> op.column \notin Column(table)
    [] op.do \in {"remove", "require", "relax"} -> op.column \in Column(table)
    [] op.do \in {"index", "unique"} -> op.column \in Column(table) \ Indexed(table)
    [] op.do = "unindex" -> op.column \in Indexed(table)
    [] OTHER -> op.do \in {"collapse", "split", "seed", "unseed", "backfill", "delete"}

LEMMA Altering ==
  ASSUME NEW names \in SUBSET Names, NEW v, Versions(v), NEW op, op.table \in names,
         Admits(v[op.table], op)
  PROVE  /\ Altered(op, Schema(names, v))
               = Schema(names, [v EXCEPT ![op.table] = Changed(op, v[op.table])])
         /\ ~Refused(op, Bare(Schema(names, v)))
<1> DEFINE s == Schema(names, v)
           t == op.table
           d == Bare(s)
<1>1. op.do \notin {"create", "drop", "refuse"}
  BY DEF Admits
<1>2. DOMAIN s = names /\ s[t] = v[t] /\ t \in DOMAIN v
  BY DEF Schema, Versions
<1>3. /\ \A x : [s EXCEPT ![t] = x] = Schema(names, [v EXCEPT ![t] = x])
      /\ s = Schema(names, [v EXCEPT ![t] = v[t]])
  BY DEF Schema, Versions
<1>4. /\ d.schema = s /\ Tables(d) = names /\ d.reviews = {} /\ \A e \in Emails : d.grants[e] = None
      /\ \A column : Has(d, t, column) <=> column \in Column(v[t])
  BY <1>2 DEF Bare, Empty, Tables, NoRow, Has
<1>5. op.do \in {"add", "remove", "require", "relax", "index", "unique", "unindex"}
        \/ op.do \in {"collapse", "split", "seed", "unseed", "backfill", "delete"}
  BY DEF Admits
<1>6. Altered(op, s) = Schema(names, [v EXCEPT ![t] = Changed(op, v[t])])
  <2> HIDE DEF s, t
  <2>1. CASE op.do \in {"add", "remove", "require", "relax"}
    BY <1>2, <1>3, <2>1 DEF Altered, Changed, t
  <2>2. CASE op.do \in {"index", "unique", "unindex"}
    BY <1>2, <1>3, <2>2 DEF Altered, Changed, t
  <2>3. CASE op.do \in {"collapse", "split", "seed", "unseed", "backfill", "delete"}
    BY <1>2, <1>3, <2>3 DEF Altered, Changed, t
  <2> QED BY <1>5, <2>1, <2>2, <2>3 DEF s, t
<1>7. ~Refused(op, d)
  <2> HIDE DEF d, s
  <2>1. CASE op.do \in {"add", "remove", "require", "relax"}
    BY <1>4, <2>1 DEF Refused, Admits
  <2>2. CASE op.do \in {"index", "unique", "unindex"}
    BY <1>2, <1>4, <2>2 DEF Refused, Admits
  <2>3. CASE op.do \in {"collapse", "split", "seed", "unseed", "backfill", "delete"}
    BY <1>4, <2>3 DEF Refused, Seeds
  <2> QED BY <1>5, <2>1, <2>2, <2>3
<1> QED BY <1>6, <1>7

-----------------------------------------------------------------------------
(* Whole lists. *)

\* Every operation of the list can be run, over tables without a row, and the last leaves "after".
Runs(ops, before, after) ==
  /\ Run(ops, before, Len(ops)) = after
  /\ \A k \in 1..Len(ops) : ~Refused(ops[k], Bare(Run(ops, before, k - 1)))

LEMMA RunsOne ==
  ASSUME NEW op, NEW before, NEW after, NEW ops, ops = <<op>>,
         Altered(op, before) = after, ~Refused(op, Bare(before))
  PROVE  Runs(ops, before, after)
<1>1. Len(ops) = 1 /\ ops[1] = op
  OBVIOUS
<1>2. Run(ops, before, 0) = before /\ Run(ops, before, 1) = after
  <2>1. 1 \in 1..Len(ops) /\ 1 - 1 = 0
    BY <1>1
  <2>2. Run(ops, before, 0) = before /\ Run(ops, before, 1) = Altered(ops[1], Run(ops, before, 1 - 1))
    BY <1>1, <2>1, RunIs
  <2> QED BY <1>1, <2>1, <2>2
<1> QED BY <1>1, <1>2 DEF Runs

\* Making the next n tables, from the first operation on.
LEMMA CreatingRuns ==
  ASSUME NEW ops, Len(ops) \in Nat, NEW m \in 0..19, NEW n \in 0..Len(ops), m + n <= 19,
         NEW v, Versions(v),
         \A k \in 1..n : ops[k] = CreateTable(Order[m + k], v[Order[m + k]])
  PROVE  /\ \A k \in 0..n : Run(ops, Schema(First(m), v), k) = Schema(First(m + k), v)
         /\ \A k \in 1..n : ~Refused(ops[k], Bare(Schema(First(m + k - 1), v)))
<1> DEFINE s == Schema(First(m), v)
           bad == {k \in 0..n : Run(ops, s, k) # Schema(First(m + k), v)}
<1>1. ASSUME NEW k \in 1..n
      PROVE  /\ Altered(ops[k], Schema(First(m + k - 1), v)) = Schema(First(m + k), v)
             /\ ~Refused(ops[k], Bare(Schema(First(m + k - 1), v)))
  <2>1. PICK i \in 1..19 : i = m + k
    OBVIOUS
  <2>2. /\ Order[i] \notin First(i - 1) /\ First(i) = First(i - 1) \cup {Order[i]}
        /\ First(i - 1) \in SUBSET Names
    BY FirstIs
  <2>3. ops[k] = CreateTable(Order[i], v[Order[i]]) /\ m + k - 1 = i - 1
    BY <2>1
  <2>4. /\ Altered(ops[k], Schema(First(i - 1), v)) = Schema(First(i - 1) \cup {Order[i]}, v)
        /\ ~Refused(ops[k], Bare(Schema(First(i - 1), v)))
    <3>1. PICK names \in SUBSET Names : names = First(i - 1)
      BY <2>2
    <3>2. PICK op : op = ops[k]
      OBVIOUS
    <3>3. First(i - 1) \subseteq names /\ Order[i] \notin names /\ op = CreateTable(Order[i], v[Order[i]])
      BY <2>2, <2>3, <3>1, <3>2
    <3> QED BY <3>1, <3>2, <3>3, Creating
  <2> QED BY <2>1, <2>2, <2>3, <2>4
<1>2. ASSUME bad # {} PROVE FALSE
  <2>1. PICK k \in bad : \A j \in bad : k <= j
    <3>1. bad \in SUBSET Nat
      OBVIOUS
    <3> HIDE DEF bad
    <3> QED BY <1>2, <3>1, Least
  <2>2. k # 0
    <3>1. Run(ops, s, 0) = Schema(First(m + 0), v)
      BY RunIs
    <3> QED BY <3>1
  <2>3. k \in 1..n /\ k - 1 \in 0..n /\ k - 1 \notin bad /\ k \in 1..Len(ops) /\ m + (k - 1) = m + k - 1
    BY <2>1, <2>2
  <2>4. Run(ops, s, k - 1) = Schema(First(m + k - 1), v)
    BY <2>3
  <2>5. Run(ops, s, k) = Altered(ops[k], Run(ops, s, k - 1))
    BY <2>3, RunIs
  <2> QED BY <1>1, <2>3, <2>4, <2>5
<1> QED BY <1>1, <1>2

\* Dropping the last n tables, after the first l operations.
LEMMA DroppingRuns ==
  ASSUME NEW ops, NEW l \in Nat, NEW n \in Nat, Len(ops) = l + n, NEW m \in n..19,
         NEW v, Versions(v), NEW s, Run(ops, s, l) = Schema(First(m), v),
         \A k \in 1..n : \E indexes : /\ ops[l + k] = DropTable(Order[m + 1 - k], indexes)
                                     /\ indexes \subseteq Indexed(v[Order[m + 1 - k]])
  PROVE  /\ Run(ops, s, l + n) = Schema(First(m - n), v)
         /\ \A k \in 1..n : ~Refused(ops[l + k], Bare(Run(ops, s, l + k - 1)))
<1> DEFINE bad == {k \in 0..n : Run(ops, s, l + k) # Schema(First(m - k), v)}
<1>1. ASSUME NEW k \in 1..n
      PROVE  /\ Altered(ops[l + k], Schema(First(m - (k - 1)), v)) = Schema(First(m - k), v)
             /\ ~Refused(ops[l + k], Bare(Schema(First(m - (k - 1)), v)))
  <2>0. m \in Int /\ m <= 19 /\ n <= m /\ k \in Int /\ 1 <= k /\ k <= n
    OBVIOUS
  <2>1. PICK i \in 1..19 : i = m + 1 - k
    BY <2>0
  <2>2. PICK indexes : ops[l + k] = DropTable(Order[i], indexes) /\ indexes \subseteq Indexed(v[Order[i]])
    BY <2>1
  <2>3. m - (k - 1) = i /\ m - k = i - 1
    BY <2>1
  <2> QED BY <2>2, <2>3, DroppingLast
<1>2. ASSUME bad # {} PROVE FALSE
  <2>1. PICK k \in bad : \A j \in bad : k <= j
    <3>1. bad \in SUBSET Nat
      OBVIOUS
    <3> HIDE DEF bad
    <3> QED BY <1>2, <3>1, Least
  <2>2. k # 0
    <3>1. l + 0 = l /\ m - 0 = m
      OBVIOUS
    <3> QED BY <3>1
  <2>3. /\ k \in 1..n /\ k - 1 \in 0..n /\ k - 1 \notin bad /\ l + k \in 1..Len(ops)
        /\ l + (k - 1) = l + k - 1
    BY <2>1, <2>2
  <2>4. Run(ops, s, l + k - 1) = Schema(First(m - (k - 1)), v)
    BY <2>3
  <2>5. Run(ops, s, l + k) = Altered(ops[l + k], Run(ops, s, l + k - 1))
    <3>1. Len(ops) \in Nat
      OBVIOUS
    <3>2. \A j \in 1..Len(ops) : Run(ops, s, j) = Altered(ops[j], Run(ops, s, j - 1))
      BY <3>1, RunIs
    <3> QED BY <2>3, <3>2
  <2> QED BY <1>1, <2>3, <2>4, <2>5
<1>3. \A k \in 0..n : Run(ops, s, l + k) = Schema(First(m - k), v)
  BY <1>2
<1>4. ASSUME NEW k \in 1..n
      PROVE  Run(ops, s, l + k - 1) = Schema(First(m - (k - 1)), v)
  <2>1. k - 1 \in 0..n /\ l + (k - 1) = l + k - 1
    OBVIOUS
  <2> QED BY <1>3, <2>1
<1> QED BY <1>1, <1>3, <1>4

-----------------------------------------------------------------------------
(* The tables of each revision. *)

\* The tables that are changed after they were made, operation by operation.
Passwordless == Changed(drop_password[1], Made["users"])
Kind1 == Changed(split_correction[1], Made["tender_reviews"])
Kind2 == Changed(split_correction[3], Kind1)
Kind3 == Changed(split_correction[4], Kind2)
Kind4 == Changed(split_correction[5], Kind3)
Project1 == Changed(eligibility_screening[9], Made["past_projects"])
Project2 == Changed(eligibility_screening[10], Project1)
Project3 == Changed(eligibility_screening[11], Project2)
Project4 == Changed(eligibility_screening[12], Project3)
Project5 == Changed(eligibility_screening[13], Project4)
Purged == Changed(document_purge[1], Made["tender_documents"])
Trail == restore_audit_trail[1].as

V3 == [Made EXCEPT !["users"] = Passwordless]
V6 == [V3 EXCEPT !["tender_reviews"] = Kind4]
V7 == [V6 EXCEPT !["users"] = Made["users"]]
V8 == [V7 EXCEPT !["past_projects"] = Project5]
V9 == [V8 EXCEPT !["tender_documents"] = Purged]
V12 == [V9 EXCEPT !["audit_logs"] = Trail]

\* What the retirement leaves.
Left == First(18) \ {"tender_reviews", "audit_logs"}

SchemaOf(revision) ==
  CASE revision = 0 -> Schema(First(0), Made)
    [] revision \in 1..2 -> Schema(First(9), Made)
    [] revision = 3 -> Schema(First(9), V3)
    [] revision \in 4..5 -> Schema(First(10), V3)
    [] revision = 6 -> Schema(First(10), V6)
    [] revision = 7 -> Schema(First(10), V7)
    [] revision = 8 -> Schema(First(18), V8)
    [] revision = 9 -> Schema(First(18), V9)
    [] revision = 10 -> Schema(First(19), V9)
    [] revision = 11 -> Schema(Left, V12)
    [] revision = 12 -> Schema(Left \cup {"audit_logs"}, V12)

LEMMA PlacesAre ==
  /\ Order[1] = "audit_logs" /\ Order[2] = "past_projects" /\ Order[4] = "users"
  /\ Order[6] = "tender_documents" /\ Order[8] = "tender_reviews" /\ Order[10] = "role_assignments"
  /\ Order[19] = "eligibility_notifications"
  /\ {"audit_logs", "past_projects", "users", "tender_documents", "tender_reviews"} \subseteq First(9)
  /\ First(9) \subseteq First(10) /\ First(10) \subseteq First(18) /\ First(18) \subseteq First(19)
  /\ First(9) \subseteq Names /\ First(10) \subseteq Names /\ First(18) \subseteq Names
  /\ "role_assignments" \in First(10)
<1>1. /\ Order[1] = "audit_logs" /\ Order[2] = "past_projects" /\ Order[4] = "users"
      /\ Order[6] = "tender_documents" /\ Order[8] = "tender_reviews" /\ Order[10] = "role_assignments"
      /\ Order[19] = "eligibility_notifications"
  BY DEF Order
<1>2. /\ Order[1] \in First(9) /\ Order[2] \in First(9) /\ Order[4] \in First(9) /\ Order[6] \in First(9)
      /\ Order[8] \in First(9) /\ Order[10] \in First(10)
  BY DEF First
<1>3. /\ First(9) \subseteq First(10) /\ First(10) \subseteq First(18) /\ First(18) \subseteq First(19)
      /\ First(9) \subseteq Names /\ First(10) \subseteq Names /\ First(18) \subseteq Names
  BY DEF First, Names
<1> QED BY <1>1, <1>2, <1>3

LEMMA MadeTables ==
  /\ Made["audit_logs"] = AuditLogs(AuditIndexes) /\ Made["past_projects"] = initial_schema[2].as
  /\ Made["users"] = initial_schema[4].as /\ Made["tender_documents"] = initial_schema[6].as
  /\ Made["tender_reviews"] = initial_schema[8].as
<1>1. initial_schema[1].as = AuditLogs(AuditIndexes)
  BY DEF initial_schema, CreateTable
<1>2. /\ Makes(1) = initial_schema[1] /\ Makes(2) = initial_schema[2] /\ Makes(4) = initial_schema[4]
      /\ Makes(6) = initial_schema[6] /\ Makes(8) = initial_schema[8]
  BY DEF Makes
<1>3. /\ Made[Order[1]] = Makes(1).as /\ Made[Order[2]] = Makes(2).as /\ Made[Order[4]] = Makes(4).as
      /\ Made[Order[6]] = Makes(6).as /\ Made[Order[8]] = Makes(8).as
  BY MadeIs
<1> QED BY <1>1, <1>2, <1>3, PlacesAre

LEMMA AddIs ==
  ASSUME NEW op, op.do = "add", NEW c, op.column = c, NEW r, NEW o, NEW u, NEW i, NEW f
  PROVE  Changed(op, Table(r, o, u, i, f)) = Table(r, o \cup {c}, u, i, f)
BY DEF Changed, Table

LEMMA RemoveIs ==
  ASSUME NEW op, op.do = "remove", NEW c, op.column = c, NEW r, NEW o, NEW u, NEW i, NEW f
  PROVE  Changed(op, Table(r, o, u, i, f)) =
           Table(r \ {c}, o \ {c}, u \ {c}, i \ {c}, {x \in f : x.column # c})
BY DEF Changed, Table, Without

LEMMA RequireIs ==
  ASSUME NEW op, op.do = "require", NEW c, op.column = c, NEW r, NEW o, NEW u, NEW i, NEW f
  PROVE  Changed(op, Table(r, o, u, i, f)) = Table(r \cup {c}, o \ {c}, u, i, f)
BY DEF Changed, Table

LEMMA RelaxIs ==
  ASSUME NEW op, op.do = "relax", NEW c, op.column = c, NEW r, NEW o, NEW u, NEW i, NEW f
  PROVE  Changed(op, Table(r, o, u, i, f)) = Table(r \ {c}, o \cup {c}, u, i, f)
BY DEF Changed, Table

LEMMA IndexIs ==
  ASSUME NEW op, op.do = "index", NEW c, op.column = c, NEW r, NEW o, NEW u, NEW i, NEW f
  PROVE  Changed(op, Table(r, o, u, i, f)) = Table(r, o, u, i \cup {c}, f)
BY DEF Changed, Table

LEMMA UniqueIs ==
  ASSUME NEW op, op.do = "unique", NEW c, op.column = c, NEW r, NEW o, NEW u, NEW i, NEW f
  PROVE  Changed(op, Table(r, o, u, i, f)) = Table(r, o, u \cup {c}, i, f)
BY DEF Changed, Table

LEMMA UnindexIs ==
  ASSUME NEW op, op.do = "unindex", NEW c, op.column = c, NEW r, NEW o, NEW u, NEW i, NEW f
  PROVE  Changed(op, Table(r, o, u, i, f)) = Table(r, o, u \ {c}, i \ {c}, f)
BY DEF Changed, Table

LEMMA TableIs ==
  ASSUME NEW r, NEW o, NEW u, NEW i, NEW f
  PROVE  /\ Column(Table(r, o, u, i, f)) = r \cup o /\ Indexed(Table(r, o, u, i, f)) = u \cup i
         /\ Table(r, o, u, i, f).refers = f /\ Table(r, o, u, i, f).unique = u
BY DEF Table, Column, Indexed

\* A column that no index and no reference is on can be added to a table and taken off again.
LEMMA AddedAndRemoved ==
  ASSUME NEW r, NEW o, NEW u, NEW i, NEW f, NEW add, NEW remove, NEW c,
         add.do = "add", add.column = c, remove.do = "remove", remove.column = c,
         c \notin r \cup o \cup u \cup i, \A x \in f : x.column # c
  PROVE  /\ Changed(add, Table(r, o, u, i, f)) = Table(r, o \cup {c}, u, i, f)
         /\ Changed(remove, Table(r, o \cup {c}, u, i, f)) = Table(r, o, u, i, f)
         /\ Admits(Table(r, o, u, i, f), add) /\ Admits(Table(r, o \cup {c}, u, i, f), remove)
<1>1. /\ r \ {c} = r /\ (o \cup {c}) \ {c} = o /\ u \ {c} = u /\ i \ {c} = i
      /\ {x \in f : x.column # c} = f
  OBVIOUS
<1>2. /\ Changed(add, Table(r, o, u, i, f)) = Table(r, o \cup {c}, u, i, f)
      /\ Changed(remove, Table(r, o \cup {c}, u, i, f))
           = Table(r \ {c}, (o \cup {c}) \ {c}, u \ {c}, i \ {c}, {x \in f : x.column # c})
  BY AddIs, RemoveIs
<1>3. Admits(Table(r, o, u, i, f), add) /\ Admits(Table(r, o \cup {c}, u, i, f), remove)
  BY TableIs DEF Admits
<1> QED BY <1>1, <1>2, <1>3

\* The accounts.
LEMMA UsersTables ==
  /\ Admits(Made["users"], drop_password[1]) /\ Admits(Passwordless, drop_password_down[1])
  /\ Changed(drop_password_down[1], Passwordless) = Made["users"]
  /\ Passwordless.refers = Made["users"].refers
  /\ restore_password[1] = drop_password_down[1] /\ restore_password_down[1] = drop_password[1]
  /\ Made["users"].unique = {"email", "google_sub"} /\ Passwordless.unique = {"email", "google_sub"}
<1> DEFINE r == {"id", "email", "full_name", "role", "is_active"} \cup Stamps
           o == {"google_sub", "last_login_at"}
           u == {"email", "google_sub"}
           c == "hashed_password"
<1>1. Made["users"] = Table(r, o \cup {c}, u, {}, {})
  <2>1. o \cup {c} = {"hashed_password", "google_sub", "last_login_at"}
    OBVIOUS
  <2>2. initial_schema[4].as = Table(r, {"hashed_password", "google_sub", "last_login_at"}, u, {}, {})
    BY DEF initial_schema, CreateTable
  <2> QED BY <2>1, <2>2, MadeTables
<1>2. /\ drop_password[1].do = "remove" /\ drop_password[1].column = c
      /\ drop_password_down[1].do = "add" /\ drop_password_down[1].column = c
  BY DEF drop_password, DropColumn, drop_password_down, AddColumn, Operation
<1>3. c \notin r \cup o \cup u \cup {}
  BY DEF Stamps
<1> HIDE DEF r, o, u, c
<1>4. /\ Changed(drop_password_down[1], Table(r, o, u, {}, {})) = Table(r, o \cup {c}, u, {}, {})
      /\ Changed(drop_password[1], Table(r, o \cup {c}, u, {}, {})) = Table(r, o, u, {}, {})
      /\ Admits(Table(r, o, u, {}, {}), drop_password_down[1])
      /\ Admits(Table(r, o \cup {c}, u, {}, {}), drop_password[1])
  BY <1>2, <1>3, AddedAndRemoved
<1>5. restore_password[1] = drop_password_down[1] /\ restore_password_down[1] = drop_password[1]
  BY DEF restore_password, drop_password_down, restore_password_down, drop_password
<1>6. Passwordless = Table(r, o, u, {}, {})
  BY <1>1, <1>4 DEF Passwordless
<1>7. /\ Passwordless.refers = {} /\ Made["users"].refers = {}
      /\ Passwordless.unique = u /\ Made["users"].unique = u
  BY <1>1, <1>6, TableIs
<1>8. u = {"email", "google_sub"}
  BY DEF u
<1> QED BY <1>1, <1>4, <1>5, <1>6, <1>7, <1>8

\* The reviews.
LEMMA ReviewsTables ==
  /\ Admits(Made["tender_reviews"], split_correction[1]) /\ Admits(Kind1, split_correction[3])
  /\ Admits(Kind2, split_correction[4]) /\ Admits(Kind3, split_correction[5])
  /\ Admits(Kind4, split_correction_down[1]) /\ Changed(split_correction_down[1], Kind4) = Kind3
  /\ Admits(Kind3, split_correction_down[3]) /\ Changed(split_correction_down[3], Kind3) = Kind2
  /\ Admits(Kind2, split_correction_down[4])
  /\ Changed(split_correction_down[4], Kind2) = Made["tender_reviews"]
  /\ Kind1.refers = Made["tender_reviews"].refers /\ Kind2.refers = Made["tender_reviews"].refers
  /\ Kind3.refers = Made["tender_reviews"].refers /\ Kind4.refers = Made["tender_reviews"].refers
  /\ Made["tender_reviews"].indexed = {"reviewer_id", "tender_id"}
<1> DEFINE r == {"id", "tender_id", "reviewer_id", "verdict", "before_snapshot", "after_snapshot",
                 "created_at"}
           o == {"comments"}
           i == {"reviewer_id", "tender_id"}
           f == {OfTender, Refers("reviewer_id", "users", "RESTRICT")}
           c == "kind"
           d == "verdict"
<1>1. Made["tender_reviews"] = Table(r, o, {}, i, f)
  BY MadeTables DEF initial_schema, CreateTable
<1>2. /\ split_correction[1].do = "add" /\ split_correction[1].column = c
      /\ split_correction[3].do = "require" /\ split_correction[3].column = c
      /\ split_correction[4].do = "relax" /\ split_correction[4].column = d
      /\ split_correction[5].do = "index" /\ split_correction[5].column = c
  BY DEF split_correction, AddColumn, SetNotNull, DropNotNull, CreateIndex, Operation
<1>3. /\ split_correction_down[1].do = "unindex" /\ split_correction_down[1].column = c
      /\ split_correction_down[3].do = "require" /\ split_correction_down[3].column = d
      /\ split_correction_down[4].do = "remove" /\ split_correction_down[4].column = c
  BY DEF split_correction_down, DropIndex, SetNotNull, DropColumn, Operation
<1>4. /\ \A x \in f : x.column # c
      /\ c \notin r \cup o \cup i /\ c # d /\ d \in r /\ d \notin o
  BY DEF OfTender, Refers
<1>5. \A s : Table(r, o, s, i, f).indexed = {"reviewer_id", "tender_id"}
  BY DEF Table
<1> HIDE DEF r, o, i, f, c, d
<1>6. Kind1 = Table(r, o \cup {c}, {}, i, f) /\ Admits(Table(r, o, {}, i, f), split_correction[1])
  <2>1. Kind1 = Table(r, o \cup {c}, {}, i, f)
    BY <1>1, <1>2, AddIs DEF Kind1
  <2> QED BY <1>2, <1>4, <2>1, TableIs DEF Admits
<1>7. Kind2 = Table(r \cup {c}, o, {}, i, f)
  <2>1. (o \cup {c}) \ {c} = o
    BY <1>4
  <2> QED BY <1>2, <1>6, <2>1, RequireIs DEF Kind2
<1>8. Kind3 = Table((r \cup {c}) \ {d}, o \cup {d}, {}, i, f)
  BY <1>2, <1>7, RelaxIs DEF Kind3
<1>9. Kind4 = Table((r \cup {c}) \ {d}, o \cup {d}, {}, i \cup {c}, f)
  BY <1>2, <1>8, IndexIs DEF Kind4
<1>10. Changed(split_correction_down[1], Kind4) = Kind3
  <2>1. (i \cup {c}) \ {c} = i /\ {} \ {c} = {}
    BY <1>4
  <2> QED BY <1>3, <1>8, <1>9, <2>1, UnindexIs
<1>11. Changed(split_correction_down[3], Kind3) = Kind2
  <2>1. ((r \cup {c}) \ {d}) \cup {d} = r \cup {c} /\ (o \cup {d}) \ {d} = o
    BY <1>4
  <2> QED BY <1>3, <1>7, <1>8, <2>1, RequireIs
<1>12. Changed(split_correction_down[4], Kind2) = Made["tender_reviews"]
  <2>1. /\ (r \cup {c}) \ {c} = r /\ o \ {c} = o /\ {} \ {c} = {} /\ i \ {c} = i
        /\ {x \in f : x.column # c} = f
    BY <1>4
  <2> QED BY <1>1, <1>3, <1>7, <2>1, RemoveIs
<1>13. /\ Admits(Kind1, split_correction[3]) /\ Admits(Kind2, split_correction[4])
       /\ Admits(Kind3, split_correction[5])
  BY <1>2, <1>4, <1>6, <1>7, <1>8, TableIs DEF Admits
<1>14. /\ Admits(Kind4, split_correction_down[1]) /\ Admits(Kind3, split_correction_down[3])
       /\ Admits(Kind2, split_correction_down[4])
  BY <1>3, <1>4, <1>7, <1>8, <1>9, TableIs DEF Admits
<1> QED BY <1>1, <1>5, <1>6, <1>7, <1>8, <1>9, <1>10, <1>11, <1>12, <1>13, <1>14, TableIs

\* The projects.
LEMMA ProjectsTables ==
  /\ Admits(Made["past_projects"], eligibility_screening[9])
  /\ Admits(Project1, eligibility_screening[10]) /\ Admits(Project2, eligibility_screening[11])
  /\ Admits(Project3, eligibility_screening[12]) /\ Admits(Project4, eligibility_screening[13])
  /\ Admits(Project5, eligibility_screening_down[1])
  /\ Changed(eligibility_screening_down[1], Project5) = Project4
  /\ Admits(Project4, eligibility_screening_down[2])
  /\ Changed(eligibility_screening_down[2], Project4) = Project3
  /\ Admits(Project3, eligibility_screening_down[3])
  /\ Changed(eligibility_screening_down[3], Project3) = Project2
  /\ Admits(Project2, eligibility_screening_down[4])
  /\ Changed(eligibility_screening_down[4], Project2) = Project1
  /\ Admits(Project1, eligibility_screening_down[5])
  /\ Changed(eligibility_screening_down[5], Project1) = Made["past_projects"]
  /\ Made["past_projects"].refers = {} /\ Project1.refers = {} /\ Project2.refers = {}
  /\ Project3.refers = {} /\ Project4.refers = {} /\ Project5.refers = {}
  /\ Made["past_projects"].indexed = {"category", "work_value"}
<1> DEFINE r == {"id", "name", "embedding_indexed"} \cup Stamps
           o == {"client", "work_value", "category", "location", "description", "completion_date"}
           i == {"category", "work_value"}
           a == "loa_reference"
           b == "loa_reference_normalised"
           c == "completion_certificate_date"
           d == "completion_certificate_note"
           up(k) == eligibility_screening[k]
           down(k) == eligibility_screening_down[k]
           T(columns) == Table(r, columns, {}, i, {})
<1>1. Made["past_projects"] = T(o)
  BY MadeTables DEF initial_schema, CreateTable
<1>2. /\ up(9).do = "add" /\ up(9).column = a /\ up(10).do = "add" /\ up(10).column = b
      /\ up(11).do = "add" /\ up(11).column = c /\ up(12).do = "add" /\ up(12).column = d
      /\ up(13).do = "unique" /\ up(13).column = b
  BY DEF eligibility_screening, AddColumn, CreateUnique, Operation
<1>3. /\ down(1).do = "unindex" /\ down(1).column = b /\ down(2).do = "remove" /\ down(2).column = d
      /\ down(3).do = "remove" /\ down(3).column = c /\ down(4).do = "remove" /\ down(4).column = b
      /\ down(5).do = "remove" /\ down(5).column = a
  BY DEF eligibility_screening_down, DropIndex, DropColumn, Operation
<1>4. /\ {a, b, c, d} \cap (r \cup o \cup i) = {}
      /\ a # b /\ a # c /\ a # d /\ b # c /\ b # d /\ c # d
  BY DEF Stamps
<1>5. Made["past_projects"].indexed = {"category", "work_value"}
  BY <1>1 DEF Table
<1> HIDE DEF r, o, i, a, b, c, d, up, down
<1>6. ASSUME NEW add, NEW remove, NEW columns, NEW x, add.do = "add", add.column = x,
             remove.do = "remove", remove.column = x, x \notin r \cup columns \cup i
      PROVE  /\ Changed(add, T(columns)) = T(columns \cup {x})
             /\ Changed(remove, T(columns \cup {x})) = T(columns)
             /\ Admits(T(columns), add) /\ Admits(T(columns \cup {x}), remove)
  <2>1. x \notin r \cup columns \cup {} \cup i /\ \A y \in {} : y.column # x
    BY <1>6
  <2> QED BY <1>6, <2>1, AddedAndRemoved
<1> DEFINE o1 == o \cup {a}
           o2 == o1 \cup {b}
           o3 == o2 \cup {c}
           o4 == o3 \cup {d}
<1>7. /\ a \notin r \cup o \cup i /\ b \notin r \cup o1 \cup i /\ c \notin r \cup o2 \cup i
      /\ d \notin r \cup o3 \cup i /\ b \in o4 /\ b \notin i
  BY <1>4
<1> HIDE DEF T
<1>8. /\ Changed(up(9), T(o)) = T(o1) /\ Changed(down(5), T(o1)) = T(o)
      /\ Admits(T(o), up(9)) /\ Admits(T(o1), down(5))
  BY <1>2, <1>3, <1>6, <1>7
<1> HIDE DEF o1
<1>9. /\ Changed(up(10), T(o1)) = T(o2) /\ Changed(down(4), T(o2)) = T(o1)
      /\ Admits(T(o1), up(10)) /\ Admits(T(o2), down(4))
  <2>1. /\ up(10).do = "add" /\ up(10).column = b /\ down(4).do = "remove" /\ down(4).column = b
        /\ b \notin r \cup o1 \cup i
    BY <1>2, <1>3, <1>7
  <2> QED BY <1>6, <2>1
<1> HIDE DEF o2
<1>10. /\ Changed(up(11), T(o2)) = T(o3) /\ Changed(down(3), T(o3)) = T(o2)
       /\ Admits(T(o2), up(11)) /\ Admits(T(o3), down(3))
  BY <1>2, <1>3, <1>6, <1>7
<1> HIDE DEF o3
<1>11. /\ Changed(up(12), T(o3)) = T(o4) /\ Changed(down(2), T(o4)) = T(o3)
       /\ Admits(T(o3), up(12)) /\ Admits(T(o4), down(2))
  BY <1>2, <1>3, <1>6, <1>7
<1> HIDE DEF o4
<1>12. Project1 = T(o1) /\ Project2 = T(o2) /\ Project3 = T(o3) /\ Project4 = T(o4)
  BY <1>1, <1>8, <1>9, <1>10, <1>11 DEF Project1, Project2, Project3, Project4, up
<1>13. Project5 = Table(r, o4, {b}, i, {}) /\ Admits(T(o4), up(13))
  <2>1. {} \cup {b} = {b}
    OBVIOUS
  <2>2. Changed(up(13), T(o4)) = Table(r, o4, {b}, i, {})
    BY <1>2, <2>1, UniqueIs DEF T
  <2>3. Admits(T(o4), up(13))
    BY <1>2, <1>7, TableIs DEF Admits, T
  <2> QED BY <1>12, <2>2, <2>3 DEF Project5, up
<1>14. Changed(down(1), Project5) = T(o4) /\ Admits(Project5, down(1))
  <2>1. {b} \ {b} = {} /\ i \ {b} = i
    BY <1>7
  <2>2. Changed(down(1), Project5) = T(o4)
    BY <1>3, <1>13, <2>1, UnindexIs DEF T
  <2> QED BY <1>3, <1>13, <2>2, TableIs DEF Admits
<1>15. /\ \A columns : T(columns).refers = {}
       /\ Project5.refers = {}
  BY <1>13, TableIs DEF T
<1> QED BY <1>1, <1>5, <1>8, <1>9, <1>10, <1>11, <1>12, <1>13, <1>14, <1>15 DEF up, down

\* The documents.
LEMMA DocumentsTables ==
  /\ Admits(Made["tender_documents"], document_purge[1]) /\ Admits(Purged, document_purge_down[1])
  /\ Changed(document_purge_down[1], Purged) = Made["tender_documents"]
  /\ Purged.refers = Made["tender_documents"].refers
  /\ Made["tender_documents"].indexed = {"sha256", "status", "tender_id"}
<1> DEFINE r == {"id", "tender_id", "status", "attempt_count"} \cup Stamps
           o == {"source_url", "file_name", "file_path", "file_size", "mime_type", "sha256",
                 "last_error", "downloaded_at", "raw_text"}
           i == {"sha256", "status", "tender_id"}
           f == {OfTender}
           c == "purged_at"
<1>1. Made["tender_documents"] = Table(r, o, {}, i, f)
  BY MadeTables DEF initial_schema, CreateTable
<1>2. /\ document_purge[1].do = "add" /\ document_purge[1].column = c
      /\ document_purge_down[1].do = "remove" /\ document_purge_down[1].column = c
  BY DEF document_purge, document_purge_down, AddColumn, DropColumn, Operation
<1>3. c \notin r \cup o \cup {} \cup i /\ \A x \in f : x.column # c
  BY DEF Stamps, OfTender, Refers
<1>4. Made["tender_documents"].indexed = {"sha256", "status", "tender_id"}
  BY <1>1 DEF Table
<1> HIDE DEF r, o, i, f, c
<1>5. /\ Changed(document_purge[1], Table(r, o, {}, i, f)) = Table(r, o \cup {c}, {}, i, f)
      /\ Changed(document_purge_down[1], Table(r, o \cup {c}, {}, i, f)) = Table(r, o, {}, i, f)
      /\ Admits(Table(r, o, {}, i, f), document_purge[1])
      /\ Admits(Table(r, o \cup {c}, {}, i, f), document_purge_down[1])
  <2>1. /\ r \ {c} = r /\ (o \cup {c}) \ {c} = o /\ {} \ {c} = {} /\ i \ {c} = i
        /\ {x \in f : x.column # c} = f
    BY <1>3
  <2>2. Changed(document_purge[1], Table(r, o, {}, i, f)) = Table(r, o \cup {c}, {}, i, f)
    BY <1>2, AddIs
  <2>3. Changed(document_purge_down[1], Table(r, o \cup {c}, {}, i, f)) = Table(r, o, {}, i, f)
    BY <1>2, <2>1, RemoveIs
  <2> QED BY <1>2, <1>3, <2>2, <2>3, TableIs DEF Admits
<1>6. Purged = Table(r, o \cup {c}, {}, i, f)
  BY <1>1, <1>5 DEF Purged
<1> QED BY <1>1, <1>4, <1>5, <1>6, TableIs

LEMMA VersionsAre ==
  /\ Versions(Made) /\ Versions(V3) /\ Versions(V6) /\ Versions(V7) /\ Versions(V8) /\ Versions(V9)
  /\ Versions(V12)
<1>1. ASSUME NEW v, NEW name, NEW table, Versions(v), table.refers = Made[name].refers
      PROVE  Versions([v EXCEPT ![name] = table])
  BY <1>1 DEF Versions
<1>2. Versions(Made)
  BY MadeIs DEF Versions
<1>3. Trail.refers = Made["audit_logs"].refers
  BY MadeTables DEF Trail, restore_audit_trail, CreateTable, AuditLogs, Table
<1>4. Versions(V3)
  BY <1>1, <1>2, UsersTables DEF V3
<1>5. Versions(V6)
  BY <1>1, <1>4, ReviewsTables DEF V6
<1>6. Versions(V7)
  BY <1>1, <1>5 DEF V7
<1>7. Versions(V8)
  BY <1>1, <1>6, ProjectsTables DEF V8
<1>8. Versions(V9)
  BY <1>1, <1>7, DocumentsTables DEF V9
<1>9. Versions(V12)
  BY <1>1, <1>3, <1>8 DEF V12
<1> QED BY <1>2, <1>4, <1>5, <1>6, <1>7, <1>8, <1>9

LEMMA ValuesAre ==
  \A name \in Names :
    /\ V3[name] = IF name = "users" THEN Passwordless ELSE Made[name]
    /\ V6[name] = IF name = "tender_reviews" THEN Kind4 ELSE V3[name]
    /\ V7[name] = IF name = "users" THEN Made["users"] ELSE V6[name]
    /\ V8[name] = IF name = "past_projects" THEN Project5 ELSE V7[name]
    /\ V9[name] = IF name = "tender_documents" THEN Purged ELSE V8[name]
    /\ V12[name] = IF name = "audit_logs" THEN Trail ELSE V9[name]
<1>1. /\ DOMAIN Made = Names /\ DOMAIN V3 = Names /\ DOMAIN V6 = Names /\ DOMAIN V7 = Names
      /\ DOMAIN V8 = Names /\ DOMAIN V9 = Names
  BY VersionsAre DEF Versions
<1>2. \A v, name, table : DOMAIN v = Names =>
        \A other \in Names : [v EXCEPT ![name] = table][other] = IF other = name THEN table ELSE v[other]
  OBVIOUS
<1> QED BY <1>1, <1>2 DEF V3, V6, V7, V8, V9, V12

LEMMA SameSchema ==
  ASSUME NEW names, NEW v, NEW w, \A name \in names : v[name] = w[name]
  PROVE  Schema(names, v) = Schema(names, w)
BY DEF Schema

\* The tables with another in place of one of them.
Put(v, name, table) == [v EXCEPT ![name] = table]

\* One more operation on the table that the list is changing.
LEMMA AlteringRun ==
  ASSUME NEW ops, Len(ops) \in Nat, NEW before, NEW k \in 1..Len(ops),
         NEW names \in SUBSET Names, NEW v, Versions(v), NEW name \in names, NEW table,
         table.refers = Made[name].refers, ops[k].table = name, Admits(table, ops[k]),
         Run(ops, before, k - 1) = Schema(names, Put(v, name, table))
  PROVE  /\ Run(ops, before, k) = Schema(names, Put(v, name, Changed(ops[k], table)))
         /\ ~Refused(ops[k], Bare(Run(ops, before, k - 1)))
<1>1. PICK w : w = Put(v, name, table)
  OBVIOUS
<1>2. Versions(w) /\ w[name] = table
  BY <1>1 DEF Versions, Put
<1>3. PICK op : op = ops[k]
  OBVIOUS
<1>4. /\ Altered(op, Schema(names, w)) = Schema(names, [w EXCEPT ![name] = Changed(op, table)])
      /\ ~Refused(op, Bare(Schema(names, w)))
  BY <1>2, <1>3, Altering
<1>5. [w EXCEPT ![name] = Changed(op, table)] = Put(v, name, Changed(op, table))
  BY <1>1 DEF Put
<1>6. Run(ops, before, k) = Altered(ops[k], Run(ops, before, k - 1))
  BY RunIs
<1> QED BY <1>1, <1>3, <1>4, <1>5, <1>6

\* A single operation on a table; one on its rows leaves the tables.
LEMMA AlteringRuns ==
  ASSUME NEW op, NEW ops, ops = <<op>>, NEW names \in SUBSET Names, NEW v, Versions(v),
         op.table \in names, Admits(v[op.table], op), NEW w,
         \A name \in names : w[name] = IF name = op.table THEN Changed(op, v[op.table]) ELSE v[name]
  PROVE  Runs(ops, Schema(names, v), Schema(names, w))
<1>1. /\ Altered(op, Schema(names, v)) = Schema(names, [v EXCEPT ![op.table] = Changed(op, v[op.table])])
      /\ ~Refused(op, Bare(Schema(names, v)))
  BY Altering
<1>2. Schema(names, [v EXCEPT ![op.table] = Changed(op, v[op.table])]) = Schema(names, w)
  <2>1. \A name \in names : [v EXCEPT ![op.table] = Changed(op, v[op.table])][name] = w[name]
    BY DEF Versions
  <2> QED BY <2>1, SameSchema
<1> QED BY <1>1, <1>2, RunsOne

LEMMA RowsRun ==
  ASSUME NEW do \in {"collapse", "split", "seed", "unseed", "backfill", "delete"}, NEW name,
         NEW names \in SUBSET Names, NEW v, Versions(v), name \in names,
         NEW ops, ops = <<Rows(do, name)>>
  PROVE  Runs(ops, Schema(names, v), Schema(names, v))
<1>1. PICK op : op = Rows(do, name) /\ op.do = do /\ op.table = name
  BY DEF Rows
<1>2. Changed(op, v[name]) = v[name] /\ Admits(v[name], op)
  BY <1>1 DEF Changed, Admits
<1> QED BY <1>1, <1>2, AlteringRuns

-----------------------------------------------------------------------------
(* The revisions, up. *)

LEMMA RunsUp1 == Runs(initial_schema, SchemaOf(0), SchemaOf(1))
<1> PICK ops : ops = initial_schema
  OBVIOUS
<1>1. Len(ops) = 9
  BY DEF initial_schema
<1>2. \A k \in 1..9 : ops[k] = CreateTable(Order[0 + k], Made[Order[0 + k]])
  <2>1. \A i \in 1..9 : Makes(i) = ops[i]
    BY DEF Makes
  <2> QED BY <2>1, MadeIs
<1>3. /\ \A k \in 0..9 : Run(ops, Schema(First(0), Made), k) = Schema(First(0 + k), Made)
      /\ \A k \in 1..9 : ~Refused(ops[k], Bare(Schema(First(0 + k - 1), Made)))
  <2>1. PICK m \in 0..19 : m = 0
    OBVIOUS
  <2>2. PICK n \in 0..Len(ops) : n = 9
    BY <1>1
  <2>3. /\ Len(ops) \in Nat /\ m + n <= 19
        /\ \A k \in 1..n : ops[k] = CreateTable(Order[m + k], Made[Order[m + k]])
    BY <1>1, <1>2, <2>1, <2>2
  <2>4. /\ \A k \in 0..n : Run(ops, Schema(First(m), Made), k) = Schema(First(m + k), Made)
        /\ \A k \in 1..n : ~Refused(ops[k], Bare(Schema(First(m + k - 1), Made)))
    BY ONLY <2>3, VersionsAre, CreatingRuns
  <2> QED BY <2>1, <2>2, <2>4
<1>4. \A k \in 1..9 : k - 1 \in 0..9 /\ 0 + k - 1 = 0 + (k - 1)
  OBVIOUS
<1>5. Run(ops, Schema(First(0), Made), 9) = Schema(First(9), Made)
  <2>1. 9 \in 0..9 /\ 0 + 9 = 9
    OBVIOUS
  <2> QED BY <1>3, <2>1
<1>6. Runs(ops, Schema(First(0), Made), Schema(First(9), Made))
  BY <1>1, <1>3, <1>4, <1>5 DEF Runs
<1> QED BY <1>6 DEF SchemaOf

LEMMA RunsUp2 == Runs(collapse_roles, SchemaOf(1), SchemaOf(2))
<1>1. Runs(collapse_roles, Schema(First(9), Made), Schema(First(9), Made))
  BY PlacesAre, VersionsAre, RowsRun DEF collapse_roles
<1> QED BY <1>1 DEF SchemaOf

LEMMA RunsUp3 == Runs(drop_password, SchemaOf(2), SchemaOf(3))
<1>0. PICK op : op = DropColumn("users", "hashed_password")
  OBVIOUS
<1>1. op = drop_password[1] /\ drop_password = <<op>> /\ op.table = "users"
  BY <1>0 DEF drop_password, DropColumn, Operation
<1>2. \A name \in First(9) : V3[name] = IF name = "users" THEN Changed(op, Made["users"]) ELSE Made[name]
  BY <1>1, PlacesAre, ValuesAre DEF Passwordless
<1>3. Runs(drop_password, Schema(First(9), Made), Schema(First(9), V3))
  BY <1>1, <1>2, PlacesAre, VersionsAre, UsersTables, AlteringRuns
<1> QED BY <1>3 DEF SchemaOf

LEMMA RunsUp4 == Runs(create_role_assignments, SchemaOf(3), SchemaOf(4))
<1>1. PICK op : op = create_role_assignments[1] /\ create_role_assignments = <<op>>
  BY DEF create_role_assignments
<1>2. op = CreateTable(Order[10], V3[Order[10]])
  <2>1. Makes(10) = op
    BY <1>1 DEF Makes
  <2>2. V3[Order[10]] = Made[Order[10]]
    BY PlacesAre, FirstIs, ValuesAre
  <2> QED BY <2>1, <2>2, MadeIs
<1>3. /\ First(9) \in SUBSET Names /\ 10 \in 1..19 /\ 10 - 1 = 9 /\ Order[10] \notin First(10 - 1)
      /\ First(10) = First(10 - 1) \cup {Order[10]}
  BY FirstIs
<1>4. /\ Altered(op, Schema(First(9), V3)) = Schema(First(10), V3)
      /\ ~Refused(op, Bare(Schema(First(9), V3)))
  BY <1>2, <1>3, VersionsAre, Creating
<1>5. Runs(create_role_assignments, Schema(First(9), V3), Schema(First(10), V3))
  BY <1>1, <1>4, RunsOne
<1> QED BY <1>5 DEF SchemaOf

LEMMA RunsUp5 == Runs(bootstrap_super_admin, SchemaOf(4), SchemaOf(5))
<1>1. Runs(bootstrap_super_admin, Schema(First(10), V3), Schema(First(10), V3))
  BY PlacesAre, VersionsAre, RowsRun DEF bootstrap_super_admin
<1> QED BY <1>1 DEF SchemaOf

LEMMA RunsUp6 == Runs(split_correction, SchemaOf(5), SchemaOf(6))
<1> PICK ops : ops = split_correction
  OBVIOUS
<1> DEFINE s == Schema(First(10), V3)
           t == "tender_reviews"
           At(table) == Schema(First(10), Put(V3, t, table))
<1>1. /\ Len(ops) = 5 /\ ops[1].table = t /\ ops[2].table = t /\ ops[3].table = t /\ ops[4].table = t
      /\ ops[5].table = t /\ ops[2].do = "backfill"
  BY DEF split_correction, AddColumn, Rows, SetNotNull, DropNotNull, CreateIndex, Operation
<1>2. t \in First(10) /\ First(10) \in SUBSET Names /\ Versions(V3)
  BY PlacesAre, VersionsAre
<1>3. Run(ops, s, 0) = At(Made[t])
  <2>1. \A name \in First(10) : V3[name] = Put(V3, t, Made[t])[name]
    BY <1>2, ValuesAre DEF Versions, Put
  <2>2. s = At(Made[t])
    BY <2>1, SameSchema
  <2> QED BY <1>1, <2>2, RunIs
<1>4. Changed(ops[2], Kind1) = Kind1 /\ Admits(Kind1, ops[2])
  BY <1>1 DEF Changed, Admits
<1> HIDE DEF s, t
<1>5. ASSUME NEW k \in 1..5, NEW table, table.refers = Made[t].refers, Admits(table, ops[k]),
             ops[k].table = t, Run(ops, s, k - 1) = At(table)
      PROVE  Run(ops, s, k) = At(Changed(ops[k], table)) /\ ~Refused(ops[k], Bare(Run(ops, s, k - 1)))
  <2>1. k \in 1..Len(ops) /\ Len(ops) \in Nat
    BY <1>1
  <2> QED BY <1>2, <1>5, <2>1, AlteringRun
<1> HIDE DEF At
<1>6. Run(ops, s, 1) = At(Kind1) /\ ~Refused(ops[1], Bare(Run(ops, s, 1 - 1)))
  BY <1>1, <1>3, <1>5, ReviewsTables DEF Kind1, t
<1>7. Run(ops, s, 2) = At(Kind1) /\ ~Refused(ops[2], Bare(Run(ops, s, 2 - 1)))
  BY <1>1, <1>4, <1>5, <1>6, ReviewsTables DEF t
<1>8. Run(ops, s, 3) = At(Kind2) /\ ~Refused(ops[3], Bare(Run(ops, s, 3 - 1)))
  BY <1>1, <1>5, <1>7, ReviewsTables DEF Kind2, t
<1>9. Run(ops, s, 4) = At(Kind3) /\ ~Refused(ops[4], Bare(Run(ops, s, 4 - 1)))
  BY <1>1, <1>5, <1>8, ReviewsTables DEF Kind3, t
<1>10. Run(ops, s, 5) = At(Kind4) /\ ~Refused(ops[5], Bare(Run(ops, s, 5 - 1)))
  BY <1>1, <1>5, <1>9, ReviewsTables DEF Kind4, t
<1>11. Runs(ops, s, At(Kind4))
  BY <1>1, <1>6, <1>7, <1>8, <1>9, <1>10 DEF Runs
<1> QED BY <1>11 DEF SchemaOf, V6, s, t, At, Put

LEMMA RunsUp7 == Runs(restore_password, SchemaOf(6), SchemaOf(7))
<1>0. PICK op : op = AddColumn("users", "hashed_password")
  OBVIOUS
<1>1. op = restore_password[1] /\ restore_password = <<op>> /\ op.table = "users"
  BY <1>0 DEF restore_password, AddColumn, Operation
<1>2. V6["users"] = Passwordless
  BY PlacesAre, ValuesAre
<1>3. /\ Changed(op, V6["users"]) = Made["users"] /\ Admits(V6["users"], op)
  BY <1>1, <1>2, UsersTables
<1>4. \A name \in First(10) : V7[name] = IF name = op.table THEN Changed(op, V6[op.table]) ELSE V6[name]
  BY <1>1, <1>3, PlacesAre, ValuesAre
<1>5. Runs(restore_password, Schema(First(10), V6), Schema(First(10), V7))
  BY <1>1, <1>3, <1>4, PlacesAre, VersionsAre, AlteringRuns
<1> QED BY <1>5 DEF SchemaOf

LEMMA RunsUp8 == Runs(eligibility_screening, SchemaOf(7), SchemaOf(8))
<1> PICK ops : ops = eligibility_screening
  OBVIOUS
<1> DEFINE s == Schema(First(10), V7)
           t == "past_projects"
           At(table) == Schema(First(18), Put(V7, t, table))
<1>1. /\ Len(ops) = 13 /\ ops[9].table = t /\ ops[10].table = t /\ ops[11].table = t
      /\ ops[12].table = t /\ ops[13].table = t
  BY DEF eligibility_screening, AddColumn, CreateUnique, Operation
<1>2. t \in First(18) /\ First(18) \in SUBSET Names /\ Versions(V7) /\ V7[t] = Made[t]
  BY PlacesAre, VersionsAre, ValuesAre
<1>3. \A k \in 1..8 : ops[k] = CreateTable(Order[10 + k], V7[Order[10 + k]])
  <2>1. ASSUME NEW k \in 1..8
        PROVE  ops[k] = CreateTable(Order[10 + k], V7[Order[10 + k]])
    <3>1. PICK i \in 1..19 : i = 10 + k
      OBVIOUS
    <3>2. i - 10 = k /\ i > 10 /\ i <= 18
      BY <3>1
    <3>3. Makes(i) = ops[k]
      BY <3>2 DEF Makes
    <3>4. Order[i] # Order[4] /\ Order[i] # Order[8] /\ Order[i] \in Names
      <4>1. 4 \in 1..19 /\ 8 \in 1..19 /\ i # 4 /\ i # 8
        BY <3>2
      <4> QED BY <4>1, OrderIs, FirstIs
    <3>5. V7[Order[i]] = Made[Order[i]]
      BY <3>4, PlacesAre, ValuesAre
    <3> QED BY <3>1, <3>3, <3>5, MadeIs
  <2> QED BY <2>1
<1>4. /\ Run(ops, s, 8) = Schema(First(18), V7)
      /\ \A k \in 1..8 : ~Refused(ops[k], Bare(Run(ops, s, k - 1)))
  <2>1. PICK m \in 0..19 : m = 10
    OBVIOUS
  <2>2. PICK n \in 0..Len(ops) : n = 8
    BY <1>1
  <2>3. /\ Len(ops) \in Nat /\ m + n <= 19 /\ Versions(V7)
        /\ \A k \in 1..n : ops[k] = CreateTable(Order[m + k], V7[Order[m + k]])
    BY <1>1, <1>2, <1>3, <2>1, <2>2
  <2>4. /\ \A k \in 0..n : Run(ops, Schema(First(m), V7), k) = Schema(First(m + k), V7)
        /\ \A k \in 1..n : ~Refused(ops[k], Bare(Schema(First(m + k - 1), V7)))
    BY ONLY <2>3, CreatingRuns
  <2>5. \A k \in 1..8 : k - 1 \in 0..8 /\ m + k - 1 = m + (k - 1)
    BY <2>1
  <2> QED BY <2>1, <2>2, <2>4, <2>5
<1>5. Run(ops, s, 8) = At(Made[t])
  <2>1. \A name \in First(18) : V7[name] = Put(V7, t, Made[t])[name]
    BY <1>2 DEF Versions, Put
  <2> QED BY <1>4, <2>1, SameSchema
<1> HIDE DEF s, t
<1>6. ASSUME NEW k \in 9..13, NEW table, table.refers = Made[t].refers, Admits(table, ops[k]),
             ops[k].table = t, Run(ops, s, k - 1) = At(table)
      PROVE  Run(ops, s, k) = At(Changed(ops[k], table)) /\ ~Refused(ops[k], Bare(Run(ops, s, k - 1)))
  <2>1. k \in 1..Len(ops) /\ Len(ops) \in Nat
    BY <1>1
  <2> QED BY <1>2, <1>6, <2>1, AlteringRun
<1> HIDE DEF At
<1>7. Run(ops, s, 9) = At(Project1) /\ ~Refused(ops[9], Bare(Run(ops, s, 9 - 1)))
  BY <1>1, <1>5, <1>6, ProjectsTables DEF Project1, t
<1>8. Run(ops, s, 10) = At(Project2) /\ ~Refused(ops[10], Bare(Run(ops, s, 10 - 1)))
  BY <1>1, <1>6, <1>7, ProjectsTables DEF Project2, t
<1>9. Run(ops, s, 11) = At(Project3) /\ ~Refused(ops[11], Bare(Run(ops, s, 11 - 1)))
  BY <1>1, <1>6, <1>8, ProjectsTables DEF Project3, t
<1>10. Run(ops, s, 12) = At(Project4) /\ ~Refused(ops[12], Bare(Run(ops, s, 12 - 1)))
  BY <1>1, <1>6, <1>9, ProjectsTables DEF Project4, t
<1>11. Run(ops, s, 13) = At(Project5) /\ ~Refused(ops[13], Bare(Run(ops, s, 13 - 1)))
  BY <1>1, <1>6, <1>10, ProjectsTables DEF Project5, t
<1>12. Runs(ops, s, At(Project5))
  <2>1. ASSUME NEW k \in 1..13
        PROVE  k \in 1..8 \/ k = 9 \/ k = 10 \/ k = 11 \/ k = 12 \/ k = 13
    OBVIOUS
  <2> QED BY <1>1, <1>4, <1>7, <1>8, <1>9, <1>10, <1>11, <2>1 DEF Runs
<1> QED BY <1>12 DEF SchemaOf, V8, s, t, At, Put

LEMMA RunsUp9 == Runs(document_purge, SchemaOf(8), SchemaOf(9))
<1>0. PICK op : op = AddColumn("tender_documents", "purged_at")
  OBVIOUS
<1>1. op = document_purge[1] /\ document_purge = <<op>> /\ op.table = "tender_documents"
  BY <1>0 DEF document_purge, AddColumn, Operation
<1>2. V8["tender_documents"] = Made["tender_documents"]
  BY PlacesAre, ValuesAre
<1>3. Changed(op, V8["tender_documents"]) = Purged /\ Admits(V8["tender_documents"], op)
  BY <1>1, <1>2, DocumentsTables DEF Purged
<1>4. \A name \in First(18) : V9[name] = IF name = op.table THEN Changed(op, V8[op.table]) ELSE V8[name]
  BY <1>1, <1>3, PlacesAre, ValuesAre
<1>5. Runs(document_purge, Schema(First(18), V8), Schema(First(18), V9))
  BY <1>1, <1>3, <1>4, PlacesAre, VersionsAre, AlteringRuns
<1> QED BY <1>5 DEF SchemaOf

LEMMA RunsUp10 == Runs(eligibility_notifications, SchemaOf(9), SchemaOf(10))
<1>1. PICK op : op = eligibility_notifications[1] /\ eligibility_notifications = <<op>>
  BY DEF eligibility_notifications
<1>2. op = CreateTable(Order[19], V9[Order[19]])
  <2>1. Makes(19) = op
    BY <1>1 DEF Makes
  <2>2. V9[Order[19]] = Made[Order[19]]
    BY PlacesAre, FirstIs, ValuesAre
  <2> QED BY <2>1, <2>2, MadeIs
<1>3. /\ First(18) \in SUBSET Names /\ 19 \in 1..19 /\ 19 - 1 = 18 /\ Order[19] \notin First(19 - 1)
      /\ First(19) = First(19 - 1) \cup {Order[19]}
  BY FirstIs, PlacesAre
<1>4. /\ Altered(op, Schema(First(18), V9)) = Schema(First(19), V9)
      /\ ~Refused(op, Bare(Schema(First(18), V9)))
  BY <1>2, <1>3, VersionsAre, Creating
<1>5. Runs(eligibility_notifications, Schema(First(18), V9), Schema(First(19), V9))
  BY <1>1, <1>4, RunsOne
<1> QED BY <1>5 DEF SchemaOf

\* No table refers to those that are retired.
LEMMA Unreferenced ==
  \A name \in Names : \A r \in Made[name].refers :
    r.to \notin {"eligibility_notifications", "tender_reviews", "audit_logs"}
<1> DEFINE Free(table) ==
      \A r \in table.refers : r.to \notin {"eligibility_notifications", "tender_reviews", "audit_logs"}
<1>1. \A i \in 1..9 : Free(initial_schema[i].as)
  BY DEF initial_schema, CreateTable, Table, OfTender, Refers, AuditLogs
<1>2. Free(create_role_assignments[1].as)
  BY DEF create_role_assignments, CreateTable, Table, Refers
<1>3. \A i \in 1..8 : Free(eligibility_screening[i].as)
  BY DEF eligibility_screening, CreateTable, Table, OfTender, OfScreening, OfWorkType, OfProject, Refers
<1>4. Free(eligibility_notifications[1].as)
  BY DEF eligibility_notifications, CreateTable, Table, OfTender, Refers
<1>5. ASSUME NEW i \in 1..19 PROVE Free(Makes(i).as)
  <2>1. i \in 11..18 => i - 10 \in 1..8
    OBVIOUS
  <2> HIDE DEF Free
  <2> QED BY <2>1, <1>1, <1>2, <1>3, <1>4 DEF Makes
<1> QED BY <1>5, MadeIs DEF Names

LEMMA RunsUp11 == Runs(reduce_to_eligibility, SchemaOf(10), SchemaOf(11))
<1> PICK ops : ops = reduce_to_eligibility
  OBVIOUS
<1> PICK s : s = Schema(First(19), V9)
  OBVIOUS
<1> DEFINE a == "eligibility_notifications"
           b == "tender_reviews"
           c == "audit_logs"
<1>1. Len(ops) = 3 /\ ops[1] = DropTable(a, {}) /\ ops[2] = DropTable(b, {}) /\ ops[3] = DropTable(c, {})
  BY DEF reduce_to_eligibility
<1>2. /\ a \in First(19) /\ b \in First(19) /\ c \in First(19) /\ First(19) \in SUBSET Names
      /\ a # b /\ a # c /\ b # c /\ First(18) = First(19) \ {a}
  <2>1. 19 \in 1..19 /\ 19 - 1 = 18
    OBVIOUS
  <2> QED BY <2>1, PlacesAre, FirstIs
<1> HIDE DEF a, b, c
<1>3. ASSUME NEW names \in SUBSET Names, NEW name \in names, name \in {a, b, c}, NEW op,
             op = DropTable(name, {})
      PROVE  /\ Altered(op, Schema(names, V9)) = Schema(names \ {name}, V9)
             /\ ~Refused(op, Bare(Schema(names, V9)))
  <2>1. \A other \in names \ {name} : \A r \in Made[other].refers : r.to # name
    BY <1>3, Unreferenced DEF a, b, c
  <2>2. {} \subseteq Indexed(V9[name])
    OBVIOUS
  <2> QED BY <1>3, <2>1, <2>2, VersionsAre, Dropping
<1>4. PICK n1 \in SUBSET Names : n1 = First(19) \ {a}
  BY <1>2
<1>5. PICK n2 \in SUBSET Names : n2 = n1 \ {b}
  OBVIOUS
<1>6. /\ Altered(ops[1], s) = Schema(n1, V9) /\ ~Refused(ops[1], Bare(s))
      /\ Altered(ops[2], Schema(n1, V9)) = Schema(n2, V9) /\ ~Refused(ops[2], Bare(Schema(n1, V9)))
      /\ Altered(ops[3], Schema(n2, V9)) = Schema(n2 \ {c}, V9) /\ ~Refused(ops[3], Bare(Schema(n2, V9)))
  <2>1. a \in First(19) /\ b \in n1 /\ c \in n2
    BY <1>2, <1>4, <1>5
  <2> QED BY <1>1, <1>2, <1>3, <1>4, <1>5, <2>1
<1>7. \A k \in 1..3 : Run(ops, s, k) = Altered(ops[k], Run(ops, s, k - 1))
  <2>1. Len(ops) \in Nat
    BY <1>1
  <2>2. /\ Run(ops, s, 0) = s
        /\ \A k \in 1..Len(ops) : Run(ops, s, k) = Altered(ops[k], Run(ops, s, k - 1))
    BY ONLY <2>1, RunIs
  <2> QED BY <1>1, <2>2
<1>8. Run(ops, s, 0) = s
  <2>1. Len(ops) \in Nat
    BY <1>1
  <2> QED BY <2>1, RunIs
<1>9. 1 \in 1..3 /\ 1 - 1 = 0 /\ 2 \in 1..3 /\ 2 - 1 = 1 /\ 3 \in 1..3 /\ 3 - 1 = 2
  OBVIOUS
<1>10. Run(ops, s, 1 - 1) = s
  BY <1>8, <1>9
<1>11. Run(ops, s, 2 - 1) = Schema(n1, V9)
  BY <1>6, <1>7, <1>9, <1>10
<1>12. Run(ops, s, 3 - 1) = Schema(n2, V9)
  BY <1>6, <1>7, <1>9, <1>11
<1>13. Runs(ops, s, Schema(n2 \ {c}, V9))
  <2>1. Run(ops, s, 3) = Schema(n2 \ {c}, V9)
    BY <1>6, <1>7, <1>9, <1>12
  <2>2. /\ ~Refused(ops[1], Bare(Run(ops, s, 1 - 1))) /\ ~Refused(ops[2], Bare(Run(ops, s, 2 - 1)))
        /\ ~Refused(ops[3], Bare(Run(ops, s, 3 - 1)))
    BY <1>6, <1>10, <1>11, <1>12
  <2>3. \A k \in 1..3 : k = 1 \/ k = 2 \/ k = 3
    OBVIOUS
  <2>4. \A k \in 1..3 : ~Refused(ops[k], Bare(Run(ops, s, k - 1)))
    BY <2>2, <2>3
  <2> QED BY <1>1, <2>1, <2>4 DEF Runs
<1>14. n2 \ {c} = Left
  BY <1>2, <1>4, <1>5 DEF Left, b, c
<1>15. Schema(Left, V9) = Schema(Left, V12)
  <2>1. \A name \in Left : V12[name] = V9[name]
    BY PlacesAre, ValuesAre DEF Left
  <2> QED BY <2>1, SameSchema
<1> QED BY <1>13, <1>14, <1>15 DEF SchemaOf

LEMMA RunsUp12 == Runs(restore_audit_trail, SchemaOf(11), SchemaOf(12))
<1>1. PICK op : op = restore_audit_trail[1] /\ restore_audit_trail = <<op>>
  BY DEF restore_audit_trail
<1>2. op = CreateTable(Order[1], V12[Order[1]])
  <2>1. V12["audit_logs"] = Trail
    BY PlacesAre, ValuesAre
  <2>2. op = CreateTable("audit_logs", Trail)
    BY <1>1 DEF Trail, restore_audit_trail, CreateTable
  <2> QED BY <2>1, <2>2, PlacesAre
<1>3. /\ Left \in SUBSET Names /\ 1 \in 1..19 /\ 1 - 1 = 0 /\ Order[1] \notin Left
      /\ First(1 - 1) \subseteq Left
  BY FirstIs, PlacesAre DEF Left
<1>4. /\ Altered(op, Schema(Left, V12)) = Schema(Left \cup {Order[1]}, V12)
      /\ ~Refused(op, Bare(Schema(Left, V12)))
  BY <1>2, <1>3, VersionsAre, Creating
<1>5. Runs(restore_audit_trail, Schema(Left, V12), Schema(Left \cup {"audit_logs"}, V12))
  BY <1>1, <1>4, PlacesAre, RunsOne
<1> QED BY <1>5 DEF SchemaOf
-----------------------------------------------------------------------------
(* The revisions, down: each but the retirement gives back the tables of the one before. *)

LEMMA RunsDown1 == Runs(initial_schema_down, SchemaOf(1), SchemaOf(0))
<1> PICK ops : ops = initial_schema_down
  OBVIOUS
<1> PICK s : s = Schema(First(9), Made)
  OBVIOUS
<1>1. Len(ops) = 9
  BY DEF initial_schema_down
<1>2. \A k \in 1..9 : ops[k] = DropTable(Order[10 - k], ops[k].indexes)
  BY DEF initial_schema_down, DropTable, Order
<1>3. \A k \in 1..9 : ops[k].indexes \subseteq Indexed(initial_schema[10 - k].as)
  <2>1. /\ ops[1].indexes \subseteq Indexed(initial_schema[9].as)
        /\ ops[2].indexes \subseteq Indexed(initial_schema[8].as)
        /\ ops[3].indexes \subseteq Indexed(initial_schema[7].as)
    BY DEF initial_schema_down, DropTable, initial_schema, CreateTable, Table, Indexed
  <2>2. /\ ops[4].indexes \subseteq Indexed(initial_schema[6].as)
        /\ ops[5].indexes \subseteq Indexed(initial_schema[5].as)
        /\ ops[6].indexes \subseteq Indexed(initial_schema[4].as)
    BY DEF initial_schema_down, DropTable, initial_schema, CreateTable, Table, Indexed
  <2>3. /\ ops[7].indexes \subseteq Indexed(initial_schema[3].as)
        /\ ops[8].indexes \subseteq Indexed(initial_schema[2].as)
        /\ ops[9].indexes \subseteq Indexed(initial_schema[1].as)
    BY DEF initial_schema_down, DropTable, initial_schema, CreateTable, Table, Indexed, AuditLogs
  <2>4. \A k \in 1..9 : \/ k = 1 \/ k = 2 \/ k = 3 \/ k = 4 \/ k = 5 \/ k = 6 \/ k = 7 \/ k = 8 \/ k = 9
    OBVIOUS
  <2> QED BY <2>1, <2>2, <2>3, <2>4
<1>4. \A k \in 1..9 : ops[k].indexes \subseteq Indexed(Made[Order[10 - k]])
  <2>1. \A k \in 1..9 : 10 - k \in 1..19 /\ 10 - k <= 9
    OBVIOUS
  <2>2. \A i \in 1..19 : i <= 9 => Made[Order[i]] = initial_schema[i].as
    BY MadeIs DEF Makes
  <2> QED BY <1>3, <2>1, <2>2
<1>5. PICK l \in Nat : l = 0
  OBVIOUS
<1>6. PICK n \in Nat : n = 9
  OBVIOUS
<1>7. PICK m \in n..19 : m = 9
  BY <1>6
<1>8. Run(ops, s, l) = Schema(First(m), Made)
  <2>1. Len(ops) \in Nat
    BY <1>1
  <2>2. Run(ops, s, 0) = s
    BY <2>1, RunIs
  <2> QED BY <1>5, <1>7, <2>2
<1>9. \A k \in 1..n : \E indexes : /\ ops[l + k] = DropTable(Order[m + 1 - k], indexes)
                                   /\ indexes \subseteq Indexed(Made[Order[m + 1 - k]])
  <2>1. ASSUME NEW k \in 1..n
        PROVE  k \in 1..9 /\ l + k = k /\ m + 1 - k = 10 - k
    BY <1>5, <1>6, <1>7
  <2> QED BY <1>2, <1>4, <2>1
<1>10. Len(ops) = l + n
  BY <1>1, <1>5, <1>6
<1>11. /\ Run(ops, s, l + n) = Schema(First(m - n), Made)
       /\ \A k \in 1..n : ~Refused(ops[l + k], Bare(Run(ops, s, l + k - 1)))
  BY ONLY <1>8, <1>9, <1>10, VersionsAre, DroppingRuns
<1>12. /\ l + n = Len(ops) /\ m - n = 0 /\ 1..n = 1..Len(ops)
       /\ \A k \in 1..n : l + k = k /\ l + k - 1 = k - 1
  BY <1>1, <1>5, <1>6, <1>7
<1>13. Runs(ops, s, Schema(First(0), Made))
  BY <1>11, <1>12 DEF Runs
<1> QED BY <1>13 DEF SchemaOf

LEMMA RunsDown2 == Runs(collapse_roles_down, SchemaOf(2), SchemaOf(1))
<1>1. Runs(collapse_roles_down, Schema(First(9), Made), Schema(First(9), Made))
  BY PlacesAre, VersionsAre, RowsRun DEF collapse_roles_down
<1> QED BY <1>1 DEF SchemaOf

LEMMA RunsDown3 == Runs(drop_password_down, SchemaOf(3), SchemaOf(2))
<1>0. PICK op : op = AddColumn("users", "hashed_password")
  OBVIOUS
<1>1. op = drop_password_down[1] /\ drop_password_down = <<op>> /\ op.table = "users"
  BY <1>0 DEF drop_password_down, AddColumn, Operation
<1>2. V3["users"] = Passwordless
  BY PlacesAre, ValuesAre
<1>3. Changed(op, V3["users"]) = Made["users"] /\ Admits(V3["users"], op)
  BY <1>1, <1>2, UsersTables
<1>4. \A name \in First(9) : Made[name] = IF name = op.table THEN Changed(op, V3[op.table]) ELSE V3[name]
  BY <1>1, <1>3, PlacesAre, ValuesAre
<1>5. Runs(drop_password_down, Schema(First(9), V3), Schema(First(9), Made))
  BY <1>1, <1>3, <1>4, PlacesAre, VersionsAre, AlteringRuns
<1> QED BY <1>5 DEF SchemaOf

LEMMA RunsDown4 == Runs(create_role_assignments_down, SchemaOf(4), SchemaOf(3))
<1>0. PICK indexes : indexes = {"consumed_user_id", "assigned_by", "email"}
  OBVIOUS
<1>1. PICK op : op = DropTable(Order[10], indexes) /\ create_role_assignments_down = <<op>>
  BY <1>0, PlacesAre DEF create_role_assignments_down
<1>2. indexes \subseteq Indexed(V3[Order[10]])
  <2>1. V3[Order[10]] = create_role_assignments[1].as
    <3>1. V3[Order[10]] = Made[Order[10]]
      BY PlacesAre, FirstIs, ValuesAre
    <3> QED BY <3>1, MadeIs DEF Makes
  <2> QED BY <1>0, <2>1 DEF create_role_assignments, CreateTable, Table, Indexed
<1>3. 10 \in 1..19 /\ 10 - 1 = 9
  OBVIOUS
<1>4. /\ Altered(op, Schema(First(10), V3)) = Schema(First(10 - 1), V3)
      /\ ~Refused(op, Bare(Schema(First(10), V3)))
  BY <1>1, <1>2, <1>3, VersionsAre, DroppingLast
<1>5. Runs(create_role_assignments_down, Schema(First(10), V3), Schema(First(9), V3))
  BY <1>1, <1>3, <1>4, RunsOne
<1> QED BY <1>5 DEF SchemaOf

LEMMA RunsDown5 == Runs(bootstrap_super_admin_down, SchemaOf(5), SchemaOf(4))
<1>1. Runs(bootstrap_super_admin_down, Schema(First(10), V3), Schema(First(10), V3))
  BY PlacesAre, VersionsAre, RowsRun DEF bootstrap_super_admin_down
<1> QED BY <1>1 DEF SchemaOf

LEMMA RunsDown6 == Runs(split_correction_down, SchemaOf(6), SchemaOf(5))
<1> PICK ops : ops = split_correction_down
  OBVIOUS
<1> DEFINE s == Schema(First(10), V6)
           t == "tender_reviews"
           At(table) == Schema(First(10), Put(V3, t, table))
<1>1. /\ Len(ops) = 4 /\ ops[1].table = t /\ ops[2].table = t /\ ops[3].table = t /\ ops[4].table = t
      /\ ops[2].do = "delete"
  BY DEF split_correction_down, DropColumn, Rows, SetNotNull, DropIndex, Operation
<1>2. t \in First(10) /\ First(10) \in SUBSET Names /\ Versions(V3)
  BY PlacesAre, VersionsAre
<1>3. Run(ops, s, 0) = At(Kind4)
  <2>1. \A name \in First(10) : V6[name] = Put(V3, t, Kind4)[name]
    BY <1>2, ValuesAre DEF Versions, Put
  <2>2. s = At(Kind4)
    BY <2>1, SameSchema
  <2> QED BY <1>1, <2>2, RunIs
<1>4. Changed(ops[2], Kind3) = Kind3 /\ Admits(Kind3, ops[2])
  BY <1>1 DEF Changed, Admits
<1>5. At(Made[t]) = Schema(First(10), V3)
  <2>1. \A name \in First(10) : Put(V3, t, Made[t])[name] = V3[name]
    BY <1>2, ValuesAre DEF Versions, Put
  <2> QED BY <2>1, SameSchema
<1> HIDE DEF s, t
<1>6. ASSUME NEW k \in 1..4, NEW table, table.refers = Made[t].refers, Admits(table, ops[k]),
             ops[k].table = t, Run(ops, s, k - 1) = At(table)
      PROVE  Run(ops, s, k) = At(Changed(ops[k], table)) /\ ~Refused(ops[k], Bare(Run(ops, s, k - 1)))
  <2>1. k \in 1..Len(ops) /\ Len(ops) \in Nat
    BY <1>1
  <2> QED BY <1>2, <1>6, <2>1, AlteringRun
<1> HIDE DEF At
<1>7. Run(ops, s, 1) = At(Kind3) /\ ~Refused(ops[1], Bare(Run(ops, s, 1 - 1)))
  BY <1>1, <1>3, <1>6, ReviewsTables DEF t
<1>8. Run(ops, s, 2) = At(Kind3) /\ ~Refused(ops[2], Bare(Run(ops, s, 2 - 1)))
  BY <1>1, <1>4, <1>6, <1>7, ReviewsTables DEF t
<1>9. Run(ops, s, 3) = At(Kind2) /\ ~Refused(ops[3], Bare(Run(ops, s, 3 - 1)))
  BY <1>1, <1>6, <1>8, ReviewsTables DEF t
<1>10. Run(ops, s, 4) = At(Made[t]) /\ ~Refused(ops[4], Bare(Run(ops, s, 4 - 1)))
  BY <1>1, <1>6, <1>9, ReviewsTables DEF t
<1>11. Runs(ops, s, At(Made[t]))
  BY <1>1, <1>7, <1>8, <1>9, <1>10 DEF Runs
<1> QED BY <1>5, <1>11 DEF SchemaOf, s

LEMMA RunsDown7 == Runs(restore_password_down, SchemaOf(7), SchemaOf(6))
<1>0. PICK op : op = DropColumn("users", "hashed_password")
  OBVIOUS
<1>1. op = restore_password_down[1] /\ restore_password_down = <<op>> /\ op.table = "users"
  BY <1>0 DEF restore_password_down, DropColumn, Operation
<1>2. V7["users"] = Made["users"] /\ V6["users"] = Passwordless
  BY PlacesAre, ValuesAre
<1>3. Changed(op, V7["users"]) = Passwordless /\ Admits(V7["users"], op)
  BY <1>1, <1>2, UsersTables DEF Passwordless
<1>4. \A name \in First(10) : V6[name] = IF name = op.table THEN Changed(op, V7[op.table]) ELSE V7[name]
  BY <1>1, <1>2, <1>3, PlacesAre, ValuesAre
<1>5. Runs(restore_password_down, Schema(First(10), V7), Schema(First(10), V6))
  BY <1>1, <1>3, <1>4, PlacesAre, VersionsAre, AlteringRuns
<1> QED BY <1>5 DEF SchemaOf

LEMMA RunsDown8 == Runs(eligibility_screening_down, SchemaOf(8), SchemaOf(7))
<1> PICK ops : ops = eligibility_screening_down
  OBVIOUS
<1> PICK s : s = Schema(First(18), V8)
  OBVIOUS
<1> DEFINE t == "past_projects"
           At(table) == Schema(First(18), Put(V7, t, table))
<1>1. /\ Len(ops) = 13 /\ ops[1].table = t /\ ops[2].table = t /\ ops[3].table = t
      /\ ops[4].table = t /\ ops[5].table = t
  BY DEF eligibility_screening_down, DropColumn, DropIndex, Operation
<1>2. t \in First(18) /\ First(18) \in SUBSET Names /\ Versions(V7)
  BY PlacesAre, VersionsAre
<1>0. V7[t] = Made[t]
  BY PlacesAre, ValuesAre
<1>3. Run(ops, s, 0) = At(Project5)
  <2>1. \A name \in First(18) : V8[name] = Put(V7, t, Project5)[name]
    BY <1>2, ValuesAre DEF Versions, Put
  <2>2. s = At(Project5)
    BY <2>1, SameSchema
  <2>3. Len(ops) \in Nat
    BY <1>1
  <2>4. Run(ops, s, 0) = s
    BY <2>3, RunIs
  <2> QED BY <2>2, <2>4
<1>4. At(Made[t]) = Schema(First(18), V7)
  <2>1. \A name \in First(18) : Put(V7, t, Made[t])[name] = V7[name]
    BY <1>0, <1>2 DEF Versions, Put
  <2> QED BY <2>1, SameSchema
<1> HIDE DEF t
<1>5. ASSUME NEW k \in 1..5, NEW table, table.refers = Made[t].refers, Admits(table, ops[k]),
             ops[k].table = t, Run(ops, s, k - 1) = At(table)
      PROVE  Run(ops, s, k) = At(Changed(ops[k], table)) /\ ~Refused(ops[k], Bare(Run(ops, s, k - 1)))
  <2>1. k \in 1..Len(ops) /\ Len(ops) \in Nat
    BY <1>1
  <2> QED BY <1>2, <1>5, <2>1, AlteringRun
<1> HIDE DEF At
<1>6. Run(ops, s, 1) = At(Project4) /\ ~Refused(ops[1], Bare(Run(ops, s, 1 - 1)))
  BY <1>1, <1>3, <1>5, ProjectsTables DEF t
<1>7. Run(ops, s, 2) = At(Project3) /\ ~Refused(ops[2], Bare(Run(ops, s, 2 - 1)))
  BY <1>1, <1>5, <1>6, ProjectsTables DEF t
<1>8. Run(ops, s, 3) = At(Project2) /\ ~Refused(ops[3], Bare(Run(ops, s, 3 - 1)))
  BY <1>1, <1>5, <1>7, ProjectsTables DEF t
<1>9. Run(ops, s, 4) = At(Project1) /\ ~Refused(ops[4], Bare(Run(ops, s, 4 - 1)))
  BY <1>1, <1>5, <1>8, ProjectsTables DEF t
<1>10. Run(ops, s, 5) = At(Made[t]) /\ ~Refused(ops[5], Bare(Run(ops, s, 5 - 1)))
  BY <1>1, <1>5, <1>9, ProjectsTables DEF t
<1>11. \A k \in 1..8 : ops[5 + k] = DropTable(Order[19 - k], ops[5 + k].indexes)
  BY DEF eligibility_screening_down, DropTable, Order
<1>12. \A k \in 1..8 : ops[5 + k].indexes \subseteq Indexed(eligibility_screening[9 - k].as)
  <2>1. /\ ops[6].indexes \subseteq Indexed(eligibility_screening[8].as)
        /\ ops[7].indexes \subseteq Indexed(eligibility_screening[7].as)
        /\ ops[8].indexes \subseteq Indexed(eligibility_screening[6].as)
        /\ ops[9].indexes \subseteq Indexed(eligibility_screening[5].as)
    BY DEF eligibility_screening_down, DropTable, eligibility_screening, CreateTable, Table, Indexed
  <2>2. /\ ops[10].indexes \subseteq Indexed(eligibility_screening[4].as)
        /\ ops[11].indexes \subseteq Indexed(eligibility_screening[3].as)
        /\ ops[12].indexes \subseteq Indexed(eligibility_screening[2].as)
        /\ ops[13].indexes \subseteq Indexed(eligibility_screening[1].as)
    BY DEF eligibility_screening_down, DropTable, eligibility_screening, CreateTable, Table, Indexed
  <2>3. \A k \in 1..8 : \/ k = 1 \/ k = 2 \/ k = 3 \/ k = 4 \/ k = 5 \/ k = 6 \/ k = 7 \/ k = 8
    OBVIOUS
  <2> QED BY <2>1, <2>2, <2>3
<1>13. \A k \in 1..8 : ops[5 + k].indexes \subseteq Indexed(V7[Order[19 - k]])
  <2>1. ASSUME NEW k \in 1..8
        PROVE  V7[Order[19 - k]] = eligibility_screening[9 - k].as
    <3>1. PICK i \in 1..19 : i = 19 - k
      OBVIOUS
    <3>2. i > 10 /\ i <= 18 /\ i - 10 = 9 - k
      BY <3>1
    <3>3. Order[i] # Order[4] /\ Order[i] # Order[8] /\ Order[i] \in Names
      <4>1. 4 \in 1..19 /\ 8 \in 1..19 /\ i # 4 /\ i # 8
        BY <3>2
      <4> QED BY <4>1, OrderIs, FirstIs
    <3>4. V7[Order[i]] = Made[Order[i]]
      BY <3>3, PlacesAre, ValuesAre
    <3>5. Made[Order[i]] = eligibility_screening[i - 10].as
      BY <3>2, MadeIs DEF Makes
    <3> QED BY <3>1, <3>2, <3>4, <3>5
  <2> QED BY <1>12, <2>1
<1>14. PICK l \in Nat : l = 5
  OBVIOUS
<1>15. PICK n \in Nat : n = 8
  OBVIOUS
<1>16. PICK m \in n..19 : m = 18
  BY <1>15
<1>17. Run(ops, s, l) = Schema(First(m), V7)
  BY <1>4, <1>10, <1>14, <1>16
<1>18. \A k \in 1..n : \E indexes : /\ ops[l + k] = DropTable(Order[m + 1 - k], indexes)
                                    /\ indexes \subseteq Indexed(V7[Order[m + 1 - k]])
  <2>1. ASSUME NEW k \in 1..n
        PROVE  k \in 1..8 /\ l + k = 5 + k /\ m + 1 - k = 19 - k
    BY <1>14, <1>15, <1>16
  <2> QED BY <1>11, <1>13, <2>1
<1>19. Len(ops) = l + n
  BY <1>1, <1>14, <1>15
<1>20. /\ Run(ops, s, l + n) = Schema(First(m - n), V7)
       /\ \A k \in 1..n : ~Refused(ops[l + k], Bare(Run(ops, s, l + k - 1)))
  BY ONLY <1>17, <1>18, <1>19, VersionsAre, DroppingRuns
<1>21. Runs(ops, s, Schema(First(10), V7))
  <2>1. m - n = 10
    BY <1>15, <1>16
  <2>2. ASSUME NEW k \in 1..13, k > 5
        PROVE  ~Refused(ops[k], Bare(Run(ops, s, k - 1)))
    <3>1. PICK j \in 1..n : l + j = k
      <4>1. k - 5 \in 1..n /\ l + (k - 5) = k
        BY <1>14, <1>15, <2>2
      <4> QED BY <4>1
    <3> QED BY <1>20, <3>1
  <2>3. \A k \in 1..13 : k > 5 \/ k = 1 \/ k = 2 \/ k = 3 \/ k = 4 \/ k = 5
    OBVIOUS
  <2>4. \A k \in 1..13 : ~Refused(ops[k], Bare(Run(ops, s, k - 1)))
    BY <1>6, <1>7, <1>8, <1>9, <1>10, <2>2, <2>3
  <2> QED BY <1>1, <1>19, <1>20, <2>1, <2>4 DEF Runs
<1> QED BY <1>21 DEF SchemaOf

LEMMA RunsDown9 == Runs(document_purge_down, SchemaOf(9), SchemaOf(8))
<1>0. PICK op : op = DropColumn("tender_documents", "purged_at")
  OBVIOUS
<1>1. op = document_purge_down[1] /\ document_purge_down = <<op>> /\ op.table = "tender_documents"
  BY <1>0 DEF document_purge_down, DropColumn, Operation
<1>2. V9["tender_documents"] = Purged /\ V8["tender_documents"] = Made["tender_documents"]
  BY PlacesAre, ValuesAre
<1>3. Changed(op, V9["tender_documents"]) = Made["tender_documents"] /\ Admits(V9["tender_documents"], op)
  BY <1>1, <1>2, DocumentsTables
<1>4. \A name \in First(18) : V8[name] = IF name = op.table THEN Changed(op, V9[op.table]) ELSE V9[name]
  BY <1>1, <1>2, <1>3, PlacesAre, ValuesAre
<1>5. Runs(document_purge_down, Schema(First(18), V9), Schema(First(18), V8))
  BY <1>1, <1>3, <1>4, PlacesAre, VersionsAre, AlteringRuns
<1> QED BY <1>5 DEF SchemaOf

LEMMA RunsDown10 == Runs(eligibility_notifications_down, SchemaOf(10), SchemaOf(9))
<1>1. PICK op : op = DropTable(Order[19], {}) /\ eligibility_notifications_down = <<op>>
  BY PlacesAre DEF eligibility_notifications_down
<1>2. 19 \in 1..19 /\ 19 - 1 = 18 /\ {} \subseteq Indexed(V9[Order[19]])
  OBVIOUS
<1>3. /\ Altered(op, Schema(First(19), V9)) = Schema(First(19 - 1), V9)
      /\ ~Refused(op, Bare(Schema(First(19), V9)))
  BY <1>1, <1>2, VersionsAre, DroppingLast
<1>4. Runs(eligibility_notifications_down, Schema(First(19), V9), Schema(First(18), V9))
  BY <1>1, <1>2, <1>3, RunsOne
<1> QED BY <1>4 DEF SchemaOf

LEMMA RunsDown12 == Runs(restore_audit_trail_down, SchemaOf(12), SchemaOf(11))
<1>0. PICK indexes : indexes = {"created_at", "actor_id"}
  OBVIOUS
<1>1. PICK op : op = DropTable("audit_logs", indexes) /\ restore_audit_trail_down = <<op>>
  BY <1>0 DEF restore_audit_trail_down
<1>2. PICK names \in SUBSET Names : names = Left \cup {"audit_logs"}
  BY PlacesAre DEF Left
<1>3. "audit_logs" \in names /\ names \ {"audit_logs"} = Left
  BY <1>2 DEF Left
<1>4. indexes \subseteq Indexed(V12["audit_logs"])
  <2>1. V12["audit_logs"] = Trail
    BY PlacesAre, ValuesAre
  <2> QED BY <1>0, <2>1 DEF Trail, restore_audit_trail, CreateTable, AuditLogs, Table, Indexed
<1>5. \A t \in names \ {"audit_logs"} : \A r \in Made[t].refers : r.to # "audit_logs"
  BY Unreferenced
<1>6. /\ Altered(op, Schema(names, V12)) = Schema(names \ {"audit_logs"}, V12)
      /\ ~Refused(op, Bare(Schema(names, V12)))
  BY <1>1, <1>3, <1>4, <1>5, VersionsAre, Dropping
<1>7. Runs(restore_audit_trail_down, Schema(names, V12), Schema(Left, V12))
  BY <1>1, <1>3, <1>6, RunsOne
<1> QED BY <1>2, <1>7 DEF SchemaOf

-----------------------------------------------------------------------------
(* The fold over the revisions. *)

\* Over tables without a row, every operation of every list can be run: upwards to the tables of
\* the next revision, and downwards, but for the retirement, back to those of the one before.
THEOREM ListsRun ==
  \A r \in 1..Latest : /\ Runs(Up(r), SchemaOf(r - 1), SchemaOf(r))
                       /\ r # 11 => Runs(Down(r), SchemaOf(r), SchemaOf(r - 1))
<1>1. \A r \in 1..12 : r = 1 \/ r = 2 \/ r = 3 \/ r = 4 \/ r = 5 \/ r = 6 \/ r = 7 \/ r = 8 \/ r = 9
                       \/ r = 10 \/ r = 11 \/ r = 12
  OBVIOUS
<1>2. /\ 1 - 1 = 0 /\ 2 - 1 = 1 /\ 3 - 1 = 2 /\ 4 - 1 = 3 /\ 5 - 1 = 4 /\ 6 - 1 = 5 /\ 7 - 1 = 6
      /\ 8 - 1 = 7 /\ 9 - 1 = 8 /\ 10 - 1 = 9 /\ 11 - 1 = 10 /\ 12 - 1 = 11
  OBVIOUS
<1>3. \A r \in 1..12 : Runs(Up(r), SchemaOf(r - 1), SchemaOf(r))
  BY <1>1, <1>2, ListsAre, RunsUp1, RunsUp2, RunsUp3, RunsUp4, RunsUp5, RunsUp6, RunsUp7, RunsUp8,
     RunsUp9, RunsUp10, RunsUp11, RunsUp12
<1>4. \A r \in 1..12 : r # 11 => Runs(Down(r), SchemaOf(r), SchemaOf(r - 1))
  BY <1>1, <1>2, ListsAre, RunsDown1, RunsDown2, RunsDown3, RunsDown4, RunsDown5, RunsDown6, RunsDown7,
     RunsDown8, RunsDown9, RunsDown10, RunsDown12
<1> QED BY <1>3, <1>4, Twelve

LEMMA ListLengths ==
  \A r \in 1..Latest : /\ Len(Up(r)) \in Nat /\ DOMAIN Up(r) = 1..Len(Up(r))
                       /\ Len(Down(r)) \in Nat /\ DOMAIN Down(r) = 1..Len(Down(r))
<1> DEFINE Good(ops) == Len(ops) \in Nat /\ DOMAIN ops = 1..Len(ops)
<1>1. Good(initial_schema) /\ Good(initial_schema_down)
  BY DEF initial_schema, initial_schema_down
<1>2. Good(collapse_roles) /\ Good(collapse_roles_down)
  BY DEF collapse_roles, collapse_roles_down
<1>3. Good(drop_password) /\ Good(drop_password_down)
  BY DEF drop_password, drop_password_down
<1>4. Good(create_role_assignments) /\ Good(create_role_assignments_down)
  BY DEF create_role_assignments, create_role_assignments_down
<1>5. Good(bootstrap_super_admin) /\ Good(bootstrap_super_admin_down)
  BY DEF bootstrap_super_admin, bootstrap_super_admin_down
<1>6. Good(split_correction) /\ Good(split_correction_down)
  BY DEF split_correction, split_correction_down
<1>7. Good(restore_password) /\ Good(restore_password_down)
  BY DEF restore_password, restore_password_down
<1>8. Good(eligibility_screening) /\ Good(eligibility_screening_down)
  BY DEF eligibility_screening, eligibility_screening_down
<1>9. Good(document_purge) /\ Good(document_purge_down)
  BY DEF document_purge, document_purge_down
<1>10. Good(eligibility_notifications) /\ Good(eligibility_notifications_down)
  BY DEF eligibility_notifications, eligibility_notifications_down
<1>11. Good(reduce_to_eligibility) /\ Good(reduce_to_eligibility_down)
  BY DEF reduce_to_eligibility, reduce_to_eligibility_down
<1>12. Good(restore_audit_trail) /\ Good(restore_audit_trail_down)
  BY DEF restore_audit_trail, restore_audit_trail_down
<1> HIDE DEF Good
<1>13. \A r \in 1..12 : Good(Up(r)) /\ Good(Down(r))
  <2>1. \A r \in 1..12 : r = 1 \/ r = 2 \/ r = 3 \/ r = 4 \/ r = 5 \/ r = 6 \/ r = 7 \/ r = 8 \/ r = 9
                         \/ r = 10 \/ r = 11 \/ r = 12
    OBVIOUS
  <2> QED BY <2>1, <1>1, <1>2, <1>3, <1>4, <1>5, <1>6, <1>7, <1>8, <1>9, <1>10, <1>11, <1>12, ListsAre
<1> QED BY <1>13, Twelve DEF Good

\* The tables that SchemaAt computes are those of SchemaOf.
LEMMA SchemaAtIs == \A r \in 0..Latest : SchemaAt[r] = SchemaOf(r)
<1>1. \A r \in 1..Latest :
        FoldLeft(LAMBDA schema, op : Altered(op, schema), SchemaOf(r - 1), Revisions[r].up) = SchemaOf(r)
  <2>1. ASSUME NEW r \in 1..Latest
        PROVE  FoldLeft(LAMBDA schema, op : Altered(op, schema), SchemaOf(r - 1), Revisions[r].up)
                 = SchemaOf(r)
    <3>1. PICK ops : ops = Up(r)
      OBVIOUS
    <3>2. Len(ops) \in Nat /\ DOMAIN ops = 1..Len(ops)
      BY <3>1, ListLengths
    <3>3. PICK start : start = SchemaOf(r - 1)
      OBVIOUS
    <3>4. FoldLeft(LAMBDA schema, op : Altered(op, schema), start, ops) = Run(ops, start, Len(ops))
      BY <3>2, FoldRuns
    <3>5. Run(ops, start, Len(ops)) = SchemaOf(r)
      BY <3>1, <3>3, ListsRun DEF Runs
    <3>6. ops = Revisions[r].up
      BY <3>1 DEF Up
    <3> QED BY <3>3, <3>4, <3>5, <3>6
  <2> QED BY <2>1
<1>2. SchemaOf(0) = Empty.schema
  <2>1. Schema({}, Made) = <<>>
    BY DEF Schema
  <2>2. SchemaOf(0) = Schema(First(0), Made)
    BY DEF SchemaOf
  <2>3. Empty.schema = <<>>
    BY DEF Empty
  <2> QED BY <2>1, <2>2, <2>3, FirstIs
<1>3. PICK g : g = [r \in 0..Latest |-> SchemaOf(r)]
  OBVIOUS
<1>4. \A r \in 0..Latest : g[r] = SchemaOf(r)
  BY <1>3
<1>5. g = [r \in 0..Latest |->
             IF r = 0 THEN Empty.schema
             ELSE FoldLeft(LAMBDA schema, op : Altered(op, schema), g[r - 1], Revisions[r].up)]
  <2>1. ASSUME NEW r \in 0..Latest
        PROVE  SchemaOf(r) = IF r = 0 THEN Empty.schema
               ELSE FoldLeft(LAMBDA schema, op : Altered(op, schema), g[r - 1], Revisions[r].up)
    <3>1. CASE r = 0
      BY <1>2, <3>1
    <3>2. CASE r # 0
      <4>1. r \in 1..Latest /\ r - 1 \in 0..Latest
        BY <3>2, Twelve
      <4>2. g[r - 1] = SchemaOf(r - 1)
        BY <1>4, <4>1
      <4> QED BY <1>1, <3>2, <4>1, <4>2
    <3> QED BY <3>1, <3>2
  <2> QED BY <1>3, <2>1
<1>6. SchemaAt = [r \in 0..Latest |->
             IF r = 0 THEN Empty.schema
             ELSE FoldLeft(LAMBDA schema, op : Altered(op, schema), SchemaAt[r - 1], Revisions[r].up)]
  BY <1>5 DEF SchemaAt
<1>7. SchemaAt[0] = SchemaOf(0)
  <2>1. 0 \in 0..Latest
    BY Twelve
  <2>2. SchemaAt[0] = Empty.schema
    BY <1>6, <2>1
  <2> QED BY <1>2, <2>2
<1>8. ASSUME NEW r \in 1..Latest, SchemaAt[r - 1] = SchemaOf(r - 1)
      PROVE  SchemaAt[r] = SchemaOf(r)
  <2>1. r \in 0..Latest /\ r # 0
    BY Twelve
  <2>2. SchemaAt[r] = FoldLeft(LAMBDA schema, op : Altered(op, schema), SchemaAt[r - 1], Revisions[r].up)
    BY <1>6, <2>1
  <2> QED BY <1>1, <1>8, <2>2
<1> DEFINE bad == {r \in 0..Latest : SchemaAt[r] # SchemaOf(r)}
<1>9. ASSUME bad # {} PROVE FALSE
  <2>1. PICK r \in bad : \A q \in bad : r <= q
    <3>1. bad \in SUBSET Nat
      BY Twelve
    <3> HIDE DEF bad
    <3> QED BY <1>9, <3>1, Least
  <2>2. r # 0
    BY <1>7, <2>1
  <2>3. r \in 1..Latest /\ r - 1 \in 0..Latest /\ r - 1 \notin bad
    BY <2>1, <2>2, Twelve
  <2> QED BY <1>8, <2>1, <2>3
<1> QED BY <1>9

-----------------------------------------------------------------------------
(* The tables and the reviews of a command under way. *)

\* Before its next operation a command has the tables that the operations before it leave, and
\* nothing of the retirement has been undone.
TablesInv ==
  /\ db.schema = SchemaOf(db.at)
  /\ cmd # None =>
       /\ cmd.to = tx.at => tx.schema = SchemaOf(tx.at)
       /\ cmd.to # tx.at =>
            /\ cmd.next - 1 \in 0..Len(Operations)
            /\ tx.schema = Run(Operations, SchemaOf(tx.at), cmd.next - 1)
            /\ cmd.to < tx.at /\ tx.at = 11 => cmd.next = 1

\* A review carries a verdict or is a correction; kinds are filled in before they are required,
\* and corrections deleted before verdicts are.
Telling(d) == \A r \in d.reviews : r.verdict \/ r.kind = "CORRECTION"
Kinded(d) == \A r \in d.reviews : r.kind # None
Uncorrected(d) == \A r \in d.reviews : r.kind # "CORRECTION"
ReviewsInv ==
  /\ Telling(db) /\ Telling(tx)
  /\ cmd # None /\ cmd.to > tx.at /\ tx.at = 5 /\ cmd.next >= 3 => Kinded(tx)
  /\ cmd # None /\ cmd.to < tx.at /\ tx.at = 6 /\ cmd.next >= 3 => Uncorrected(tx)

RevisionInv == TablesInv /\ ReviewsInv

\* The operations whose outcome depends on the reviews are those of the sixth revision.
Plain(ops) ==
  \A k \in 1..Len(ops) :
    /\ ops[k].do \notin {"require", "backfill", "delete", "refuse"}
    /\ ops[k].do = "remove" => ops[k].table # "tender_reviews"
\* Its operations, by place.
Filling(ops) ==
  /\ ops[2].do = "backfill"
  /\ \A k \in 1..Len(ops) :
       /\ ops[k].do \notin {"remove", "delete", "refuse"} /\ (k # 2 => ops[k].do # "backfill")
       /\ ops[k].do = "require" => k = 3 /\ ops[k].column = "kind"
Emptying(ops) ==
  /\ ops[2].do = "delete"
  /\ \A k \in 1..Len(ops) :
       /\ ops[k].do \notin {"backfill", "refuse"} /\ (ops[k].do = "remove" => k = 4)
       /\ ops[k].do = "require" => k = 3 /\ ops[k].column = "verdict"

LEMMA ListsMarked ==
  /\ \A r \in 1..Latest : /\ r # 6 => Plain(Up(r))
                          /\ r \notin {6, 11} => Plain(Down(r))
  /\ Filling(Up(6)) /\ Emptying(Down(6))
  /\ Len(Down(11)) = 1 /\ Down(11)[1].do = "refuse"
<1>1. Plain(initial_schema)
  BY DEF Plain, initial_schema, CreateTable
<1>2. Plain(initial_schema_down)
  BY DEF Plain, initial_schema_down, DropTable
<1>3. Plain(collapse_roles)
  BY DEF Plain, collapse_roles, Rows
<1>4. Plain(collapse_roles_down)
  BY DEF Plain, collapse_roles_down, Rows
<1>5. Plain(drop_password)
  BY DEF Plain, drop_password, DropColumn, Operation
<1>6. Plain(drop_password_down)
  BY DEF Plain, drop_password_down, AddColumn, Operation
<1>7. Plain(create_role_assignments)
  BY DEF Plain, create_role_assignments, CreateTable
<1>8. Plain(create_role_assignments_down)
  BY DEF Plain, create_role_assignments_down, DropTable
<1>9. Plain(bootstrap_super_admin)
  BY DEF Plain, bootstrap_super_admin, Rows
<1>10. Plain(bootstrap_super_admin_down)
  BY DEF Plain, bootstrap_super_admin_down, Rows
<1>11. Plain(restore_password)
  BY DEF Plain, restore_password, AddColumn, Operation
<1>12. Plain(restore_password_down)
  BY DEF Plain, restore_password_down, DropColumn, Operation
<1>13. Plain(eligibility_screening)
  BY DEF Plain, eligibility_screening, CreateTable, AddColumn, CreateUnique, Operation
<1>14. Plain(eligibility_screening_down)
  BY DEF Plain, eligibility_screening_down, DropTable, DropIndex, DropColumn, Operation
<1>15. Plain(document_purge)
  BY DEF Plain, document_purge, AddColumn, Operation
<1>16. Plain(document_purge_down)
  BY DEF Plain, document_purge_down, DropColumn, Operation
<1>17. Plain(eligibility_notifications)
  BY DEF Plain, eligibility_notifications, CreateTable
<1>18. Plain(eligibility_notifications_down)
  BY DEF Plain, eligibility_notifications_down, DropTable
<1>19. Plain(reduce_to_eligibility)
  BY DEF Plain, reduce_to_eligibility, DropTable
<1>20. Plain(restore_audit_trail)
  BY DEF Plain, restore_audit_trail, CreateTable
<1>21. Plain(restore_audit_trail_down)
  BY DEF Plain, restore_audit_trail_down, DropTable
<1>22. Filling(split_correction)
  BY DEF Filling, split_correction, AddColumn, Rows, SetNotNull, DropNotNull, CreateIndex, Operation
<1>23. Emptying(split_correction_down)
  BY DEF Emptying, split_correction_down, DropIndex, Rows, SetNotNull, DropColumn, Operation
<1>24. Len(reduce_to_eligibility_down) = 1 /\ reduce_to_eligibility_down[1].do = "refuse"
  BY DEF reduce_to_eligibility_down, Rows
<1>25. \A r \in 1..12 : r = 1 \/ r = 2 \/ r = 3 \/ r = 4 \/ r = 5 \/ r = 6 \/ r = 7 \/ r = 8 \/ r = 9
                        \/ r = 10 \/ r = 11 \/ r = 12
  OBVIOUS
<1> QED BY <1>1, <1>2, <1>3, <1>4, <1>5, <1>6, <1>7, <1>8, <1>9, <1>10, <1>11, <1>12, <1>13, <1>14,
     <1>15, <1>16, <1>17, <1>18, <1>19, <1>20, <1>21, <1>22, <1>23, <1>24, <1>25, ListsAre,
     Twelve

LEMMA TellingAfter ==
  ASSUME NEW op, NEW d, Shaped(d), Typed(d), Telling(d),
         op.do = "remove" /\ op.table = "tender_reviews" => Uncorrected(d)
  PROVE  Telling(Execute(op, d))
<1>1. d.reviews \subseteq Review /\ Execute(op, d).reviews = ReviewsAfter(op, d)
  BY ExecuteIs DEF Typed
<1>2. \A r \in Review : /\ Backfilled(r).verdict = r.verdict
                        /\ r.kind = "CORRECTION" => Backfilled(r).kind = "CORRECTION"
                        /\ [r EXCEPT !.kind = None].verdict = r.verdict
  BY NoneIsNothing DEF Review, Backfilled
<1>3. CASE op.do = "backfill"
  BY <1>1, <1>2, <1>3 DEF Telling, ReviewsAfter
<1>4. CASE op.do = "remove" /\ op.table = "tender_reviews"
  <2>1. \A r \in d.reviews : r.verdict
    BY <1>4 DEF Telling, Uncorrected
  <2>2. Execute(op, d).reviews = {[r EXCEPT !.kind = None] : r \in d.reviews}
    BY <1>1, <1>4 DEF ReviewsAfter
  <2> QED BY <1>1, <1>2, <2>1, <2>2 DEF Telling
<1>5. CASE op.do # "backfill" /\ ~(op.do = "remove" /\ op.table = "tender_reviews")
  <2>1. Execute(op, d).reviews \subseteq d.reviews
    BY <1>1, <1>5 DEF ReviewsAfter
  <2> QED BY <2>1 DEF Telling
<1> QED BY <1>3, <1>4, <1>5

LEMMA KindedAfter ==
  ASSUME NEW op, NEW d, Shaped(d), Typed(d)
  PROVE  /\ op.do = "backfill" => Kinded(Execute(op, d))
         /\ Kinded(d) /\ ~(op.do = "remove" /\ op.table = "tender_reviews") => Kinded(Execute(op, d))
         /\ op.do = "delete" => Uncorrected(Execute(op, d))
         /\ Uncorrected(d) => Uncorrected(Execute(op, d))
<1>1. d.reviews \subseteq Review /\ Execute(op, d).reviews = ReviewsAfter(op, d)
  BY ExecuteIs DEF Typed
<1>2. \A r \in Review : /\ Backfilled(r).kind # None /\ [r EXCEPT !.kind = None].kind = None
                        /\ r.kind # "CORRECTION" => Backfilled(r).kind # "CORRECTION"
  BY NoneIsNothing DEF Review, Backfilled
<1>3. None # "CORRECTION"
  BY NoneIsNothing
<1>4. CASE op.do = "backfill"
  BY <1>1, <1>2, <1>4 DEF Kinded, Uncorrected, ReviewsAfter
<1>5. CASE op.do = "remove" /\ op.table = "tender_reviews"
  <2>1. Execute(op, d).reviews = {[r EXCEPT !.kind = None] : r \in d.reviews}
    BY <1>1, <1>5 DEF ReviewsAfter
  <2> QED BY <1>1, <1>2, <1>3, <1>5, <2>1 DEF Uncorrected
<1>6. CASE op.do # "backfill" /\ ~(op.do = "remove" /\ op.table = "tender_reviews")
  <2>1. Execute(op, d).reviews \subseteq d.reviews
    BY <1>1, <1>6 DEF ReviewsAfter
  <2>2. op.do = "delete" => Execute(op, d).reviews = d.reviews \ Corrections(d)
    BY <1>1 DEF ReviewsAfter
  <2> QED BY <1>6, <2>1, <2>2 DEF Kinded, Uncorrected, Corrections
<1> QED BY <1>4, <1>5, <1>6

-----------------------------------------------------------------------------
(* They are kept. *)

\* A revision is begun with its tables, at its first operation.
LEMMA Starts ==
  ASSUME db'.schema = SchemaOf(db'.at), tx'.schema = SchemaOf(tx'.at), tx'.at \in 0..Latest,
         cmd'.to \in 0..Latest, cmd'.next = 1
  PROVE  TablesInv'
<1>1. ASSUME cmd'.to # tx'.at
      PROVE  /\ cmd'.next - 1 \in 0..Len(Operations')
             /\ tx'.schema = Run(Operations', SchemaOf(tx'.at), cmd'.next - 1)
  <2>1. \E r \in 1..Latest : Operations' = Up(r) \/ Operations' = Down(r)
    <3>1. CASE cmd'.to > tx'.at
      <4>1. tx'.at + 1 \in 1..Latest
        BY <3>1, Twelve
      <4> QED BY <3>1, <4>1 DEF Operations, Upgrading, Up
    <3>2. CASE ~(cmd'.to > tx'.at)
      <4>1. tx'.at \in 1..Latest
        BY <1>1, <3>2, Twelve
      <4> QED BY <3>2, <4>1 DEF Operations, Upgrading, Down
    <3> QED BY <3>1, <3>2
  <2>2. Len(Operations') \in Nat
    BY <2>1, ListLengths
  <2>3. PICK ops, start : ops = Operations' /\ start = SchemaOf(tx'.at)
    OBVIOUS
  <2>4. Run(ops, start, 0) = start
    BY <2>2, <2>3, RunIs
  <2> QED BY <2>2, <2>3, <2>4
<1> QED BY <1>1 DEF TablesInv, SchemaOf

LEMMA BeginKeepsTables ==
  ASSUME IInv, RevisionInv, NEW revision \in 0..Latest, Begin(revision)
  PROVE  RevisionInv'
<1>1. /\ db' = db /\ tx' = tx /\ tx = db
      /\ cmd' = [to |-> revision, next |-> 1]
  BY DEF Begin, Idle, IInv, CommandInv
<1>2. cmd'.to = revision /\ cmd'.next = 1 /\ tx'.at \in 0..Latest
  BY <1>1 DEF IInv, Typed
<1>3. db'.schema = SchemaOf(db'.at) /\ tx'.schema = SchemaOf(tx'.at)
  BY <1>1 DEF RevisionInv, TablesInv
<1>4. TablesInv'
  BY <1>2, <1>3, Starts
<1>5. ReviewsInv'
  BY <1>1, <1>2 DEF RevisionInv, ReviewsInv, Telling
<1> QED BY <1>4, <1>5 DEF RevisionInv

LEMMA StepKeepsTables ==
  ASSUME IInv, RevisionInv, Step
  PROVE  RevisionInv'
<1> PICK op : op = Operations[cmd.next]
  OBVIOUS
<1>0. /\ Pending /\ db' = db /\ tx' = Execute(op, tx) /\ ~Refused(op, tx)
      /\ cmd # None /\ cmd.to # tx.at /\ cmd.next <= Len(Operations)
      /\ cmd' = [cmd EXCEPT !.next = @ + 1]
  BY DEF Step, Pending, Idle
<1>1. cmd \in [to : 0..Latest, next : Nat \ {0}]
  BY <1>0 DEF IInv, CommandInv
<1>2. cmd'.to = cmd.to /\ cmd'.next = cmd.next + 1
  BY <1>0, <1>1
<1>3. Shaped(db) /\ Shaped(tx) /\ Typed(db) /\ Typed(tx) /\ CommandInv
  BY DEF IInv
<1>4. tx'.at = tx.at /\ tx'.schema = Altered(op, tx.schema)
  BY <1>0, <1>3, ExecuteIs
<1>5. (Upgrading' <=> Upgrading) /\ Operations' = Operations
  BY <1>2, <1>4 DEF Upgrading, Operations
<1>6. \/ /\ Upgrading /\ cmd.to > tx.at /\ tx.at + 1 \in 1..Latest /\ Operations = Up(tx.at + 1)
      \/ /\ ~Upgrading /\ cmd.to < tx.at /\ tx.at \in 1..Latest /\ Operations = Down(tx.at)
  <2>1. cmd.to \in 0..12 /\ tx.at \in 0..12
    BY <1>1, <1>3, Twelve DEF Typed
  <2> QED BY <1>0, <1>3, <2>1, OperationsAre DEF Upgrading
<1>7. Len(Operations) \in Nat
  BY <1>6, ListLengths
<1>8. cmd.next \in 1..Len(Operations)
  BY <1>0, <1>1, <1>7
<1>9. ~(cmd.to < tx.at /\ tx.at = 11)
  <2> SUFFICES ASSUME cmd.to < tx.at, tx.at = 11 PROVE FALSE
    OBVIOUS
  <2>1. cmd.next = 1
    BY <1>0 DEF RevisionInv, TablesInv
  <2>2. Operations = Down(11)
    BY <1>6, <1>1, Twelve DEF Upgrading
  <2>3. op.do = "refuse"
    BY <2>1, <2>2, ListsMarked
  <2> QED BY <1>0, <2>3 DEF Refused
<1>10. TablesInv'
  <2>1. PICK ops, start : ops = Operations /\ start = SchemaOf(tx.at)
    OBVIOUS
  <2>2. tx.schema = Run(ops, start, cmd.next - 1)
    BY <1>0, <2>1 DEF RevisionInv, TablesInv
  <2>3. Run(ops, start, cmd.next) = Altered(ops[cmd.next], Run(ops, start, cmd.next - 1))
    <3>1. Len(ops) \in Nat /\ cmd.next \in 1..Len(ops)
      BY ONLY <1>7, <1>8, <2>1
    <3>2. \A k \in 1..Len(ops) : Run(ops, start, k) = Altered(ops[k], Run(ops, start, k - 1))
      BY ONLY <3>1, RunIs
    <3> QED BY ONLY <3>1, <3>2
  <2>4. tx'.schema = Run(ops, start, cmd.next)
    BY <1>4, <2>1, <2>2, <2>3
  <2>5. cmd'.next - 1 = cmd.next
    BY <1>1, <1>2
  <2>6. /\ cmd'.next - 1 \in 0..Len(Operations')
        /\ tx'.schema = Run(Operations', SchemaOf(tx'.at), cmd'.next - 1)
    BY <1>4, <1>5, <1>7, <1>8, <2>1, <2>4, <2>5
  <2>7. db'.schema = SchemaOf(db'.at)
    BY <1>0 DEF RevisionInv, TablesInv
  <2>8. cmd'.to # tx'.at /\ ~(cmd'.to < tx'.at /\ tx'.at = 11)
    BY <1>0, <1>2, <1>4, <1>9
  <2> QED BY <2>6, <2>7, <2>8 DEF TablesInv, SchemaOf
<1>11. PICK x : x = tx' /\ x = Execute(op, tx)
  BY <1>0
<1>12. Telling(db) /\ Telling(tx)
  BY DEF RevisionInv, ReviewsInv
<1>13. /\ cmd.to > tx.at /\ tx.at = 5 /\ cmd.next >= 3 => Kinded(tx)
       /\ cmd.to < tx.at /\ tx.at = 6 /\ cmd.next >= 3 => Uncorrected(tx)
  BY <1>0 DEF RevisionInv, ReviewsInv
<1>14. ASSUME op.do = "remove" /\ op.table = "tender_reviews"
       PROVE  Uncorrected(tx)
  <2>1. CASE Upgrading /\ Operations = Up(tx.at + 1) /\ tx.at + 1 \in 1..Latest
    <3>1. tx.at + 1 # 6 => Plain(Operations)
      BY <2>1, ListsMarked
    <3>2. tx.at + 1 = 6 => Filling(Operations)
      BY <2>1, ListsMarked
    <3> QED BY <1>8, <1>14, <3>1, <3>2 DEF Plain, Filling
  <2>2. CASE cmd.to < tx.at /\ tx.at \in 1..Latest /\ Operations = Down(tx.at)
    <3>1. tx.at # 6 => Plain(Operations)
      BY <1>9, <2>2, ListsMarked
    <3>2. tx.at = 6 /\ Emptying(Operations)
      <4>1. tx.at = 6
        BY <1>8, <1>14, <3>1 DEF Plain
      <4> QED BY <2>2, <4>1, ListsMarked
    <3>3. cmd.next = 4
      BY <1>8, <1>14, <3>2 DEF Emptying
    <3> QED BY <1>13, <2>2, <3>2, <3>3
  <2> QED BY <1>6, <2>1, <2>2
<1>15. Telling(x)
  BY <1>3, <1>11, <1>12, <1>14, TellingAfter
<1>16. ASSUME cmd.to > tx.at, tx.at = 5, cmd.next + 1 >= 3
       PROVE  Kinded(x)
  <2>1. Operations = Up(6) /\ Filling(Operations)
    <3>1. 5 + 1 = 6 /\ ~(cmd.to < tx.at)
      BY <1>1, <1>16
    <3> QED BY <1>6, <1>16, <3>1, ListsMarked
  <2>2. CASE cmd.next = 2
    BY <1>3, <1>11, <2>1, <2>2, KindedAfter DEF Filling
  <2>3. CASE cmd.next >= 3
    <3>1. op.do # "remove"
      BY <1>8, <2>1 DEF Filling
    <3> QED BY <1>3, <1>11, <1>13, <1>16, <2>3, <3>1, KindedAfter
  <2> QED BY <1>1, <1>16, <2>2, <2>3
<1>17. ASSUME cmd.to < tx.at, tx.at = 6, cmd.next + 1 >= 3
       PROVE  Uncorrected(x)
  <2>1. Operations = Down(6) /\ Emptying(Operations)
    <3>1. ~(cmd.to > tx.at)
      BY <1>1, <1>17
    <3> QED BY <1>6, <1>17, <3>1, ListsMarked
  <2>2. CASE cmd.next = 2
    BY <1>3, <1>11, <2>1, <2>2, KindedAfter DEF Emptying
  <2>3. CASE cmd.next >= 3
    BY <1>3, <1>11, <1>13, <1>17, <2>3, KindedAfter
  <2> QED BY <1>1, <1>17, <2>2, <2>3
<1>18. ReviewsInv'
  BY <1>0, <1>2, <1>4, <1>11, <1>12, <1>15, <1>16, <1>17 DEF ReviewsInv, Telling, Kinded, Uncorrected
<1> QED BY <1>10, <1>18 DEF RevisionInv

LEMMA StampKeepsTables ==
  ASSUME IInv, RevisionInv, Stamp
  PROVE  RevisionInv'
<1>0. /\ cmd # None /\ cmd.to # tx.at /\ cmd.next > Len(Operations) /\ db' = db
      /\ tx' = [tx EXCEPT !.at = IF Upgrading THEN @ + 1 ELSE @ - 1]
      /\ cmd' = [cmd EXCEPT !.next = 1]
  BY DEF Stamp, Idle
<1>1. Shaped(tx) /\ Typed(db) /\ Typed(tx) /\ CommandInv
  BY DEF IInv
<1>2. cmd \in [to : 0..Latest, next : Nat \ {0}]
  BY <1>0, <1>1 DEF CommandInv
<1>3. cmd'.to = cmd.to /\ cmd'.next = 1 /\ cmd'.to \in 0..Latest
  BY <1>0, <1>2
<1>4. /\ tx'.at = (IF Upgrading THEN tx.at + 1 ELSE tx.at - 1)
      /\ tx'.schema = tx.schema /\ tx'.reviews = tx.reviews
  BY <1>0, <1>1 DEF Shaped
<1>5. /\ cmd.next - 1 \in 0..Len(Operations)
      /\ tx.schema = Run(Operations, SchemaOf(tx.at), cmd.next - 1)
      /\ cmd.to < tx.at /\ tx.at = 11 => cmd.next = 1
      /\ db.schema = SchemaOf(db.at)
  BY <1>0 DEF RevisionInv, TablesInv
<1>6. cmd.to \in 0..12 /\ tx.at \in 0..12
  BY <1>1, <1>2, Twelve DEF Typed
<1>7. \/ /\ Upgrading /\ cmd.to > tx.at /\ tx.at + 1 \in 1..Latest /\ Operations = Up(tx.at + 1)
      \/ /\ ~Upgrading /\ cmd.to < tx.at /\ tx.at \in 1..Latest /\ Operations = Down(tx.at)
  BY <1>0, <1>1, <1>6, OperationsAre DEF Upgrading
<1>8. Len(Operations) \in Nat /\ cmd.next - 1 = Len(Operations)
  <2>1. Len(Operations) \in Nat
    BY <1>7, ListLengths
  <2> QED BY <1>0, <1>2, <1>5, <2>1
<1>9. tx.schema = Run(Operations, SchemaOf(tx.at), Len(Operations))
  BY <1>5, <1>8
<1>10. tx'.schema = SchemaOf(tx'.at) /\ tx'.at \in 0..Latest
  <2>1. CASE Upgrading /\ tx.at + 1 \in 1..Latest /\ Operations = Up(tx.at + 1)
    <3>1. PICK r \in 1..Latest : r = tx.at + 1 /\ r - 1 = tx.at
      BY <1>6, <2>1
    <3>2. Run(Up(r), SchemaOf(r - 1), Len(Up(r))) = SchemaOf(r)
      BY ListsRun DEF Runs
    <3> QED BY <1>4, <1>9, <2>1, <3>1, <3>2, Twelve
  <2>2. CASE ~Upgrading /\ cmd.to < tx.at /\ tx.at \in 1..Latest /\ Operations = Down(tx.at)
    <3>1. PICK r \in 1..Latest : r = tx.at /\ r - 1 = tx.at - 1
      BY <2>2
    <3>2. r # 11
      <4>1. ASSUME r = 11 PROVE FALSE
        <5>1. cmd.next = 1 /\ Len(Operations) = 1
          BY <1>5, <2>2, <3>1, <4>1, ListsMarked
        <5> QED BY <1>0, <5>1
      <4> QED BY <4>1
    <3>3. Run(Down(r), SchemaOf(r), Len(Down(r))) = SchemaOf(r - 1)
      BY <3>2, ListsRun DEF Runs
    <3> QED BY <1>4, <1>9, <2>2, <3>1, <3>3, Twelve
  <2> QED BY <1>7, <2>1, <2>2
<1>11. TablesInv'
  <2>1. db'.schema = SchemaOf(db'.at)
    BY <1>0, <1>5
  <2> QED BY <1>3, <1>10, <2>1, Starts
<1>12. ReviewsInv'
  BY <1>0, <1>3, <1>4 DEF RevisionInv, ReviewsInv, Telling
<1> QED BY <1>11, <1>12 DEF RevisionInv

\* Between commands it is enough that the tables are left alone and that reviews are telling.
LEMMA RestKeepsTables ==
  ASSUME NEW d, d.schema = SchemaOf(d.at), Telling(d), db' = d, tx' = d, cmd' = None
  PROVE  RevisionInv'
BY DEF RevisionInv, TablesInv, ReviewsInv, Telling, SchemaOf

LEMMA WriteKeepsTables ==
  ASSUME RevisionInv, NEW d, Write(d), d.at = db.at, d.schema = db.schema, Telling(d)
  PROVE  RevisionInv'
<1>1. db' = d /\ tx' = d /\ cmd' = None
  BY DEF Write, Idle
<1>2. d.schema = SchemaOf(d.at)
  BY DEF RevisionInv, TablesInv
<1> QED BY <1>1, <1>2, RestKeepsTables

LEMMA ProgramKeepsTables ==
  ASSUME IInv, RevisionInv, NEW e \in Emails, NEW by \in Emails,
         SignUp(e) \/ DeleteUser(e) \/ SaveReview(e) \/ CreateRoleAssignment(e, by)
  PROVE  RevisionInv'
<1>1. Shaped(db) /\ Telling(db)
  BY DEF IInv, RevisionInv, ReviewsInv
<1>2. ASSUME NEW d, Write(d), d.at = db.at, d.schema = db.schema, d.reviews = db.reviews
      PROVE  RevisionInv'
  <2>1. Telling(d)
    BY <1>1, <1>2 DEF Telling
  <2> QED BY <1>2, <2>1, WriteKeepsTables
<1>4. CASE SignUp(e)
  <2>1. PICK d : Write(d) /\ d.at = db.at /\ d.schema = db.schema /\ d.reviews = db.reviews
    <3>1. CASE db.grants[e] = None
      <4>1. PICK role \in RolesOf(db.at) : Write([db EXCEPT !.users[e] = role])
        BY <1>4, <3>1 DEF SignUp
      <4>2. PICK d : d = [db EXCEPT !.users[e] = role]
        OBVIOUS
      <4>3. d.at = db.at /\ d.schema = db.schema /\ d.reviews = db.reviews
        BY <1>1, <4>2 DEF Shaped
      <4> QED BY <4>1, <4>2, <4>3
    <3>2. CASE db.grants[e] # None
      <4>1. PICK d : d = [db EXCEPT !.users[e] = db.grants[e].role, !.grants[e].consumed = TRUE]
        OBVIOUS
      <4>2. d.at = db.at /\ d.schema = db.schema /\ d.reviews = db.reviews
        BY <1>1, <4>1 DEF Shaped
      <4> QED BY <1>4, <3>2, <4>1, <4>2 DEF SignUp
    <3> QED BY <3>1, <3>2
  <2> QED BY <1>2, <2>1
<1>5. CASE DeleteUser(e)
  <2>1. PICK d : d = [db EXCEPT !.users[e] = None,
                                !.grants = [a \in Emails |->
                                  IF @[a] # None /\ @[a].by = e THEN [@[a] EXCEPT !.by = None] ELSE @[a]]]
    OBVIOUS
  <2>2. d.at = db.at /\ d.schema = db.schema /\ d.reviews = db.reviews
    BY <1>1, <2>1 DEF Shaped
  <2>3. Write(d)
    BY <1>5, <2>1 DEF DeleteUser
  <2> QED BY <1>2, <2>2, <2>3
<1>6. CASE CreateRoleAssignment(e, by)
  <2>1. PICK role : Write([db EXCEPT !.grants[e] = [role |-> role, by |-> by, consumed |-> FALSE]])
    BY <1>6 DEF CreateRoleAssignment
  <2>2. PICK d : d = [db EXCEPT !.grants[e] = [role |-> role, by |-> by, consumed |-> FALSE]]
    OBVIOUS
  <2>3. d.at = db.at /\ d.schema = db.schema /\ d.reviews = db.reviews
    BY <1>1, <2>2 DEF Shaped
  <2> QED BY <1>2, <2>1, <2>2, <2>3
<1>7. CASE SaveReview(e)
  <2>1. PICK r : Write([db EXCEPT !.reviews = @ \cup {r}]) /\ (r.verdict \/ r.kind = "CORRECTION")
    <3>1. CASE Write([db EXCEPT !.reviews = @ \cup {[by |-> e, kind |-> None, verdict |-> TRUE]}])
      <4>1. PICK r : r = [by |-> e, kind |-> None, verdict |-> TRUE]
        OBVIOUS
      <4>2. r.verdict /\ Write([db EXCEPT !.reviews = @ \cup {r}])
        BY <3>1, <4>1
      <4> QED BY <4>2
    <3>2. ASSUME NEW kind \in {"VERDICT", "CORRECTION"},
                 Write([db EXCEPT !.reviews =
                   @ \cup {[by |-> e, kind |-> kind, verdict |-> kind = "VERDICT"]}])
          PROVE  \E r : Write([db EXCEPT !.reviews = @ \cup {r}]) /\ (r.verdict \/ r.kind = "CORRECTION")
      <4>1. PICK r : r = [by |-> e, kind |-> kind, verdict |-> kind = "VERDICT"]
        OBVIOUS
      <4>2. Write([db EXCEPT !.reviews = @ \cup {r}])
        BY <3>2, <4>1
      <4>3. r.verdict \/ r.kind = "CORRECTION"
        BY <3>2, <4>1
      <4> QED BY <4>2, <4>3
    <3> QED BY <1>7, <3>1, <3>2 DEF SaveReview
  <2>2. PICK d : d = [db EXCEPT !.reviews = @ \cup {r}]
    OBVIOUS
  <2>3. d.at = db.at /\ d.schema = db.schema /\ d.reviews = db.reviews \cup {r}
    BY <1>1, <2>2 DEF Shaped
  <2>4. Telling(d)
    BY <1>1, <2>1, <2>3 DEF Telling
  <2> QED BY <2>1, <2>2, <2>3, <2>4, WriteKeepsTables
<1> QED BY <1>4, <1>5, <1>6, <1>7

LEMMA InitiallyTables == Init => RevisionInv
<1> SUFFICES ASSUME Init PROVE RevisionInv
  OBVIOUS
<1>1. SchemaOf(0) = Schema({}, Made)
  BY FirstIs DEF SchemaOf
<1>2. Schema({}, Made) = <<>>
  BY DEF Schema
<1>3. Empty.schema = <<>> /\ Empty.reviews = {} /\ Empty.at = 0
  BY DEF Empty
<1> QED BY <1>1, <1>2, <1>3 DEF Init, RevisionInv, TablesInv, ReviewsInv, Telling

LEMMA NextKeepsTables == IInv /\ RevisionInv /\ [Next]_vars => RevisionInv'
<1> SUFFICES ASSUME IInv, RevisionInv, [Next]_vars PROVE RevisionInv'
  OBVIOUS
<1>1. ASSUME NEW revision \in 0..Latest, Begin(revision) PROVE RevisionInv'
  BY <1>1, BeginKeepsTables
<1>2. CASE Step
  BY <1>2, StepKeepsTables
<1>3. CASE Stamp
  BY <1>3, StampKeepsTables
<1>4. CASE Commit
  <2>1. cmd # None /\ cmd.to = tx.at /\ db' = tx /\ tx' = tx /\ cmd' = None
    BY <1>4 DEF Commit, Idle
  <2>2. tx.schema = SchemaOf(tx.at) /\ Telling(tx)
    BY <2>1 DEF RevisionInv, TablesInv, ReviewsInv
  <2> QED BY <2>1, <2>2, RestKeepsTables
<1>5. CASE RollBack
  <2>1. db' = db /\ tx' = db /\ cmd' = None
    BY <1>5 DEF RollBack
  <2>2. db.schema = SchemaOf(db.at) /\ Telling(db)
    BY DEF RevisionInv, TablesInv, ReviewsInv
  <2> QED BY <2>1, <2>2, RestKeepsTables
<1>6. ASSUME NEW e \in Emails, SignUp(e) \/ DeleteUser(e) \/ SaveReview(e) PROVE RevisionInv'
  BY <1>6, ProgramKeepsTables
<1>7. ASSUME NEW e \in Emails, NEW by \in Emails, CreateRoleAssignment(e, by) PROVE RevisionInv'
  BY <1>7, ProgramKeepsTables
<1>8. CASE UNCHANGED vars
  <2>1. db' = db /\ tx' = tx /\ cmd' = cmd
    BY <1>8 DEF vars
  <2>2. TablesInv'
    <3>1. Operations' = Operations
      BY <2>1 DEF Operations, Upgrading
    <3> QED BY <2>1, <3>1 DEF RevisionInv, TablesInv
  <2>3. ReviewsInv'
    BY <2>1 DEF RevisionInv, ReviewsInv, Telling, Kinded, Uncorrected
  <2> QED BY <2>2, <2>3 DEF RevisionInv
<1> QED BY <1>1, <1>2, <1>3, <1>4, <1>5, <1>6, <1>7, <1>8 DEF Next

-----------------------------------------------------------------------------
(* The last tables are those of the models. *)

\* What the tables that were changed have become.
LEMMA ChangedTables ==
  /\ Project5 =
       Table({"id", "name", "embedding_indexed"} \cup Stamps,
         {"client", "work_value", "category", "location", "description", "completion_date",
          "loa_reference", "loa_reference_normalised", "completion_certificate_date",
          "completion_certificate_note"}, {"loa_reference_normalised"}, {"category", "work_value"}, {})
  /\ Purged =
       Table({"id", "tender_id", "status", "attempt_count"} \cup Stamps,
         {"source_url", "file_name", "file_path", "file_size", "mime_type", "sha256", "last_error",
          "downloaded_at", "raw_text", "purged_at"}, {}, {"sha256", "status", "tender_id"}, {OfTender})
  /\ Trail = AuditLogs({"actor_id", "created_at"})
<1>1. Trail = AuditLogs({"actor_id", "created_at"})
  BY DEF Trail, restore_audit_trail, CreateTable
<1>2. PICK r, o, i, f :
        /\ r = {"id", "tender_id", "status", "attempt_count"} \cup Stamps
        /\ o = {"source_url", "file_name", "file_path", "file_size", "mime_type", "sha256",
                "last_error", "downloaded_at", "raw_text"}
        /\ i = {"sha256", "status", "tender_id"} /\ f = {OfTender}
  OBVIOUS
<1>3. Purged = Table(r, o \cup {"purged_at"}, {}, i, f)
  <2>1. Made["tender_documents"] = Table(r, o, {}, i, f)
    BY <1>2, MadeTables DEF initial_schema, CreateTable
  <2>2. document_purge[1].do = "add" /\ document_purge[1].column = "purged_at"
    BY DEF document_purge, AddColumn, Operation
  <2> QED BY <2>1, <2>2, AddIs DEF Purged
<1>4. o \cup {"purged_at"} =
        {"source_url", "file_name", "file_path", "file_size", "mime_type", "sha256", "last_error",
         "downloaded_at", "raw_text", "purged_at"}
  BY <1>2
<1>5. PICK p, c, j :
        /\ p = {"id", "name", "embedding_indexed"} \cup Stamps
        /\ c = {"client", "work_value", "category", "location", "description", "completion_date"}
        /\ j = {"category", "work_value"}
  OBVIOUS
<1>6. PICK c1, c2, c3, c4 :
        /\ c1 = c \cup {"loa_reference"} /\ c2 = c1 \cup {"loa_reference_normalised"}
        /\ c3 = c2 \cup {"completion_certificate_date"}
        /\ c4 = c3 \cup {"completion_certificate_note"}
  OBVIOUS
<1>7. Project5 = Table(p, c4, {"loa_reference_normalised"}, j, {})
  <2>1. Made["past_projects"] = Table(p, c, {}, j, {})
    BY <1>5, MadeTables DEF initial_schema, CreateTable
  <2>2. /\ eligibility_screening[9].do = "add" /\ eligibility_screening[9].column = "loa_reference"
        /\ eligibility_screening[10].do = "add"
        /\ eligibility_screening[10].column = "loa_reference_normalised"
        /\ eligibility_screening[11].do = "add"
        /\ eligibility_screening[11].column = "completion_certificate_date"
        /\ eligibility_screening[12].do = "add"
        /\ eligibility_screening[12].column = "completion_certificate_note"
        /\ eligibility_screening[13].do = "unique"
        /\ eligibility_screening[13].column = "loa_reference_normalised"
    BY DEF eligibility_screening, AddColumn, CreateUnique, Operation
  <2>3. Project1 = Table(p, c1, {}, j, {})
    BY <1>6, <2>1, <2>2, AddIs DEF Project1
  <2>4. Project2 = Table(p, c2, {}, j, {})
    BY <1>6, <2>2, <2>3, AddIs DEF Project2
  <2>5. Project3 = Table(p, c3, {}, j, {})
    BY <1>6, <2>2, <2>4, AddIs DEF Project3
  <2>6. Project4 = Table(p, c4, {}, j, {})
    BY <1>6, <2>2, <2>5, AddIs DEF Project4
  <2>7. {} \cup {"loa_reference_normalised"} = {"loa_reference_normalised"}
    OBVIOUS
  <2> QED BY <2>2, <2>6, <2>7, UniqueIs DEF Project5
<1>8. c4 = {"client", "work_value", "category", "location", "description", "completion_date",
            "loa_reference", "loa_reference_normalised", "completion_certificate_date",
            "completion_certificate_note"}
  BY <1>5, <1>6
<1> QED BY <1>1, <1>2, <1>3, <1>4, <1>5, <1>7, <1>8

LEMMA ModelsAre == SchemaOf(12) = Models
<1> DEFINE all == Left \cup {"audit_logs"}
<1>1. SchemaOf(12) = [name \in all |-> V12[name]]
  BY DEF SchemaOf, Schema
<1>2. all = {Order[i] : i \in (1..18) \ {8}}
  <2>1. First(18) = {Order[i] : i \in 1..18} /\ Order[8] = "tender_reviews" /\ Order[1] = "audit_logs"
    BY DEF First, Order
  <2>2. \A i \in 1..18 : Order[i] = Order[8] <=> i = 8
    BY OrderIs
  <2> QED BY <2>1, <2>2 DEF Left
<1> DEFINE names == {"users", "role_assignments", "user_sessions", "tenders", "tender_documents",
                     "tender_metadata", "boq_items", "audit_logs", "past_projects", "work_types",
                     "work_type_aliases", "past_project_work_types", "company_turnover",
                     "tender_eligibility", "tender_eligibility_work_types",
                     "tender_eligibility_projects", "portfolio_version"}
<1>3. all = names
  <2>1. /\ Order[1] = "audit_logs" /\ Order[2] = "past_projects" /\ Order[3] = "tenders"
        /\ Order[4] = "users" /\ Order[5] = "boq_items" /\ Order[6] = "tender_documents"
        /\ Order[7] = "tender_metadata" /\ Order[9] = "user_sessions"
        /\ Order[10] = "role_assignments" /\ Order[11] = "work_types"
        /\ Order[12] = "work_type_aliases" /\ Order[13] = "past_project_work_types"
        /\ Order[14] = "company_turnover" /\ Order[15] = "tender_eligibility"
        /\ Order[16] = "tender_eligibility_work_types" /\ Order[17] = "tender_eligibility_projects"
        /\ Order[18] = "portfolio_version"
    BY DEF Order
  <2>2. (1..18) \ {8} = {1, 2, 3, 4, 5, 6, 7, 9, 10, 11, 12, 13, 14, 15, 16, 17, 18}
    OBVIOUS
  <2>3. all = {Order[i] : i \in {1, 2, 3, 4, 5, 6, 7, 9, 10, 11, 12, 13, 14, 15, 16, 17, 18}}
    BY <1>2, <2>2
  <2> HIDE DEF all
  <2> QED BY <2>1, <2>3
<1>4. DOMAIN Models = names
  <2>1. DOMAIN AccountModels = {"users", "role_assignments", "user_sessions"}
    BY DEF AccountModels
  <2>2. DOMAIN TenderModels = {"tenders", "tender_documents", "tender_metadata", "boq_items", "audit_logs"}
    BY DEF TenderModels
  <2>3. DOMAIN ScreeningModels = {"past_projects", "work_types", "work_type_aliases",
          "past_project_work_types", "company_turnover", "tender_eligibility",
          "tender_eligibility_work_types", "tender_eligibility_projects", "portfolio_version"}
    BY DEF ScreeningModels
  <2>4. DOMAIN Models = DOMAIN AccountModels \cup DOMAIN TenderModels \cup DOMAIN ScreeningModels
    BY DEF Models
  <2> QED BY <2>1, <2>2, <2>3, <2>4
<1>5. /\ Models = [name \in DOMAIN Models |-> Models[name]]
      /\ \A name \in {"users", "role_assignments", "user_sessions"} : Models[name] = AccountModels[name]
      /\ \A name \in {"tenders", "tender_documents", "tender_metadata", "boq_items", "audit_logs"} :
           Models[name] = TenderModels[name]
      /\ \A name \in {"past_projects", "work_types", "work_type_aliases", "past_project_work_types",
                      "company_turnover", "tender_eligibility", "tender_eligibility_work_types",
                      "tender_eligibility_projects", "portfolio_version"} :
           Models[name] = ScreeningModels[name]
  <2>1. DOMAIN AccountModels = {"users", "role_assignments", "user_sessions"}
    BY DEF AccountModels
  <2>2. DOMAIN TenderModels = {"tenders", "tender_documents", "tender_metadata", "boq_items", "audit_logs"}
    BY DEF TenderModels
  <2>3. DOMAIN ScreeningModels = {"past_projects", "work_types", "work_type_aliases",
          "past_project_work_types", "company_turnover", "tender_eligibility",
          "tender_eligibility_work_types", "tender_eligibility_projects", "portfolio_version"}
    BY DEF ScreeningModels
  <2> QED BY <2>1, <2>2, <2>3 DEF Models
<1>6. ASSUME NEW name \in names
      PROVE  V12[name] = Models[name]
  <2>0. name \in Names
    BY <1>3, PlacesAre DEF Left
  <2>1. V12[name] = (IF name = "audit_logs" THEN Trail ELSE IF name = "tender_documents" THEN Purged
                     ELSE IF name = "past_projects" THEN Project5 ELSE Made[name])
    <3>1. name # "tender_reviews"
      OBVIOUS
    <3> QED BY <2>0, <3>1, ValuesAre
  <2>2. CASE name = "users"
    <3>1. V12[name] = Made[Order[4]]
      BY <2>1, <2>2 DEF Order
    <3>2. Models[name] = AccountModels["users"]
      BY <1>5, <2>2
    <3>3. Made[Order[4]] = initial_schema[4].as
      BY MadeIs DEF Makes
    <3>4. AccountModels["users"] = initial_schema[4].as
      BY DEF AccountModels, initial_schema, CreateTable, OfTender
    <3> QED BY <3>1, <3>2, <3>3, <3>4
  <2>3. CASE name = "role_assignments"
    <3>1. V12[name] = Made[Order[10]]
      BY <2>1, <2>3 DEF Order
    <3>2. Models[name] = AccountModels["role_assignments"]
      BY <1>5, <2>3
    <3>3. Made[Order[10]] = create_role_assignments[1].as
      BY MadeIs DEF Makes
    <3>4. AccountModels["role_assignments"] = create_role_assignments[1].as
      BY DEF AccountModels, create_role_assignments, CreateTable, OfTender
    <3> QED BY <3>1, <3>2, <3>3, <3>4
  <2>4. CASE name = "user_sessions"
    <3>1. V12[name] = Made[Order[9]]
      BY <2>1, <2>4 DEF Order
    <3>2. Models[name] = AccountModels["user_sessions"]
      BY <1>5, <2>4
    <3>3. Made[Order[9]] = initial_schema[9].as
      BY MadeIs DEF Makes
    <3>4. AccountModels["user_sessions"] = initial_schema[9].as
      BY DEF AccountModels, initial_schema, CreateTable, OfTender
    <3> QED BY <3>1, <3>2, <3>3, <3>4
  <2>5. CASE name = "tenders"
    <3>1. V12[name] = Made[Order[3]]
      BY <2>1, <2>5 DEF Order
    <3>2. Models[name] = TenderModels["tenders"]
      BY <1>5, <2>5
    <3>3. Made[Order[3]] = initial_schema[3].as
      BY MadeIs DEF Makes
    <3>4. TenderModels["tenders"] = initial_schema[3].as
      BY DEF TenderModels, initial_schema, CreateTable, OfTender
    <3> QED BY <3>1, <3>2, <3>3, <3>4
  <2>6. CASE name = "tender_documents"
    <3>1. V12[name] = Purged
      BY <2>1, <2>6
    <3>2. Models[name] = TenderModels["tender_documents"]
      BY <1>5, <2>6
    <3>3. TenderModels["tender_documents"] = Purged
      BY ChangedTables DEF TenderModels, AuditLogs, OfTender
    <3> QED BY <3>1, <3>2, <3>3
  <2>7. CASE name = "tender_metadata"
    <3>1. V12[name] = Made[Order[7]]
      BY <2>1, <2>7 DEF Order
    <3>2. Models[name] = TenderModels["tender_metadata"]
      BY <1>5, <2>7
    <3>3. Made[Order[7]] = initial_schema[7].as
      BY MadeIs DEF Makes
    <3>4. TenderModels["tender_metadata"] = initial_schema[7].as
      BY DEF TenderModels, initial_schema, CreateTable, OfTender
    <3> QED BY <3>1, <3>2, <3>3, <3>4
  <2>8. CASE name = "boq_items"
    <3>1. V12[name] = Made[Order[5]]
      BY <2>1, <2>8 DEF Order
    <3>2. Models[name] = TenderModels["boq_items"]
      BY <1>5, <2>8
    <3>3. Made[Order[5]] = initial_schema[5].as
      BY MadeIs DEF Makes
    <3>4. TenderModels["boq_items"] = initial_schema[5].as
      BY DEF TenderModels, initial_schema, CreateTable, OfTender
    <3> QED BY <3>1, <3>2, <3>3, <3>4
  <2>9. CASE name = "audit_logs"
    <3>1. V12[name] = Trail
      BY <2>1, <2>9
    <3>2. Models[name] = TenderModels["audit_logs"]
      BY <1>5, <2>9
    <3>3. TenderModels["audit_logs"] = Trail
      BY ChangedTables DEF TenderModels, AuditLogs, OfTender
    <3> QED BY <3>1, <3>2, <3>3
  <2>10. CASE name = "past_projects"
    <3>1. V12[name] = Project5
      BY <2>1, <2>10
    <3>2. Models[name] = ScreeningModels["past_projects"]
      BY <1>5, <2>10
    <3>3. ScreeningModels["past_projects"] = Project5
      BY ChangedTables DEF ScreeningModels, AuditLogs, OfTender
    <3> QED BY <3>1, <3>2, <3>3
  <2>11. CASE name = "work_types"
    <3>1. V12[name] = Made[Order[11]]
      BY <2>1, <2>11 DEF Order
    <3>2. Models[name] = ScreeningModels["work_types"]
      BY <1>5, <2>11
    <3>3. Made[Order[11]] = eligibility_screening[1].as
      BY MadeIs DEF Makes
    <3>4. ScreeningModels["work_types"] = eligibility_screening[1].as
      BY DEF ScreeningModels, eligibility_screening, CreateTable, OfTender, OfScreening, OfWorkType, OfProject
    <3> QED BY <3>1, <3>2, <3>3, <3>4
  <2>12. CASE name = "work_type_aliases"
    <3>1. V12[name] = Made[Order[12]]
      BY <2>1, <2>12 DEF Order
    <3>2. Models[name] = ScreeningModels["work_type_aliases"]
      BY <1>5, <2>12
    <3>3. Made[Order[12]] = eligibility_screening[2].as
      BY MadeIs DEF Makes
    <3>4. ScreeningModels["work_type_aliases"] = eligibility_screening[2].as
      BY DEF ScreeningModels, eligibility_screening, CreateTable, OfTender, OfScreening, OfWorkType, OfProject
    <3> QED BY <3>1, <3>2, <3>3, <3>4
  <2>13. CASE name = "past_project_work_types"
    <3>1. V12[name] = Made[Order[13]]
      BY <2>1, <2>13 DEF Order
    <3>2. Models[name] = ScreeningModels["past_project_work_types"]
      BY <1>5, <2>13
    <3>3. Made[Order[13]] = eligibility_screening[3].as
      BY MadeIs DEF Makes
    <3>4. ScreeningModels["past_project_work_types"] = eligibility_screening[3].as
      BY DEF ScreeningModels, eligibility_screening, CreateTable, OfTender, OfScreening, OfWorkType, OfProject
    <3> QED BY <3>1, <3>2, <3>3, <3>4
  <2>14. CASE name = "company_turnover"
    <3>1. V12[name] = Made[Order[14]]
      BY <2>1, <2>14 DEF Order
    <3>2. Models[name] = ScreeningModels["company_turnover"]
      BY <1>5, <2>14
    <3>3. Made[Order[14]] = eligibility_screening[4].as
      BY MadeIs DEF Makes
    <3>4. ScreeningModels["company_turnover"] = eligibility_screening[4].as
      BY DEF ScreeningModels, eligibility_screening, CreateTable, OfTender, OfScreening, OfWorkType, OfProject
    <3> QED BY <3>1, <3>2, <3>3, <3>4
  <2>15. CASE name = "tender_eligibility"
    <3>1. V12[name] = Made[Order[15]]
      BY <2>1, <2>15 DEF Order
    <3>2. Models[name] = ScreeningModels["tender_eligibility"]
      BY <1>5, <2>15
    <3>3. Made[Order[15]] = eligibility_screening[5].as
      BY MadeIs DEF Makes
    <3>4. ScreeningModels["tender_eligibility"] = eligibility_screening[5].as
      BY DEF ScreeningModels, eligibility_screening, CreateTable, OfTender, OfScreening, OfWorkType, OfProject
    <3> QED BY <3>1, <3>2, <3>3, <3>4
  <2>16. CASE name = "tender_eligibility_work_types"
    <3>1. V12[name] = Made[Order[16]]
      BY <2>1, <2>16 DEF Order
    <3>2. Models[name] = ScreeningModels["tender_eligibility_work_types"]
      BY <1>5, <2>16
    <3>3. Made[Order[16]] = eligibility_screening[6].as
      BY MadeIs DEF Makes
    <3>4. ScreeningModels["tender_eligibility_work_types"] = eligibility_screening[6].as
      BY DEF ScreeningModels, eligibility_screening, CreateTable, OfTender, OfScreening, OfWorkType, OfProject
    <3> QED BY <3>1, <3>2, <3>3, <3>4
  <2>17. CASE name = "tender_eligibility_projects"
    <3>1. V12[name] = Made[Order[17]]
      BY <2>1, <2>17 DEF Order
    <3>2. Models[name] = ScreeningModels["tender_eligibility_projects"]
      BY <1>5, <2>17
    <3>3. Made[Order[17]] = eligibility_screening[7].as
      BY MadeIs DEF Makes
    <3>4. ScreeningModels["tender_eligibility_projects"] = eligibility_screening[7].as
      BY DEF ScreeningModels, eligibility_screening, CreateTable, OfTender, OfScreening, OfWorkType, OfProject
    <3> QED BY <3>1, <3>2, <3>3, <3>4
  <2>18. CASE name = "portfolio_version"
    <3>1. V12[name] = Made[Order[18]]
      BY <2>1, <2>18 DEF Order
    <3>2. Models[name] = ScreeningModels["portfolio_version"]
      BY <1>5, <2>18
    <3>3. Made[Order[18]] = eligibility_screening[8].as
      BY MadeIs DEF Makes
    <3>4. ScreeningModels["portfolio_version"] = eligibility_screening[8].as
      BY DEF ScreeningModels, eligibility_screening, CreateTable, OfTender, OfScreening, OfWorkType, OfProject
    <3> QED BY <3>1, <3>2, <3>3, <3>4
  <2> QED BY <2>2, <2>3, <2>4, <2>5, <2>6, <2>7, <2>8, <2>9, <2>10, <2>11, <2>12, <2>13, <2>14, <2>15,
       <2>16, <2>17, <2>18
<1> QED BY <1>1, <1>3, <1>4, <1>5, <1>6

-----------------------------------------------------------------------------
(* Theorems *)

LEMMA NextKeeps == IInv /\ [Next]_vars => IInv'
<1> SUFFICES ASSUME IInv, [Next]_vars PROVE IInv'
  OBVIOUS
<1>1. ASSUME NEW revision \in 0..Latest, Begin(revision) PROVE IInv'
  BY <1>1, BeginKeeps
<1>2. CASE Step
  BY <1>2, StepKeeps
<1>3. CASE Stamp
  BY <1>3, StampKeeps
<1>4. CASE Commit
  BY <1>4, CommitKeeps
<1>5. CASE RollBack
  BY <1>5, RollBackKeeps
<1>6. ASSUME NEW e \in Emails, SignUp(e) \/ DeleteUser(e) \/ SaveReview(e) PROVE IInv'
  BY <1>6, SignUpKeeps, DeleteUserKeeps, SaveReviewKeeps
<1>7. ASSUME NEW e \in Emails, NEW by \in Emails, CreateRoleAssignment(e, by) PROVE IInv'
  BY <1>7, CreateRoleAssignmentKeeps
<1>8. CASE UNCHANGED vars
  BY <1>8 DEF vars, IInv, CommandInv, RolesInv, StandInv, Shaped, Typed, Named, UsersStand,
              GrantsStand, VerdictsStand, Tables
<1> QED BY <1>1, <1>2, <1>3, <1>4, <1>5, <1>6, <1>7, <1>8 DEF Next

\* Whatever the addresses: a command goes one way and touches what it must, roles are named from
\* the collapse of roles on, and what a command has done so far keeps what counts.
THEOREM Invariant == Spec => []IInv
<1> QED BY Initially, NextKeeps, PTL DEF Spec

\* The rows in hand are rows their tables admit at every operation of a command; and every
\* committed account has a role that UserRole still names, from the collapse of roles on, however
\* often the database was taken down and up again.
THEOREM TypesHold == Spec => []TypeOK
<1>1. IInv => TypeOK
  BY DEF IInv, Typed, RolesInv, Named, TypeOK
<1> QED BY <1>1, Invariant, PTL

\* No command, up or down, over however many revisions, moves anybody into or out of an elevated
\* role, or loses an account, a consumed assignment or a verdict whose table it leaves standing.
THEOREM RecordsAreKept == Spec => RecordsStand
<1> DEFINE Kept ==
      Commit =>
        /\ "users" \in Tables(db') =>
             \A e \in Emails :
               /\ db.users[e] # None => db'.users[e] # None
               /\ db.users[e] \in Elevated \/ db'.users[e] \in Elevated => db'.users[e] = db.users[e]
        /\ "role_assignments" \in Tables(db') =>
             \A e \in Emails :
               db.grants[e] # None /\ db.grants[e].consumed => db'.grants[e] = db.grants[e]
        /\ "tender_reviews" \in Tables(db') =>
             \A r \in db.reviews : r.verdict => \E s \in db'.reviews : s.by = r.by /\ s.verdict
<1>1. IInv /\ [Next]_vars => [Kept]_vars
  <2> SUFFICES ASSUME IInv, Commit PROVE Kept
    BY DEF Kept
  <2>1. db' = tx /\ cmd # None
    BY DEF Commit, Idle
  <2>2. /\ UsersStand(db, tx) \/ "users" \notin Tables(tx)
        /\ GrantsStand(db, tx) \/ "role_assignments" \notin Tables(tx)
        /\ VerdictsStand(db, tx) \/ "tender_reviews" \notin Tables(tx)
    BY <2>1 DEF IInv, StandInv
  <2> QED BY <2>1, <2>2 DEF UsersStand, GrantsStand, VerdictsStand
<1> HIDE DEF Kept
<1>2. Spec => [][Kept]_vars
  BY <1>1, Invariant, PTL DEF Spec
<1> QED BY <1>2 DEF RecordsStand, Kept

LEMMA TablesInvariant == Spec => [](IInv /\ RevisionInv)
<1>1. IInv /\ RevisionInv /\ [Next]_vars => (IInv /\ RevisionInv)'
  BY NextKeeps, NextKeepsTables
<1> QED BY Initially, InitiallyTables, <1>1, PTL DEF Spec

\* Whatever the addresses, the rows and the way to a revision: of all the operations of all the
\* commands only the one that would undo the retirement is refused; no other meets a table, a
\* column, an index or a row it cannot work on.
THEOREM OnlyRetirement == Spec => []OnlyRetirementRefuses
<1>1. IInv /\ RevisionInv => OnlyRetirementRefuses
  <2> SUFFICES ASSUME IInv, RevisionInv, Pending, Refused(Operations[cmd.next], tx),
                      Operations[cmd.next].do # "refuse"
               PROVE  FALSE
    BY DEF OnlyRetirementRefuses
  <2> PICK op : op = Operations[cmd.next]
    OBVIOUS
  <2>1. Shaped(tx) /\ Typed(db) /\ Typed(tx) /\ CommandInv
    BY DEF IInv
  <2>2. /\ cmd # None /\ cmd.to # tx.at /\ cmd.next <= Len(Operations)
        /\ cmd \in [to : 0..Latest, next : Nat \ {0}]
    BY <2>1 DEF Pending, Idle, CommandInv
  <2>3. \/ /\ Upgrading /\ cmd.to > tx.at /\ tx.at + 1 \in 1..Latest /\ Operations = Up(tx.at + 1)
        \/ /\ ~Upgrading /\ cmd.to < tx.at /\ tx.at \in 1..Latest /\ Operations = Down(tx.at)
    <3>1. cmd.to \in 0..12 /\ tx.at \in 0..12
      BY <2>1, <2>2, Twelve DEF Typed
    <3> QED BY <2>1, <2>2, <3>1, OperationsAre DEF Upgrading
  <2>4. cmd.next \in 1..Len(Operations)
    <3>1. Len(Operations) \in Nat
      BY <2>3, ListLengths
    <3> QED BY <2>2, <3>1
  <2>5. /\ tx.schema = Run(Operations, SchemaOf(tx.at), cmd.next - 1)
        /\ cmd.to < tx.at /\ tx.at = 11 => cmd.next = 1
    BY <2>2 DEF RevisionInv, TablesInv
  <2>6. ~(cmd.to < tx.at /\ tx.at = 11 /\ Operations = Down(11))
    BY <2>5, ListsMarked
  <2>7. \E s : Runs(Operations, SchemaOf(tx.at), s)
    <3>1. CASE tx.at + 1 \in 1..Latest /\ Operations = Up(tx.at + 1)
      <4>1. PICK r \in 1..Latest : r = tx.at + 1 /\ r - 1 = tx.at
        <5>1. tx.at \in 0..12
          BY <2>1, Twelve DEF Typed
        <5> QED BY <3>1, <5>1
      <4> QED BY <3>1, <4>1, ListsRun
    <3>2. CASE cmd.to < tx.at /\ tx.at \in 1..Latest /\ Operations = Down(tx.at)
      BY <2>6, <3>2, ListsRun
    <3> QED BY <2>3, <3>1, <3>2
  <2>8. ~Refused(op, Bare(tx.schema))
    BY <2>4, <2>5, <2>7 DEF Runs
  <2>9. op.do = "require" /\ \E r \in tx.reviews : IsNull(r, op.column)
    BY <2>1, <2>8, RefusedIs
  <2>10. CASE cmd.to > tx.at /\ tx.at + 1 \in 1..Latest /\ Operations = Up(tx.at + 1)
    <3>1. tx.at + 1 = 6
      <4>1. tx.at + 1 # 6 => Plain(Operations)
        BY <2>10, ListsMarked
      <4> QED BY <2>4, <2>9, <4>1 DEF Plain
    <3>2. cmd.next = 3 /\ op.column = "kind"
      BY <2>4, <2>9, <2>10, <3>1, ListsMarked DEF Filling
    <3>3. Kinded(tx)
      <4>1. tx.at = 5
        BY <2>1, <3>1, Twelve DEF Typed
      <4> QED BY <2>2, <2>10, <3>2, <4>1 DEF RevisionInv, ReviewsInv
    <3> QED BY <2>9, <3>2, <3>3 DEF IsNull, Kinded
  <2>11. CASE cmd.to < tx.at /\ tx.at \in 1..Latest /\ Operations = Down(tx.at)
    <3>1. tx.at = 6
      <4>1. tx.at # 6 => Plain(Operations)
        BY <2>6, <2>11, ListsMarked
      <4> QED BY <2>4, <2>9, <4>1 DEF Plain
    <3>2. cmd.next = 3 /\ op.column = "verdict"
      BY <2>4, <2>9, <2>11, <3>1, ListsMarked DEF Emptying
    <3>3. Uncorrected(tx) /\ Telling(tx)
      BY <2>2, <2>11, <3>1, <3>2 DEF RevisionInv, ReviewsInv
    <3> QED BY <2>9, <3>2, <3>3 DEF IsNull, Uncorrected, Telling
  <2> QED BY <2>3, <2>10, <2>11
<1> QED BY <1>1, TablesInvariant, PTL

\* The committed tables are what the upgrades up to their revision make of nothing, however many
\* commands went up and down, were refused or were killed on the way there.
THEOREM SchemaStands == Spec => []SchemaOfRevision
<1>1. IInv /\ RevisionInv => SchemaOfRevision
  BY SchemaAtIs DEF IInv, Typed, RevisionInv, TablesInv, SchemaOfRevision
<1> QED BY <1>1, TablesInvariant, PTL

\* A database at the last revision has the tables, columns, indexes and references that the models
\* of the program map, no more and no fewer.
THEOREM ModelsExpected == Spec => []LatestIsModels
<1>1. IInv /\ RevisionInv => LatestIsModels
  BY ModelsAre, Twelve DEF RevisionInv, TablesInv, LatestIsModels
<1> QED BY <1>1, TablesInvariant, PTL
=============================================================================
