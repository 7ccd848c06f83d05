------------------------------- MODULE Accounts -------------------------------
(***************************************************************************)
(* Accounts, the sessions they sign in with, and the roles they hold: the  *)
(* requests of /auth and /admin and the commands of scripts/manage.py.     *)
(*                                                                         *)
(* A request reads rows, decides, and writes them back whole in one        *)
(* transaction.  Repository.update() selects the row once more and writes  *)
(* the columns in which the entity in hand differs from what it selects:   *)
(* "load" is that select, "commit" the UPDATE and the commit.  A write     *)
(* holds its row until the commit, so the two of them are one step.        *)
(***************************************************************************)
EXTENDS Integers, FiniteSets

CONSTANTS
  Emails,      \* normalised addresses
  Domain,      \* the part after the last "@" of each
  Allowed,     \* ALLOWED_EMAIL_DOMAINS
  Exceptions,  \* ALLOWED_EMAIL_EXCEPTIONS
  Subjects,    \* people, as Google names them
  Requests,    \* requests and commands in flight at once
  RolesAsked,  \* the roles administrators hand out
  MaxKeys,     \* bound on the rows ever inserted
  MaxBegun,    \* bound on the requests begun
  None         \* no row

\* UserRole and its levels.
Level == [EMPLOYEE |-> 20, MANAGER |-> 30, ADMIN |-> 40, SUPER_ADMIN |-> 50]
UserRole == DOMAIN Level
ELEVATED_ROLES == UserRole \ {"EMPLOYEE"}
AtMost(role, other) == Level[role] <= Level[other]

ASSUME AccountsAssumption ==
  /\ Exceptions \subseteq Emails /\ DOMAIN Domain = Emails
  /\ RolesAsked \subseteq UserRole
  /\ MaxKeys \in Nat /\ MaxBegun \in Nat

\* Row ids are never reused.
Keys == 1..MaxKeys
Columns == {"email", "role", "active", "google_sub", "password"}
Account ==
  [email : Emails, role : UserRole, active : BOOLEAN, google_sub : Subjects \cup {None},
   password : BOOLEAN]
Grant == [email : Emails, role : ELEVATED_ROLES, consumed : BOOLEAN]
\* "dead" is revoked or past expires_at.
Session == [user : Keys, state : {"live", "dead"}, parent : Keys \cup {None}]

ASSUME NoneIsNoRow ==
  None \notin Keys \cup Account \cup Grant \cup Session \cup UserRole \cup Subjects

VARIABLES
  overlap,   \* FALSE: no request starts while another is in flight
  used,      \* the ids of every row ever inserted
  users,     \* users
  grants,    \* role_assignments
  sessions,  \* user_sessions, each with the one it was refreshed from
  begun,     \* requests begun
  minted,    \* accounts that bootstrap has created
  req        \* what each request has in hand

vars == <<overlap, used, users, grants, sessions, minted, begun, req>>

Has(table, k) == table[k] # None
AccountOf(e) == {u \in Keys : Has(users, u) /\ users[u].email = e}
SubjectOf(s) == {u \in Keys : Has(users, u) /\ s # None /\ users[u].google_sub = s}
GrantOf(e) == {g \in Keys : Has(grants, g) /\ grants[g].email = e}

\* assert_org_email.
Admitted(e) == e \in Exceptions \/ Domain[e] \in Allowed

\* _admit_google: the hosted domain Google vouches for must agree, when it names one.
AdmittedByGoogle(e, hosted) ==
  e \in Exceptions \/ (hosted \in Allowed \cup {None} /\ Domain[e] \in Allowed)

\* A request with nothing in hand: what it does, how far it is, the account it
\* acts as with the role read then, the account it is about, the entity it
\* writes, the other row it needs, and the columns it found different.
Blank ==
  [op |-> "none", at |-> "idle", actor |-> None, by |-> None, target |-> None,
   new |-> None, key |-> None, dirty |-> {}]

\* Migration d4a1e9c5b872 puts the first administrator on the list, or nobody.
Init ==
  /\ overlap \in BOOLEAN
  /\ used \in {{}, {1} \cap Keys}
  /\ users = [k \in Keys |-> None]
  /\ \E e \in Emails : grants = [k \in Keys |->
       IF k \in used THEN [email |-> e, role |-> "SUPER_ADMIN", consumed |-> FALSE] ELSE None]
  /\ sessions = [k \in Keys |-> None]
  /\ minted = 0 /\ begun = 0
  /\ req = [p \in Requests |-> Blank]

Starts(p) ==
  begun < MaxBegun /\ req[p] = Blank /\ (overlap \/ \A q \in Requests : req[q] = Blank)
\* What p has in hand from now on.
Holding(p, r) ==
  /\ req' = [req EXCEPT ![p] = r]
  /\ begun' = IF req[p] = Blank THEN begun + 1 ELSE begun
Done(p) == Holding(p, Blank)
At(p, op, stage) == req[p].op = op /\ req[p].at = stage
tables == <<used, users, grants, sessions>>
Reads == UNCHANGED <<overlap, tables, minted>>

\* The next id.
Fresh(k) == k \in Keys \ used /\ \A j \in Keys : j < k => j \in used

\* _issue_pair: the session of a refresh token never seen before.
Issue(t, u, parent) ==
  /\ Fresh(t) /\ used' = used \cup {t}
  /\ sessions' = [sessions EXCEPT ![t] = [user |-> u, state |-> "live", parent |-> parent]]

\* A domain error, a missing row, a violated constraint or a crash: the
\* transaction leaves nothing.
Fail(p) == req[p] # Blank /\ Done(p) /\ Reads

-----------------------------------------------------------------------------
\* AuthService: signing in.

\* The account an address is born with: the role on the elevation list, or EMPLOYEE.
\* A row already consumed refuses the account.
NewAccount(e, sub, password) ==
  LET role == IF GrantOf(e) = {} THEN "EMPLOYEE"
              ELSE grants[CHOOSE g \in GrantOf(e) : TRUE].role
  IN  [email |-> e, role |-> role, active |-> TRUE, google_sub |-> sub, password |-> password]

Creates(p, op, account) ==
  LET e == account.email IN
  /\ AccountOf(e) = {} /\ \A g \in GrantOf(e) : ~grants[g].consumed
  /\ Holding(p, [Blank EXCEPT !.op = op, !.at = "decided", !.new = account,
                   !.key = IF GrantOf(e) = {} THEN None ELSE CHOOSE g \in GrantOf(e) : TRUE])
  /\ Reads

\* POST /auth/register.
Register(p) ==
  /\ Starts(p)
  /\ \E e \in Emails : Admitted(e) /\ Creates(p, "create", NewAccount(e, None, TRUE))

\* scripts/create_default_user.py registers too.
CmdDefaultUser(p) == Register(p)

\* manage.py bootstrap: register, then make it a SUPER_ADMIN.
Bootstrap(p) ==
  /\ Starts(p)
  /\ \A u \in Keys : Has(users, u) => users[u].role # "SUPER_ADMIN"
  /\ \E e \in Emails : Admitted(e) /\
       Creates(p, "bootstrap", [NewAccount(e, None, TRUE) EXCEPT !.role = "SUPER_ADMIN"])

\* Mutant of Consume: the row is left as it is.
ConsumeNothing(k) == grants

\* RoleAssignment.consume, for the row that elevated the account.
Consume(k) ==
  [g \in Keys |-> IF g = k THEN [grants[g] EXCEPT !.consumed = TRUE] ELSE grants[g]]

\* The account, the use of its assignment, and a first session, in one transaction.
CommitCreate(p) ==
  \E op \in {"create", "bootstrap"} : LET r == req[p] IN
  /\ At(p, op, "decided") /\ AccountOf(r.new.email) = {} /\ SubjectOf(r.new.google_sub) = {}
  /\ r.key # None => Has(grants, r.key)
  /\ \E u, t \in Keys :
       /\ Fresh(u) /\ t = u + 1
       /\ used' = used \cup {u, t}
       /\ users' = [users EXCEPT ![u] = r.new]
       /\ sessions' = [sessions EXCEPT ![t] = [user |-> u, state |-> "live", parent |-> None]]
  /\ grants' = Consume(r.key)
  /\ minted' = IF op = "bootstrap" THEN minted + 1 ELSE minted
  /\ Done(p) /\ UNCHANGED overlap

\* An entity in hand, for update().
Edits(p, r, op, u, entity) ==
  /\ Holding(p, [r EXCEPT !.op = op, !.at = "decided", !.target = u, !.new = entity])
  /\ Reads

\* POST /auth/login.
Login(p) ==
  /\ Starts(p)
  /\ \E u \in Keys :
       /\ Has(users, u) /\ users[u].password /\ users[u].active
       /\ Edits(p, Blank, "login", u, users[u])

\* POST /auth/google: sign in whom Google names, whatever the address says now; else
\* link the address's account to them, or create it.
GoogleLogin(p) ==
  /\ Starts(p)
  /\ \E e \in Emails, sub \in Subjects, hosted \in Allowed \cup {None} :
       /\ AdmittedByGoogle(e, hosted)
       /\ \/ /\ SubjectOf(sub) = {} /\ AccountOf(e) = {}
             /\ Creates(p, "create", NewAccount(e, sub, FALSE))
          \/ \E u \in IF SubjectOf(sub) # {} THEN SubjectOf(sub) ELSE AccountOf(e) :
               /\ users[u].active
               /\ Edits(p, Blank, "login", u, [users[u] EXCEPT !.google_sub = sub])

\* update() selects the row: what is written is where the entity differs.
Load(p) ==
  LET r == req[p] IN
  /\ r.op \in {"login", "role", "active"} /\ r.at = "decided" /\ Has(users, r.target)
  /\ Holding(p, [r EXCEPT !.at = "loaded",
                   !.dirty = {c \in Columns : r.new[c] # users[r.target][c]}])
  /\ Reads

\* The row once the loaded columns are written.
Written(p) ==
  [c \in Columns |-> IF c \in req[p].dirty THEN req[p].new[c] ELSE users[req[p].target][c]]

\* The subject is unique.
CommitLogin(p) ==
  LET u == req[p].target IN
  /\ At(p, "login", "loaded") /\ Has(users, u) /\ SubjectOf(Written(p).google_sub) \subseteq {u}
  /\ users' = [users EXCEPT ![u] = Written(p)]
  /\ \E t \in Keys : Issue(t, u, None)
  /\ Done(p) /\ UNCHANGED <<overlap, grants, minted>>

-----------------------------------------------------------------------------
\* AuthService: refresh and logout.

Live(t) == Has(sessions, t) /\ sessions[t].state = "live"

Refresh(p) ==
  /\ Starts(p)
  /\ \E t \in Keys :
       /\ Live(t) /\ Has(users, sessions[t].user) /\ users[sessions[t].user].active
       /\ Holding(p, [Blank EXCEPT !.op = "refresh", !.at = "decided", !.key = t,
                        !.target = sessions[t].user])
  /\ Reads

\* Mutant of CommitRefresh: the presented session is left as it is.
CommitRefreshKeeping(p) ==
  LET r == req[p] IN
  /\ At(p, "refresh", "decided") /\ Has(sessions, r.key) /\ Has(users, r.target)
  /\ \E t \in Keys : Issue(t, r.target, r.key)
  /\ Done(p) /\ UNCHANGED <<overlap, users, grants, minted>>

\* Rotate: revoke the presented session, issue a fresh pair.
CommitRefresh(p) ==
  LET r == req[p] IN
  /\ At(p, "refresh", "decided") /\ Has(sessions, r.key) /\ Has(users, r.target)
  /\ \E t \in Keys :
       /\ Fresh(t) /\ used' = used \cup {t}
       /\ sessions' = [sessions EXCEPT
            ![r.key].state = "dead",
            ![t] = [user |-> r.target, state |-> "live", parent |-> r.key]]
  /\ Done(p) /\ UNCHANGED <<overlap, users, grants, minted>>

Logout(p) ==
  /\ Starts(p)
  /\ \E t \in Keys : Live(t) /\ Holding(p, [Blank EXCEPT !.op = "logout", !.at = "decided", !.key = t])
  /\ Reads

CommitLogout(p) ==
  /\ At(p, "logout", "decided") /\ Has(sessions, req[p].key)
  /\ sessions' = [sessions EXCEPT ![req[p].key].state = "dead"]
  /\ Done(p) /\ UNCHANGED <<overlap, used, users, grants, minted>>

\* expires_at passes.
Expire(t) ==
  /\ Live(t)
  /\ sessions' = [sessions EXCEPT ![t].state = "dead"]
  /\ UNCHANGED <<overlap, used, users, grants, minted, begun, req>>

-----------------------------------------------------------------------------
\* AdminService, for /admin and for manage.py.

\* get_current_user, or the command line's --actor: an active account.
SignedIn(a) == Has(users, a) /\ users[a].active

Admit(p) ==
  /\ Starts(p)
  /\ \E a \in Keys :
       /\ SignedIn(a)
       /\ Holding(p, [Blank EXCEPT !.op = "admin", !.at = "admitted", !.actor = a,
                        !.by = users[a].role])
  /\ Reads
Admitting(p) == At(p, "admin", "admitted")

\* require_role.
May(p, minimum) == Admitting(p) /\ AtMost(minimum, req[p].by)

\* _require_authority_over.
Over(p, u) == Has(users, u) /\ AtMost(users[u].role, req[p].by)

\* Mutant of ChangeRole: a role above one's own may be assigned.
ChangeRoleUpwards(p) ==
  /\ Admitting(p)
  /\ \E u \in Keys, role \in RolesAsked :
       /\ Over(p, u) /\ users[u].role # role
       /\ Edits(p, req[p], "role", u, [users[u] EXCEPT !.role = role])

ChangeRole(p) ==
  /\ Admitting(p)
  /\ \E u \in Keys, role \in RolesAsked :
       /\ Over(p, u) /\ AtMost(role, req[p].by) /\ users[u].role # role
       /\ Edits(p, req[p], "role", u, [users[u] EXCEPT !.role = role])

CommitRole(p) ==
  /\ At(p, "role", "loaded") /\ Has(users, req[p].target)
  /\ users' = [users EXCEPT ![req[p].target] = Written(p)]
  /\ Done(p) /\ UNCHANGED <<overlap, used, grants, sessions, minted>>

SetActive(p, active) ==
  /\ Admitting(p)
  /\ \E u \in Keys :
       /\ Over(p, u) /\ (u = req[p].actor => active) /\ users[u].active # active
       /\ Edits(p, req[p], "active", u, [users[u] EXCEPT !.active = active])

\* Mutant of Revoked: the sessions outlive the account's deactivation.
RevokedNone(u) == sessions

\* _revoke_sessions.
Revoked(u) ==
  [t \in Keys |-> IF Live(t) /\ sessions[t].user = u
                    THEN [sessions[t] EXCEPT !.state = "dead"] ELSE sessions[t]]

CommitActive(p) ==
  LET r == req[p] IN
  /\ At(p, "active", "loaded") /\ Has(users, r.target)
  /\ users' = [users EXCEPT ![r.target] = Written(p)]
  /\ sessions' = IF r.new.active THEN sessions ELSE Revoked(r.target)
  /\ Done(p) /\ UNCHANGED <<overlap, used, grants, minted>>

DeleteUser(p) ==
  /\ May(p, "SUPER_ADMIN")
  /\ \E u \in Keys \ {req[p].actor} :
       Has(users, u) /\ Holding(p, [req[p] EXCEPT !.op = "delete", !.at = "decided", !.target = u])
  /\ Reads

\* The row, and by ON DELETE CASCADE its sessions.
CommitDelete(p) ==
  LET u == req[p].target IN
  /\ At(p, "delete", "decided")
  /\ users' = [users EXCEPT ![u] = None]
  /\ sessions' = [t \in Keys |->
       IF Has(sessions, t) /\ sessions[t].user = u THEN None ELSE sessions[t]]
  /\ Done(p) /\ UNCHANGED <<overlap, used, grants, minted>>

\* Mutant of Elevating: an EMPLOYEE may wait on the list.
AnyRole == RolesAsked

\* What may be pre-provisioned.
Elevating == RolesAsked \cap ELEVATED_ROLES

\* Mutant of CreateRoleAssignment: a live account is not looked for.
CreateRoleAssignmentAnyway(p) ==
  /\ Admitting(p)
  /\ \E e \in Emails, role \in Elevating :
       /\ AtMost(role, req[p].by) /\ Admitted(e) /\ GrantOf(e) = {}
       /\ Edits(p, req[p], "assign", None,
                [email |-> e, role |-> role, active |-> TRUE,
                 google_sub |-> None, password |-> FALSE])

CreateRoleAssignment(p) ==
  /\ Admitting(p)
  /\ \E e \in Emails, role \in Elevating :
       /\ AtMost(role, req[p].by) /\ Admitted(e)
       /\ AccountOf(e) = {} /\ GrantOf(e) = {}
       /\ Edits(p, req[p], "assign", None,
                [email |-> e, role |-> role, active |-> TRUE,
                 google_sub |-> None, password |-> FALSE])

\* The address is unique, and the assigner a foreign key.
CommitAssignment(p) ==
  LET r == req[p] IN
  /\ At(p, "assign", "decided") /\ GrantOf(r.new.email) = {} /\ Has(users, r.actor)
  /\ \E g \in Keys :
       /\ Fresh(g) /\ used' = used \cup {g}
       /\ grants' = [grants EXCEPT ![g] =
                       [email |-> r.new.email, role |-> r.new.role, consumed |-> FALSE]]
  /\ Done(p) /\ UNCHANGED <<overlap, users, sessions, minted>>

RevokeRoleAssignment(p) ==
  /\ Admitting(p)
  /\ \E g \in Keys :
       /\ Has(grants, g) /\ ~grants[g].consumed /\ AtMost(grants[g].role, req[p].by)
       /\ Holding(p, [req[p] EXCEPT !.op = "revoke", !.at = "decided", !.key = g])
  /\ Reads

CommitRevoke(p) ==
  /\ At(p, "revoke", "decided")
  /\ grants' = [grants EXCEPT ![req[p].key] = None]
  /\ Done(p) /\ UNCHANGED <<overlap, used, users, sessions, minted>>

\* The routes of /admin ask for an ADMIN, ...
PatchRole(p) == May(p, "ADMIN") /\ ChangeRole(p)
PatchActive(p) == May(p, "ADMIN") /\ \E active \in BOOLEAN : SetActive(p, active)
PostRoleAssignment(p) == May(p, "ADMIN") /\ CreateRoleAssignment(p)
DeleteRoleAssignment(p) == May(p, "ADMIN") /\ RevokeRoleAssignment(p)

\* ... and the commands for no role at all.
CmdSetRole(p) == ChangeRole(p)
CmdDeactivate(p) == SetActive(p, FALSE)
CmdPreProvision(p) == CreateRoleAssignment(p)
CmdRevokePreProvision(p) == RevokeRoleAssignment(p)

Sign(p) ==
  \/ Register(p) \/ CmdDefaultUser(p) \/ Bootstrap(p) \/ CommitCreate(p)
  \/ Login(p) \/ GoogleLogin(p) \/ CommitLogin(p)
  \/ Refresh(p) \/ CommitRefresh(p) \/ Logout(p) \/ CommitLogout(p)

Administer(p) ==
  \/ Admit(p) \/ DeleteUser(p)
  \/ PatchRole(p) \/ PatchActive(p) \/ PostRoleAssignment(p) \/ DeleteRoleAssignment(p)
  \/ CmdSetRole(p) \/ CmdDeactivate(p) \/ CmdPreProvision(p) \/ CmdRevokePreProvision(p)
  \/ CommitRole(p) \/ CommitActive(p) \/ CommitDelete(p) \/ CommitAssignment(p)
  \/ CommitRevoke(p)

Next ==
  \/ \E p \in Requests : Sign(p) \/ Load(p) \/ Administer(p) \/ Fail(p)
  \/ \E t \in Keys : Expire(t)

Spec == Init /\ [][Next]_vars

-----------------------------------------------------------------------------
Held ==
  [op : {"none", "create", "bootstrap", "login", "refresh", "logout", "admin", "role",
         "active", "delete", "assign", "revoke"},
   at : {"idle", "decided", "loaded", "admitted"},
   actor : Keys \cup {None}, by : UserRole \cup {None}, target : Keys \cup {None},
   new : Account \cup {None}, key : Keys \cup {None}, dirty : SUBSET Columns]

TypeOK ==
  /\ overlap \in BOOLEAN /\ used \subseteq Keys /\ minted \in Nat
  /\ users \in [Keys -> Account \cup {None}]
  /\ grants \in [Keys -> Grant \cup {None}]
  /\ sessions \in [Keys -> Session \cup {None}]
  /\ req \in [Requests -> Held]

\* Authority of a role: an account has it, somebody on the list will, or a
\* request in flight acts with it or is about to write it.
Authority(role) ==
  \/ \E u \in Keys : Has(users, u) /\ AtMost(role, users[u].role)
  \/ \E g \in Keys : Has(grants, g) /\ ~grants[g].consumed /\ AtMost(role, grants[g].role)
  \/ \E p \in Requests :
       \/ req[p].by # None /\ AtMost(role, req[p].by)
       \/ req[p].new # None /\ AtMost(role, req[p].new.role)

Bootstraps == \E p \in Requests : req[p] = Blank /\ req'[p].op = "bootstrap"

\* "An actor may not ... assign a role above their own", on the list neither,
\* whatever runs beside it: an elevated role comes from somebody at least as
\* high, or from the bootstrap of a system that has no SUPER_ADMIN.
AuthorityOnlyFromAuthority ==
  [][\A role \in ELEVATED_ROLES : Authority(role)' => Authority(role) \/ Bootstraps]_vars

\* An account is born elevated only from the elevation list, and the row that
\* made it so is marked used in the same commit.
ElevationIsSpent ==
  [][\A u \in Keys :
       ~Has(users, u) /\ users'[u] # None /\ minted' = minted
         /\ (users'[u].role \in ELEVATED_ROLES)
       => \E g \in GrantOf(users'[u].email) :
            grants[g].role = users'[u].role /\ grants'[g].consumed]_vars

\* "Deactivation revokes every active session", and none is issued afterwards.
DeactivatedIsSignedOut ==
  ~overlap => \A t \in Keys : Live(t) => users[sessions[t].user].active

\* "Creating one for an address that already has an account is rejected", and
\* the account uses the one it finds: no assignment waits for a live account.
AssignmentAwaitsAccount ==
  ~overlap => \A g \in Keys :
    Has(grants, g) /\ ~grants[g].consumed => AccountOf(grants[g].email) = {}

\* "The presented session is revoked and a fresh pair issued": a token that was
\* refreshed is live no more, and nothing else was issued for it.
TokenSpentOnce ==
  \A t \in Keys : Has(sessions, t) /\ sessions[t].parent # None =>
    /\ ~Live(sessions[t].parent)
    /\ ~overlap => \A s \in Keys \ {t} :
         Has(sessions, s) => sessions[s].parent # sessions[t].parent

\* "Deactivation ends that person's access immediately": an account is active
\* again only once somebody activates it.
DeactivationHolds ==
  [][\A u \in Keys : Has(users, u) /\ ~users[u].active /\ users'[u] # None /\ users'[u].active
       => \E p \in Requests : At(p, "active", "loaded") /\ req[p].new.active]_vars

\* bootstrap "refuses as soon as any SUPER_ADMIN exists - so it can never mint a
\* second one".
MintsOnce == minted <= 1

\* "A consumed row is history": it is not deleted.
ConsumedIsKept ==
  [][\A g \in Keys : Has(grants, g) /\ grants[g].consumed => grants'[g] # None]_vars

\* An admitted address without an account may always get one.
AdmittedMayJoin ==
  \A e \in Emails : Admitted(e) /\ AccountOf(e) = {} =>
    \A g \in GrantOf(e) : ~grants[g].consumed
=============================================================================
