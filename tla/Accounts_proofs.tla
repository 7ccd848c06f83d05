--------------------------- MODULE Accounts_proofs ---------------------------
(***************************************************************************)
(* Theorems about Accounts, for any addresses, requests and bounds: the    *)
(* tables keep their types, and no interleaving of requests makes a role   *)
(* out of less.                                                            *)
(***************************************************************************)
EXTENDS Accounts, TLAPS

\* A request that is about to use an account, an entity, a row or a role has one.
Hand(r) ==
  /\ r.op \in {"create", "bootstrap", "login", "role", "active", "assign"} => r.new \in Account
  /\ r.op \in {"login", "role", "active", "refresh", "delete"} => r.target \in Keys
  /\ r.op \in {"refresh", "logout", "revoke"} => r.key \in Keys
  /\ r.op = "admin" => r.actor \in Keys /\ r.by \in UserRole
  /\ r.op = "assign" => r.new.role \in ELEVATED_ROLES

HandInv == \A p \in Requests : Hand(req[p])
TypeInv == TypeOK /\ HandInv

-----------------------------------------------------------------------------
\* The order of the roles.

LEMMA Roles ==
  /\ UserRole = {"EMPLOYEE", "MANAGER", "ADMIN", "SUPER_ADMIN"}
  /\ \A role \in UserRole : Level[role] \in Nat
BY DEF UserRole, Level

LEMMA AtMostTransitive ==
  ASSUME NEW a \in UserRole, NEW b \in UserRole, NEW c \in UserRole, AtMost(a, b), AtMost(b, c)
  PROVE  AtMost(a, c)
BY Roles DEF AtMost

LEMMA EmployeeIsLowest == \A role \in ELEVATED_ROLES : ~AtMost(role, "EMPLOYEE")
BY Roles DEF ELEVATED_ROLES, AtMost, Level, UserRole

LEMMA NoneIsNone ==
  None \notin Keys /\ None \notin Account /\ None \notin Grant /\ None \notin Session /\ None \notin UserRole
BY NoneIsNoRow

LEMMA Chosen == ASSUME NEW S, S # {} PROVE (CHOOSE x \in S : TRUE) \in S
OBVIOUS

-----------------------------------------------------------------------------
\* A request with nothing in hand.
LEMMA BlankHeld == Blank \in Held /\ Hand(Blank)
BY DEF Blank, Held, Hand

\* What a request has in hand from now on is all that a step without a write changes.
LEMMA HoldingTyped ==
  ASSUME TypeInv, NEW p \in Requests, NEW r \in Held, Hand(r), Holding(p, r)
  PROVE  req' \in [Requests -> Held] /\ HandInv'
BY DEF TypeInv, TypeOK, HandInv, Holding

LEMMA Reading ==
  ASSUME TypeInv, NEW p \in Requests, NEW r \in Held, Hand(r), Holding(p, r), Reads
  PROVE  TypeInv'
BY HoldingTyped DEF TypeInv, TypeOK, Reads, tables

LEMMA DoneTyped ==
  ASSUME TypeInv, NEW p \in Requests, Done(p)
  PROVE  req' \in [Requests -> Held] /\ HandInv'
BY HoldingTyped, BlankHeld DEF Done

\* An entity in hand.
LEMMA EntityInHand ==
  ASSUME TypeInv, NEW p \in Requests, NEW r \in Held, NEW u \in Keys, NEW entity \in Account,
         NEW op \in {"login", "role", "active"}, Edits(p, r, op, u, entity)
  PROVE  TypeInv'
<1> DEFINE q == [r EXCEPT !.op = op, !.at = "decided", !.target = u, !.new = entity]
<1>1. q \in Held /\ Hand(q)
  BY DEF Held, Hand
<1> QED BY <1>1, Reading DEF Edits

\* The account an address is born with.
LEMMA NewAccountTyped ==
  ASSUME TypeInv, NEW e \in Emails, NEW sub \in Subjects \cup {None}, NEW password \in BOOLEAN
  PROVE  NewAccount(e, sub, password) \in Account
<1>1. GrantOf(e) # {} => grants[CHOOSE g \in GrantOf(e) : TRUE] \in Grant
  <2> SUFFICES ASSUME GrantOf(e) # {} PROVE grants[CHOOSE g \in GrantOf(e) : TRUE] \in Grant
    OBVIOUS
  <2>1. (CHOOSE g \in GrantOf(e) : TRUE) \in GrantOf(e)
    BY Chosen
  <2> QED BY <2>1 DEF GrantOf, Has, TypeInv, TypeOK
<1>2. "EMPLOYEE" \in UserRole /\ ELEVATED_ROLES \subseteq UserRole
  BY Roles DEF ELEVATED_ROLES
<1> QED BY <1>1, <1>2 DEF NewAccount, Account, Grant

LEMMA PromotedTyped ==
  ASSUME TypeInv, NEW e \in Emails
  PROVE  LET account == [NewAccount(e, None, TRUE) EXCEPT !.role = "SUPER_ADMIN"]
         IN  account \in Account /\ account.active
<1>1. PICK account : account = NewAccount(e, None, TRUE)
  OBVIOUS
<1>2. account \in Account
  BY <1>1, NewAccountTyped
<1>3. account.active
  BY <1>1 DEF NewAccount
<1>4. [account EXCEPT !.role = "SUPER_ADMIN"] \in Account
      /\ [account EXCEPT !.role = "SUPER_ADMIN"].active
  BY <1>2, <1>3, Roles DEF Account
<1> QED BY <1>1, <1>4

LEMMA CreatesTyped ==
  ASSUME TypeInv, NEW p \in Requests, NEW op \in {"create", "bootstrap"}, NEW account \in Account,
         Creates(p, op, account)
  PROVE  TypeInv'
<1> DEFINE e == account.email
           key == IF GrantOf(e) = {} THEN None ELSE CHOOSE g \in GrantOf(e) : TRUE
           r == [Blank EXCEPT !.op = op, !.at = "decided", !.new = account, !.key = key]
<1>1. key \in Keys \cup {None}
  <2>1. GrantOf(e) # {} => (CHOOSE g \in GrantOf(e) : TRUE) \in GrantOf(e)
    BY Chosen
  <2> QED BY <2>1 DEF GrantOf
<1>2. r \in Held /\ Hand(r)
  BY <1>1 DEF Blank, Held, Hand
<1> QED BY <1>2, Reading DEF Creates

\* The row once an entity in hand is written.
LEMMA WrittenTyped ==
  ASSUME TypeInv, NEW p \in Requests, req[p].new \in Account, req[p].target \in Keys,
         Has(users, req[p].target)
  PROVE  /\ Written(p) \in Account
         /\ Written(p).role \in {req[p].new.role, users[req[p].target].role}
<1>1. users[req[p].target] \in Account
  BY DEF TypeInv, TypeOK, Has
<1> QED BY <1>1 DEF Written, Columns, Account

-----------------------------------------------------------------------------
\* Reading requests: what they have in hand afterwards is of the kind its use needs.

\* Google's person is somebody with an account, or gets one.
LEMMA GoogleSigns ==
  ASSUME TypeInv, NEW p \in Requests, GoogleLogin(p)
  PROVE  /\ Starts(p)
         /\ \/ \E e \in Emails, sub \in Subjects : Creates(p, "create", NewAccount(e, sub, FALSE))
            \/ \E u \in Keys, sub \in Subjects :
                 /\ Has(users, u) /\ users[u] \in Account /\ users[u].active
                 /\ Edits(p, Blank, "login", u, [users[u] EXCEPT !.google_sub = sub])
<1>1. PICK e \in Emails, sub \in Subjects :
        \/ Creates(p, "create", NewAccount(e, sub, FALSE))
        \/ \E u \in IF SubjectOf(sub) # {} THEN SubjectOf(sub) ELSE AccountOf(e) :
             /\ users[u].active
             /\ Edits(p, Blank, "login", u, [users[u] EXCEPT !.google_sub = sub])
  BY DEF GoogleLogin
<1>2. \A u \in SubjectOf(sub) \cup AccountOf(e) : u \in Keys /\ Has(users, u) /\ users[u] \in Account
  BY DEF SubjectOf, AccountOf, Has, TypeInv, TypeOK
<1>3. Starts(p)
  BY DEF GoogleLogin
<1> QED BY <1>1, <1>2, <1>3

LEMMA SigningReads ==
  ASSUME TypeInv, NEW p \in Requests,
         Register(p) \/ Bootstrap(p) \/ Login(p) \/ GoogleLogin(p)
  PROVE  TypeInv'
<1>1. ASSUME Register(p) PROVE TypeInv'
  BY <1>1, NewAccountTyped, CreatesTyped DEF Register
<1>2. ASSUME Bootstrap(p) PROVE TypeInv'
  <2>1. PICK e \in Emails :
          Creates(p, "bootstrap", [NewAccount(e, None, TRUE) EXCEPT !.role = "SUPER_ADMIN"])
    BY <1>2 DEF Bootstrap
  <2>2. [NewAccount(e, None, TRUE) EXCEPT !.role = "SUPER_ADMIN"] \in Account
    BY PromotedTyped
  <2> QED BY <2>1, <2>2, CreatesTyped
<1>3. ASSUME Login(p) PROVE TypeInv'
  <2>1. PICK u \in Keys : Has(users, u) /\ Edits(p, Blank, "login", u, users[u])
    BY <1>3 DEF Login
  <2>2. users[u] \in Account
    BY <2>1 DEF Has, TypeInv, TypeOK
  <2> QED BY <2>1, <2>2, EntityInHand, BlankHeld
<1>4. ASSUME GoogleLogin(p) PROVE TypeInv'
  <2>1. CASE \E e \in Emails, sub \in Subjects : Creates(p, "create", NewAccount(e, sub, FALSE))
    BY <2>1, NewAccountTyped, CreatesTyped
  <2>2. ASSUME NEW u \in Keys, NEW sub \in Subjects, users[u] \in Account,
               Edits(p, Blank, "login", u, [users[u] EXCEPT !.google_sub = sub])
        PROVE  TypeInv'
    <3>1. [users[u] EXCEPT !.google_sub = sub] \in Account
      BY <2>2 DEF Account
    <3> QED BY <2>2, <3>1, EntityInHand, BlankHeld
  <2> QED BY <1>4, <2>1, <2>2, GoogleSigns
<1> QED BY <1>1, <1>2, <1>3, <1>4

LEMMA TokenReads ==
  ASSUME TypeInv, NEW p \in Requests, Refresh(p) \/ Logout(p)
  PROVE  TypeInv'
<1>1. ASSUME Refresh(p) PROVE TypeInv'
  <2>1. PICK t \in Keys :
          /\ Live(t)
          /\ Holding(p, [Blank EXCEPT !.op = "refresh", !.at = "decided", !.key = t,
                           !.target = sessions[t].user])
    BY <1>1 DEF Refresh
  <2> DEFINE r == [Blank EXCEPT !.op = "refresh", !.at = "decided", !.key = t,
                     !.target = sessions[t].user]
  <2>2. sessions[t].user \in Keys
    BY <2>1 DEF Live, Has, TypeInv, TypeOK, Session
  <2>3. r \in Held /\ Hand(r)
    BY <2>2 DEF Blank, Held, Hand
  <2> QED BY <1>1, <2>1, <2>3, Reading DEF Refresh
<1>2. ASSUME Logout(p) PROVE TypeInv'
  <2>1. PICK t \in Keys : Holding(p, [Blank EXCEPT !.op = "logout", !.at = "decided", !.key = t])
    BY <1>2 DEF Logout
  <2> DEFINE r == [Blank EXCEPT !.op = "logout", !.at = "decided", !.key = t]
  <2>2. r \in Held /\ Hand(r)
    BY DEF Blank, Held, Hand
  <2> QED BY <1>2, <2>1, <2>2, Reading DEF Logout
<1> QED BY <1>1, <1>2

LEMMA LoadReads ==
  ASSUME TypeInv, NEW p \in Requests, Load(p)
  PROVE  TypeInv'
<1>1. ASSUME NEW h \in Held, Hand(h), NEW d \in SUBSET Columns
      PROVE  LET r == [h EXCEPT !.at = "loaded", !.dirty = d] IN r \in Held /\ Hand(r)
  <2> DEFINE r == [h EXCEPT !.at = "loaded", !.dirty = d]
  <2>1. r \in Held
    BY DEF Held
  <2>2. r.op = h.op /\ r.new = h.new /\ r.target = h.target /\ r.key = h.key
        /\ r.actor = h.actor /\ r.by = h.by
    BY DEF Held
  <2> HIDE DEF r
  <2>3. Hand(r)
    BY <1>1, <2>2 DEF Hand
  <2> QED BY <2>1, <2>3 DEF r
<1> DEFINE d == {c \in Columns : req[p].new[c] # users[req[p].target][c]}
<1>2. d \in SUBSET Columns /\ req[p] \in Held /\ Hand(req[p])
  BY DEF TypeInv, TypeOK, HandInv
<1>3. Holding(p, [req[p] EXCEPT !.at = "loaded", !.dirty = d]) /\ Reads
  BY DEF Load
<1> HIDE DEF d
<1> QED BY <1>1, <1>2, <1>3, Reading

\* Reading on behalf of an administrator.

LEMMA AdminReads ==
  ASSUME TypeInv, NEW p \in Requests,
         Admit(p) \/ DeleteUser(p) \/ RevokeRoleAssignment(p)
  PROVE  TypeInv'
<1>0. req[p] \in Held /\ Hand(req[p])
  BY DEF TypeInv, TypeOK, HandInv
<1>1. ASSUME Admit(p) PROVE TypeInv'
  <2>1. PICK a \in Keys :
          /\ SignedIn(a)
          /\ Holding(p, [Blank EXCEPT !.op = "admin", !.at = "admitted", !.actor = a,
                           !.by = users[a].role])
    BY <1>1 DEF Admit
  <2>2. users[a].role \in UserRole
    BY <2>1 DEF SignedIn, Has, TypeInv, TypeOK, Account
  <2>3. ASSUME NEW role \in UserRole
        PROVE  LET r == [Blank EXCEPT !.op = "admin", !.at = "admitted", !.actor = a, !.by = role]
               IN  r \in Held /\ Hand(r)
    BY DEF Blank, Held, Hand
  <2> QED BY <1>1, <2>1, <2>2, <2>3, Reading DEF Admit
<1>2. ASSUME DeleteUser(p) PROVE TypeInv'
  <2>1. PICK u \in Keys : Holding(p, [req[p] EXCEPT !.op = "delete", !.at = "decided", !.target = u])
    BY <1>2 DEF DeleteUser
  <2>2. ASSUME NEW h \in Held, Hand(h)
        PROVE  LET r == [h EXCEPT !.op = "delete", !.at = "decided", !.target = u]
               IN  r \in Held /\ Hand(r)
    BY <2>2 DEF Held, Hand
  <2> QED BY <1>0, <1>2, <2>1, <2>2, Reading DEF DeleteUser
<1>3. ASSUME RevokeRoleAssignment(p) PROVE TypeInv'
  <2>1. PICK g \in Keys : Holding(p, [req[p] EXCEPT !.op = "revoke", !.at = "decided", !.key = g])
    BY <1>3 DEF RevokeRoleAssignment
  <2>2. ASSUME NEW h \in Held, Hand(h)
        PROVE  LET r == [h EXCEPT !.op = "revoke", !.at = "decided", !.key = g]
               IN  r \in Held /\ Hand(r)
    BY <2>2 DEF Held, Hand
  <2> QED BY <1>0, <1>3, <2>1, <2>2, Reading DEF RevokeRoleAssignment
<1> QED BY <1>1, <1>2, <1>3

LEMMA AdminEdits ==
  ASSUME TypeInv, NEW p \in Requests,
         ChangeRole(p) \/ (\E active \in BOOLEAN : SetActive(p, active))
  PROVE  TypeInv'
<1>0. req[p] \in Held /\ Hand(req[p])
  BY DEF TypeInv, TypeOK, HandInv
<1>1. ASSUME ChangeRole(p) PROVE TypeInv'
  <2>1. PICK u \in Keys, role \in RolesAsked :
          Has(users, u) /\ Edits(p, req[p], "role", u, [users[u] EXCEPT !.role = role])
    BY <1>1 DEF ChangeRole, Over
  <2>2. [users[u] EXCEPT !.role = role] \in Account
    BY <2>1, AccountsAssumption DEF Has, TypeInv, TypeOK, Account
  <2> QED BY <1>0, <2>1, <2>2, EntityInHand
<1>2. ASSUME NEW active \in BOOLEAN, SetActive(p, active) PROVE TypeInv'
  <2>1. PICK u \in Keys :
          Has(users, u) /\ Edits(p, req[p], "active", u, [users[u] EXCEPT !.active = active])
    BY <1>2 DEF SetActive, Over
  <2>2. [users[u] EXCEPT !.active = active] \in Account
    BY <2>1 DEF Has, TypeInv, TypeOK, Account
  <2> QED BY <1>0, <2>1, <2>2, EntityInHand
<1> QED BY <1>1, <1>2

LEMMA AssignmentReads ==
  ASSUME TypeInv, NEW p \in Requests, CreateRoleAssignment(p)
  PROVE  TypeInv'
<1>0. req[p] \in Held /\ Hand(req[p])
  BY DEF TypeInv, TypeOK, HandInv
<1>1. PICK e \in Emails, role \in Elevating :
        Edits(p, req[p], "assign", None,
              [email |-> e, role |-> role, active |-> TRUE, google_sub |-> None, password |-> FALSE])
  BY DEF CreateRoleAssignment
<1>2. role \in ELEVATED_ROLES /\ role \in UserRole
  BY DEF Elevating, ELEVATED_ROLES
<1>3. [email |-> e, role |-> role, active |-> TRUE, google_sub |-> None, password |-> FALSE] \in Account
  BY <1>2 DEF Account
<1>4. ASSUME NEW h \in Held, NEW entity \in Account, entity.role \in ELEVATED_ROLES
      PROVE  LET r == [h EXCEPT !.op = "assign", !.at = "decided", !.target = None, !.new = entity]
             IN  r \in Held /\ Hand(r)
  BY <1>4 DEF Held, Hand
<1> QED BY <1>0, <1>1, <1>2, <1>3, <1>4, Reading DEF Edits

-----------------------------------------------------------------------------
\* Steps that write.

LEMMA CommitCreateTyped ==
  ASSUME TypeInv, NEW p \in Requests, CommitCreate(p)
  PROVE  TypeInv'
<1>1. req[p].new \in Account
  BY DEF CommitCreate, At, TypeInv, HandInv, Hand
<1>2. req' \in [Requests -> Held] /\ HandInv'
  BY DoneTyped DEF CommitCreate
<1>3. PICK u \in Keys, t \in Keys :
        /\ used' = used \cup {u, t}
        /\ users' = [users EXCEPT ![u] = req[p].new]
        /\ sessions' = [sessions EXCEPT ![t] = [user |-> u, state |-> "live", parent |-> None]]
  BY DEF CommitCreate
<1>4. [user |-> u, state |-> "live", parent |-> None] \in Session
  BY DEF Session
<1>5. grants' \in [Keys -> Grant \cup {None}]
  <2>1. ASSUME NEW g \in Keys, g = req[p].key PROVE Has(grants, g)
    BY <2>1, NoneIsNone DEF CommitCreate
  <2>2. ASSUME NEW g \in Keys, Has(grants, g) PROVE [grants[g] EXCEPT !.consumed = TRUE] \in Grant
    BY <2>2 DEF TypeInv, TypeOK, Has, Grant
  <2>3. grants' = Consume(req[p].key)
    BY DEF CommitCreate
  <2> QED BY <2>1, <2>2, <2>3 DEF Consume, TypeInv, TypeOK
<1>6. overlap' = overlap /\ minted' \in Nat
  BY DEF CommitCreate, TypeInv, TypeOK
<1> QED BY <1>1, <1>2, <1>3, <1>4, <1>5, <1>6 DEF TypeInv, TypeOK

LEMMA CommitLoadedTyped ==
  ASSUME TypeInv, NEW p \in Requests, CommitLogin(p) \/ CommitRole(p) \/ CommitActive(p)
  PROVE  TypeInv'
<1>1. /\ req[p].new \in Account /\ req[p].target \in Keys
      /\ Has(users, req[p].target)
      /\ Done(p) /\ UNCHANGED <<overlap, grants, minted>>
      /\ users' = [users EXCEPT ![req[p].target] = Written(p)]
  BY DEF CommitLogin, CommitRole, CommitActive, At, TypeInv, HandInv, Hand
<1>2. users' \in [Keys -> Account \cup {None}]
  BY <1>1, WrittenTyped DEF TypeInv, TypeOK
<1>3. used' \subseteq Keys /\ sessions' \in [Keys -> Session \cup {None}]
  <2>1. CASE CommitLogin(p)
    <3>1. PICK t \in Keys : Issue(t, req[p].target, None)
      BY <2>1 DEF CommitLogin
    <3>2. [user |-> req[p].target, state |-> "live", parent |-> None] \in Session
      BY <1>1 DEF Session
    <3> QED BY <3>1, <3>2 DEF Issue, TypeInv, TypeOK
  <2>2. CASE CommitRole(p)
    BY <2>2 DEF CommitRole, TypeInv, TypeOK
  <2>3. CASE CommitActive(p)
    <3>1. \A t \in Keys : Live(t) => [sessions[t] EXCEPT !.state = "dead"] \in Session
      BY DEF Live, Has, TypeInv, TypeOK, Session
    <3>2. Revoked(req[p].target) \in [Keys -> Session \cup {None}]
      BY <3>1 DEF Revoked, TypeInv, TypeOK
    <3> QED BY <2>3, <3>2 DEF CommitActive, TypeInv, TypeOK
  <2> QED BY <2>1, <2>2, <2>3
<1> QED BY <1>1, <1>2, <1>3, DoneTyped DEF TypeInv, TypeOK

LEMMA TokenCommitsTyped ==
  ASSUME TypeInv, NEW p \in Requests, CommitRefresh(p) \/ CommitLogout(p)
  PROVE  TypeInv'
<1>1. /\ req[p].key \in Keys /\ Has(sessions, req[p].key)
      /\ Done(p) /\ UNCHANGED <<overlap, users, grants, minted>>
  BY DEF CommitRefresh, CommitLogout, At, TypeInv, HandInv, Hand
<1>2. [sessions EXCEPT ![req[p].key].state = "dead"] \in [Keys -> Session \cup {None}]
  BY <1>1 DEF Has, TypeInv, TypeOK, Session
<1>3. used' \subseteq Keys /\ sessions' \in [Keys -> Session \cup {None}]
  <2>1. CASE CommitRefresh(p)
    <3>1. PICK t \in Keys :
            /\ Fresh(t) /\ used' = used \cup {t}
            /\ sessions' = [[sessions EXCEPT ![req[p].key].state = "dead"] EXCEPT
                  ![t] = [user |-> req[p].target, state |-> "live", parent |-> req[p].key]]
      BY <2>1 DEF CommitRefresh
    <3>2. req[p].target \in Keys
      BY <2>1 DEF CommitRefresh, At, TypeInv, HandInv, Hand
    <3>3. [user |-> req[p].target, state |-> "live", parent |-> req[p].key] \in Session
      BY <1>1, <3>2 DEF Session
    <3> QED BY <1>2, <3>1, <3>3 DEF TypeInv, TypeOK
  <2>2. CASE CommitLogout(p)
    BY <1>2, <2>2 DEF CommitLogout, TypeInv, TypeOK
  <2> QED BY <2>1, <2>2
<1> QED BY <1>1, <1>3, DoneTyped DEF TypeInv, TypeOK

LEMMA AdminCommitsTyped ==
  ASSUME TypeInv, NEW p \in Requests,
         CommitDelete(p) \/ CommitAssignment(p) \/ CommitRevoke(p) \/ Fail(p)
  PROVE  TypeInv'
<1>1. Done(p) /\ UNCHANGED <<overlap, minted>>
  BY DEF CommitDelete, CommitAssignment, CommitRevoke, Fail, Reads
<1>2. /\ used' \subseteq Keys
      /\ users' \in [Keys -> Account \cup {None}]
      /\ grants' \in [Keys -> Grant \cup {None}]
      /\ sessions' \in [Keys -> Session \cup {None}]
  <2>1. CASE CommitDelete(p)
    BY <2>1 DEF CommitDelete, TypeInv, TypeOK
  <2>2. CASE CommitAssignment(p)
    <3>1. PICK g \in Keys :
            /\ used' = used \cup {g}
            /\ grants' = [grants EXCEPT ![g] =
                 [email |-> req[p].new.email, role |-> req[p].new.role, consumed |-> FALSE]]
      BY <2>2 DEF CommitAssignment
    <3>2. req[p].new \in Account /\ req[p].new.role \in ELEVATED_ROLES
      BY <2>2 DEF CommitAssignment, At, TypeInv, HandInv, Hand
    <3>3. [email |-> req[p].new.email, role |-> req[p].new.role, consumed |-> FALSE] \in Grant
      BY <3>2 DEF Account, Grant
    <3> QED BY <2>2, <3>1, <3>3 DEF CommitAssignment, TypeInv, TypeOK
  <2>3. CASE CommitRevoke(p)
    BY <2>3 DEF CommitRevoke, TypeInv, TypeOK
  <2>4. CASE Fail(p)
    BY <2>4 DEF Fail, Reads, tables, TypeInv, TypeOK
  <2> QED BY <2>1, <2>2, <2>3, <2>4
<1> QED BY <1>1, <1>2, DoneTyped DEF TypeInv, TypeOK

LEMMA ExpireTyped ==
  ASSUME TypeInv, NEW t \in Keys, Expire(t)
  PROVE  TypeInv'
<1>1. [sessions EXCEPT ![t].state = "dead"] \in [Keys -> Session \cup {None}]
  BY DEF Expire, Live, Has, TypeInv, TypeOK, Session
<1> QED BY <1>1 DEF Expire, TypeInv, TypeOK, HandInv

-----------------------------------------------------------------------------
LEMMA InitTyped == Init => TypeInv
<1> SUFFICES ASSUME Init PROVE TypeInv
  OBVIOUS
<1>1. \A e \in Emails : [email |-> e, role |-> "SUPER_ADMIN", consumed |-> FALSE] \in Grant
  BY Roles DEF Grant, ELEVATED_ROLES
<1>2. TypeOK
  BY <1>1, BlankHeld DEF Init, TypeOK
<1> QED BY <1>2, BlankHeld DEF Init, TypeInv, HandInv

LEMMA NextTyped == TypeInv /\ [Next]_vars => TypeInv'
<1> SUFFICES ASSUME TypeInv, [Next]_vars PROVE TypeInv'
  OBVIOUS
<1>1. CASE UNCHANGED vars
  BY <1>1 DEF vars, TypeInv, TypeOK, HandInv
<1>2. CASE \E t \in Keys : Expire(t)
  BY <1>2, ExpireTyped
<1>3. ASSUME NEW p \in Requests, Sign(p) PROVE TypeInv'
  BY <1>3, SigningReads, TokenReads, CommitCreateTyped, CommitLoadedTyped, TokenCommitsTyped
     DEF Sign, CmdDefaultUser
<1>4. ASSUME NEW p \in Requests, Load(p) \/ Fail(p) PROVE TypeInv'
  BY <1>4, LoadReads, AdminCommitsTyped
<1>5. ASSUME NEW p \in Requests, Administer(p) PROVE TypeInv'
  BY <1>5, AdminReads, AdminEdits, AssignmentReads, CommitLoadedTyped, AdminCommitsTyped
     DEF Administer, PatchRole, PatchActive, PostRoleAssignment, DeleteRoleAssignment,
         CmdSetRole, CmdDeactivate, CmdPreProvision, CmdRevokePreProvision
<1> QED BY <1>1, <1>2, <1>3, <1>4, <1>5 DEF Next

\* The tables and the requests keep their types: of an elevated assignment too, whose
\* role is never EMPLOYEE (RoleAssignment.__post_init__, AdminService).
THEOREM TypeCorrect == Spec => []TypeOK
<1>1. Spec => []TypeInv
  BY InitTyped, NextTyped, PTL DEF Spec
<1>2. TypeInv => TypeOK
  BY DEF TypeInv
<1> QED BY <1>1, <1>2, PTL

-----------------------------------------------------------------------------
\* Roles come from roles.  A step that changes no table of roles makes authority only
\* through what a request takes in hand.

LEMMA Below ==
  ASSUME NEW role \in ELEVATED_ROLES, NEW a \in UserRole, NEW b \in UserRole,
         AtMost(role, a), AtMost(a, b)
  PROVE  AtMost(role, b)
BY AtMostTransitive DEF ELEVATED_ROLES

LEMMA ReadingMakesNone ==
  ASSUME TypeInv, NEW p \in Requests, NEW r, Holding(p, r), Reads, NEW role \in ELEVATED_ROLES,
         r.by # None /\ AtMost(role, r.by) => Authority(role),
         r.new # None /\ AtMost(role, r.new.role) => Authority(role),
         Authority(role)'
  PROVE  Authority(role)
BY DEF Authority, Holding, Reads, tables, Has, TypeInv, TypeOK

LEMMA WritingMakesNone ==
  ASSUME TypeInv, NEW p \in Requests, Done(p), NEW role \in ELEVATED_ROLES,
         \A u \in Keys : users'[u] # None /\ AtMost(role, users'[u].role) => Authority(role),
         \A g \in Keys : grants'[g] # None /\ ~grants'[g].consumed /\ AtMost(role, grants'[g].role)
                       => Authority(role),
         Authority(role)'
  PROVE  Authority(role)
BY BlankHeld DEF Authority, Done, Holding, Blank, Has, TypeInv, TypeOK

LEMMA OfAccount ==
  ASSUME NEW role, NEW u \in Keys, Has(users, u), AtMost(role, users[u].role)
  PROVE  Authority(role)
BY DEF Authority

LEMMA OfGrant ==
  ASSUME NEW role, NEW g \in Keys, Has(grants, g), ~grants[g].consumed, AtMost(role, grants[g].role)
  PROVE  Authority(role)
BY DEF Authority

LEMMA OfRequest ==
  ASSUME NEW role, NEW p \in Requests,
         \/ req[p].by # None /\ AtMost(role, req[p].by)
         \/ req[p].new # None /\ AtMost(role, req[p].new.role)
  PROVE  Authority(role)
BY DEF Authority

\* A new account has the role of an assignment that waits, or none worth the name.
LEMMA CreatesMakesNone ==
  ASSUME TypeInv, NEW p \in Requests, NEW e \in Emails, NEW sub, NEW password,
         Creates(p, "create", NewAccount(e, sub, password)),
         NEW role \in ELEVATED_ROLES, Authority(role)'
  PROVE  Authority(role)
<1> DEFINE g == CHOOSE x \in GrantOf(e) : TRUE
           account == NewAccount(e, sub, password)
           r == [Blank EXCEPT !.op = "create", !.at = "decided", !.new = account,
                   !.key = IF GrantOf(account.email) = {} THEN None
                           ELSE CHOOSE x \in GrantOf(account.email) : TRUE]
<1>1. account.email = e
  BY DEF NewAccount
<1>2. GrantOf(e) # {} => g \in GrantOf(e)
  BY Chosen
<1>3. AtMost(role, account.role) => Authority(role)
  <2>1. CASE GrantOf(e) = {}
    BY <2>1, EmployeeIsLowest DEF NewAccount
  <2>2. CASE GrantOf(e) # {}
    <3>1. g \in Keys /\ Has(grants, g) /\ ~grants[g].consumed
      BY <1>1, <1>2, <2>2 DEF Creates, GrantOf
    <3>2. account.role = grants[g].role
      BY <2>2 DEF NewAccount
    <3> QED BY <3>1, <3>2, OfGrant
  <2> QED BY <2>1, <2>2
<1>4. Holding(p, r) /\ Reads
  BY DEF Creates
<1>5. r.by = None /\ r.new = account
  BY DEF Blank
<1> HIDE DEF r, account
<1> QED BY <1>3, <1>4, <1>5, ReadingMakesNone

LEMMA SigningMakesNone ==
  ASSUME TypeInv, NEW p \in Requests,
         Register(p) \/ Login(p) \/ GoogleLogin(p) \/ Refresh(p) \/ Logout(p),
         NEW role \in ELEVATED_ROLES, Authority(role)'
  PROVE  Authority(role)
<1>1. CASE Register(p)
  BY <1>1, CreatesMakesNone DEF Register
\* The entity in hand is the account as it was read, or linked to Google.
<1>2. ASSUME NEW u \in Keys, Has(users, u), NEW entity, entity.role = users[u].role,
             Edits(p, Blank, "login", u, entity)
      PROVE  Authority(role)
  <2> DEFINE r == [Blank EXCEPT !.op = "login", !.at = "decided", !.target = u, !.new = entity]
  <2>1. r.by = None /\ r.new = entity
    BY DEF Blank
  <2>2. Holding(p, r) /\ Reads
    BY <1>2 DEF Edits
  <2> HIDE DEF r
  <2> QED BY <1>2, <2>1, <2>2, OfAccount, ReadingMakesNone
<1>3. CASE Login(p)
  BY <1>2, <1>3 DEF Login
<1>4. CASE GoogleLogin(p)
  <2>1. CASE \E e \in Emails, sub \in Subjects : Creates(p, "create", NewAccount(e, sub, FALSE))
    BY <2>1, CreatesMakesNone
  <2>2. ASSUME NEW u \in Keys, NEW sub \in Subjects, Has(users, u), users[u] \in Account,
               Edits(p, Blank, "login", u, [users[u] EXCEPT !.google_sub = sub])
        PROVE  Authority(role)
    <3>1. [users[u] EXCEPT !.google_sub = sub].role = users[u].role
      BY <2>2 DEF Account
    <3> QED BY <1>2, <2>2, <3>1
  <2> QED BY <1>4, <2>1, <2>2, GoogleSigns
<1>5. CASE Refresh(p)
  <2>1. PICK t \in Keys :
          Holding(p, [Blank EXCEPT !.op = "refresh", !.at = "decided", !.key = t,
                        !.target = sessions[t].user])
    BY <1>5 DEF Refresh
  <2>2. LET r == [Blank EXCEPT !.op = "refresh", !.at = "decided", !.key = t,
                    !.target = sessions[t].user] IN r.by = None /\ r.new = None
    BY DEF Blank
  <2> QED BY <1>5, <2>1, <2>2, ReadingMakesNone DEF Refresh
<1>6. CASE Logout(p)
  <2>1. PICK t \in Keys : Holding(p, [Blank EXCEPT !.op = "logout", !.at = "decided", !.key = t])
    BY <1>6 DEF Logout
  <2>2. LET r == [Blank EXCEPT !.op = "logout", !.at = "decided", !.key = t]
        IN  r.by = None /\ r.new = None
    BY DEF Blank
  <2> QED BY <1>6, <2>1, <2>2, ReadingMakesNone DEF Logout
<1> QED BY <1>1, <1>3, <1>4, <1>5, <1>6

LEMMA LoadMakesNone ==
  ASSUME TypeInv, NEW p \in Requests, Load(p), NEW role \in ELEVATED_ROLES, Authority(role)'
  PROVE  Authority(role)
<1> DEFINE d == {c \in Columns : req[p].new[c] # users[req[p].target][c]}
           r == [req[p] EXCEPT !.at = "loaded", !.dirty = d]
<1>1. Holding(p, r) /\ Reads
  BY DEF Load
<1>2. r.by = req[p].by /\ r.new = req[p].new
  BY DEF TypeInv, TypeOK, Held
<1> HIDE DEF r
<1> QED BY <1>1, <1>2, OfRequest, ReadingMakesNone

\* An administrator acts with the role read at the start, and gives none above it.
LEMMA AdministeringMakesNone ==
  ASSUME TypeInv, NEW p \in Requests,
         \/ Admit(p) \/ DeleteUser(p) \/ RevokeRoleAssignment(p) \/ ChangeRole(p)
         \/ (\E active \in BOOLEAN : SetActive(p, active)) \/ CreateRoleAssignment(p),
         NEW role \in ELEVATED_ROLES, Authority(role)'
  PROVE  Authority(role)
<1>0. req[p] \in Held /\ Hand(req[p])
  BY DEF TypeInv, TypeOK, HandInv
\* The acting role is as before, and the entity's is one the request may give.
<1>1. ASSUME NEW r, Holding(p, r), Reads, r.by = req[p].by,
             r.new # None /\ AtMost(role, r.new.role) => Authority(role)
      PROVE  Authority(role)
  BY <1>1, OfRequest, ReadingMakesNone
<1>2. ASSUME NEW given \in UserRole, req[p].by \in UserRole, AtMost(given, req[p].by),
             AtMost(role, given)
      PROVE  Authority(role)
  BY <1>2, Below, NoneIsNone, OfRequest
<1>3. CASE Admit(p)
  <2>1. PICK a \in Keys :
          /\ SignedIn(a)
          /\ Holding(p, [Blank EXCEPT !.op = "admin", !.at = "admitted", !.actor = a,
                           !.by = users[a].role])
    BY <1>3 DEF Admit
  <2>2. LET r == [Blank EXCEPT !.op = "admin", !.at = "admitted", !.actor = a, !.by = users[a].role]
        IN  r.by = users[a].role /\ r.new = None
    BY DEF Blank
  <2> QED BY <1>3, <2>1, <2>2, OfAccount, ReadingMakesNone DEF Admit, SignedIn
<1>4. CASE DeleteUser(p)
  <2>1. PICK u \in Keys : Holding(p, [req[p] EXCEPT !.op = "delete", !.at = "decided", !.target = u])
    BY <1>4 DEF DeleteUser
  <2>2. LET r == [req[p] EXCEPT !.op = "delete", !.at = "decided", !.target = u]
        IN  r.by = req[p].by /\ r.new = req[p].new
    BY <1>0 DEF Held
  <2> QED BY <1>1, <1>4, <2>1, <2>2, OfRequest DEF DeleteUser
<1>5. CASE RevokeRoleAssignment(p)
  <2>1. PICK g \in Keys : Holding(p, [req[p] EXCEPT !.op = "revoke", !.at = "decided", !.key = g])
    BY <1>5 DEF RevokeRoleAssignment
  <2>2. LET r == [req[p] EXCEPT !.op = "revoke", !.at = "decided", !.key = g]
        IN  r.by = req[p].by /\ r.new = req[p].new
    BY <1>0 DEF Held
  <2> QED BY <1>1, <1>5, <2>1, <2>2, OfRequest DEF RevokeRoleAssignment
\* An entity in hand, for update().
<1>6. ASSUME NEW op, NEW u, NEW entity, Edits(p, req[p], op, u, entity),
             entity # None /\ AtMost(role, entity.role) => Authority(role)
      PROVE  Authority(role)
  <2> DEFINE r == [req[p] EXCEPT !.op = op, !.at = "decided", !.target = u, !.new = entity]
  <2>1. r.by = req[p].by /\ r.new = entity
    BY <1>0 DEF Held
  <2>2. Holding(p, r) /\ Reads
    BY <1>6 DEF Edits
  <2> HIDE DEF r
  <2> QED BY <1>1, <1>6, <2>1, <2>2
<1>7. CASE ChangeRole(p)
  <2>1. PICK u \in Keys, given \in RolesAsked :
          /\ Has(users, u) /\ AtMost(given, req[p].by)
          /\ Edits(p, req[p], "role", u, [users[u] EXCEPT !.role = given])
    BY <1>7 DEF ChangeRole, Over
  <2>2. given \in UserRole /\ req[p].by \in UserRole
    BY <1>0, <1>7, AccountsAssumption DEF ChangeRole, Admitting, At, Hand
  <2>3. [users[u] EXCEPT !.role = given].role = given
    BY <2>1 DEF Has, TypeInv, TypeOK, Account
  <2> QED BY <1>2, <1>6, <2>1, <2>2, <2>3
<1>8. CASE \E active \in BOOLEAN : SetActive(p, active)
  <2>1. PICK u \in Keys, active \in BOOLEAN :
          Has(users, u) /\ Edits(p, req[p], "active", u, [users[u] EXCEPT !.active = active])
    BY <1>8 DEF SetActive, Over
  <2>2. [users[u] EXCEPT !.active = active].role = users[u].role
    BY <2>1 DEF Has, TypeInv, TypeOK, Account
  <2> QED BY <1>6, <2>1, <2>2, OfAccount
<1>9. CASE CreateRoleAssignment(p)
  <2>1. PICK e \in Emails, given \in Elevating :
          /\ AtMost(given, req[p].by)
          /\ Edits(p, req[p], "assign", None,
                   [email |-> e, role |-> given, active |-> TRUE, google_sub |-> None, password |-> FALSE])
    BY <1>9 DEF CreateRoleAssignment
  <2>2. given \in UserRole /\ req[p].by \in UserRole
    BY <1>0, <1>9 DEF CreateRoleAssignment, Admitting, At, Hand, Elevating, ELEVATED_ROLES
  <2> QED BY <1>2, <1>6, <2>1, <2>2
<1> QED BY <1>3, <1>4, <1>5, <1>7, <1>8, <1>9

\* A commit writes a role some request had in hand.
LEMMA CommitMakesNone ==
  ASSUME TypeInv, NEW p \in Requests,
         \/ CommitCreate(p) \/ CommitLogin(p) \/ CommitRole(p) \/ CommitActive(p)
         \/ CommitRefresh(p) \/ CommitLogout(p) \/ CommitDelete(p) \/ CommitAssignment(p)
         \/ CommitRevoke(p) \/ Fail(p),
         NEW role \in ELEVATED_ROLES, Authority(role)'
  PROVE  Authority(role)
<1> DEFINE Users == \A u \in Keys : users'[u] # None /\ AtMost(role, users'[u].role) => Authority(role)
           Grants == \A g \in Keys :
             grants'[g] # None /\ ~grants'[g].consumed /\ AtMost(role, grants'[g].role) => Authority(role)
<1>1. users' = users => Users
  BY OfAccount DEF Has
<1>2. grants' = grants => Grants
  BY OfGrant DEF Has
<1>3. Done(p)
  BY DEF CommitCreate, CommitLogin, CommitRole, CommitActive, CommitRefresh, CommitLogout,
         CommitDelete, CommitAssignment, CommitRevoke, Fail
<1>4. CASE CommitCreate(p)
  <2>1. req[p].new \in Account
    BY <1>4 DEF CommitCreate, At, TypeInv, HandInv, Hand
  <2>2. AtMost(role, req[p].new.role) => Authority(role)
    BY <2>1, NoneIsNone, OfRequest
  <2>3. PICK k \in Keys : users' = [users EXCEPT ![k] = req[p].new]
    BY <1>4 DEF CommitCreate
  <2>4. Users
    BY <2>2, <2>3, OfAccount DEF Has, TypeInv, TypeOK
  <2>5. Grants
    <3> SUFFICES ASSUME NEW g \in Keys, grants'[g] # None, ~grants'[g].consumed,
                        AtMost(role, grants'[g].role)
                 PROVE  Authority(role)
      OBVIOUS
    <3>1. grants'[g] = IF g = req[p].key THEN [grants[g] EXCEPT !.consumed = TRUE] ELSE grants[g]
      BY <1>4 DEF CommitCreate, Consume
    <3>2. g # req[p].key
      <4> SUFFICES ASSUME g = req[p].key PROVE FALSE
        OBVIOUS
      <4>1. grants[g] \in Grant
        BY <1>4, NoneIsNone DEF CommitCreate, Has, TypeInv, TypeOK
      <4> QED BY <3>1, <4>1 DEF Grant
    <3> QED BY <3>1, <3>2, OfGrant DEF Has
  <2> HIDE DEF Users, Grants
  <2> QED BY <1>3, <2>4, <2>5, WritingMakesNone DEF Users, Grants
<1>5. CASE CommitLogin(p) \/ CommitRole(p) \/ CommitActive(p)
  <2>1. /\ req[p].new \in Account /\ req[p].target \in Keys /\ Has(users, req[p].target)
        /\ users' = [users EXCEPT ![req[p].target] = Written(p)] /\ grants' = grants
    BY <1>5 DEF CommitLogin, CommitRole, CommitActive, At, TypeInv, HandInv, Hand
  <2>2. Written(p).role \in {req[p].new.role, users[req[p].target].role}
    BY <2>1, WrittenTyped
  <2>3. AtMost(role, Written(p).role) => Authority(role)
    BY <2>1, <2>2, NoneIsNone, OfAccount, OfRequest
  <2>4. Users
    BY <2>1, <2>3, OfAccount DEF Has, TypeInv, TypeOK
  <2> QED BY <1>2, <1>3, <2>1, <2>4, WritingMakesNone
<1>6. CASE CommitDelete(p)
  <2>1. Users
    BY <1>6, OfAccount DEF CommitDelete, Has, TypeInv, TypeOK
  <2> QED BY <1>2, <1>3, <1>6, <2>1, WritingMakesNone DEF CommitDelete
<1>7. CASE CommitAssignment(p)
  <2>1. req[p].new \in Account
    BY <1>7 DEF CommitAssignment, At, TypeInv, HandInv, Hand
  <2>2. PICK g \in Keys :
          grants' = [grants EXCEPT ![g] =
            [email |-> req[p].new.email, role |-> req[p].new.role, consumed |-> FALSE]]
    BY <1>7 DEF CommitAssignment
  <2>3. AtMost(role, req[p].new.role) => Authority(role)
    BY <2>1, NoneIsNone, OfRequest
  <2>4. Grants
    BY <2>2, <2>3, OfGrant DEF Has, TypeInv, TypeOK
  <2> QED BY <1>1, <1>3, <1>7, <2>4, WritingMakesNone DEF CommitAssignment
<1>8. CASE CommitRevoke(p)
  <2>1. Grants
    BY <1>8, OfGrant DEF CommitRevoke, Has, TypeInv, TypeOK
  <2> QED BY <1>1, <1>3, <1>8, <2>1, WritingMakesNone DEF CommitRevoke
<1>9. CASE CommitRefresh(p) \/ CommitLogout(p) \/ Fail(p)
  <2>1. users' = users /\ grants' = grants
    BY <1>9 DEF CommitRefresh, CommitLogout, Fail, Reads, tables
  <2> QED BY <1>1, <1>2, <1>3, <2>1, WritingMakesNone
<1> QED BY <1>4, <1>5, <1>6, <1>7, <1>8, <1>9

LEMMA NextMakesNone ==
  ASSUME TypeInv, [Next]_vars, NEW role \in ELEVATED_ROLES, Authority(role)'
  PROVE  Authority(role) \/ Bootstraps
<1>1. CASE UNCHANGED vars
  BY <1>1 DEF vars, Authority, Has
<1>2. CASE \E t \in Keys : Expire(t)
  BY <1>2 DEF Expire, Authority, Has
<1>3. ASSUME NEW p \in Requests, Bootstrap(p) PROVE Bootstraps
  <2>1. PICK account : Creates(p, "bootstrap", account)
    BY <1>3 DEF Bootstrap
  <2>2. req[p] = Blank
    BY <1>3 DEF Bootstrap, Starts
  <2>3. req'[p].op = "bootstrap"
    BY <2>1 DEF Creates, Holding, Blank, TypeInv, TypeOK
  <2> QED BY <2>2, <2>3 DEF Bootstraps
<1>4. ASSUME NEW p \in Requests, Sign(p), ~Bootstrap(p) PROVE Authority(role)
  BY <1>4, SigningMakesNone, CommitMakesNone DEF Sign, CmdDefaultUser
<1>5. ASSUME NEW p \in Requests, Load(p) \/ Fail(p) PROVE Authority(role)
  BY <1>5, LoadMakesNone, CommitMakesNone
<1>6. ASSUME NEW p \in Requests, Administer(p) PROVE Authority(role)
  BY <1>6, AdministeringMakesNone, CommitMakesNone
     DEF Administer, PatchRole, PatchActive, PostRoleAssignment, DeleteRoleAssignment,
         CmdSetRole, CmdDeactivate, CmdPreProvision, CmdRevokePreProvision
<1> QED BY <1>1, <1>2, <1>3, <1>4, <1>5, <1>6 DEF Next

\* Whatever requests and commands run beside each other, and whatever rows they write
\* back stale, an elevated role comes from somebody at least as high, from the list, or
\* from bootstrap (AdminService.change_role, create_role_assignment, AuthService).
THEOREM RolesComeFromAbove == Spec => AuthorityOnlyFromAuthority
<1>1. TypeInv /\ [Next]_vars =>
        [\A role \in ELEVATED_ROLES : Authority(role)' => Authority(role) \/ Bootstraps]_vars
  BY NextMakesNone
<1>2. Spec => []TypeInv
  BY InitTyped, NextTyped, PTL DEF Spec
<1> QED BY <1>1, <1>2, PTL DEF Spec, AuthorityOnlyFromAuthority

-----------------------------------------------------------------------------
\* Refresh tokens.

\* Ids are taken in order, and every session, there or refreshed away, has one.
IdInv ==
  /\ \A k \in used : \A j \in Keys : j < k => j \in used
  /\ \A t \in Keys : Has(sessions, t) => t \in used /\ sessions[t].parent \in used \cup {None}

\* Where no request overlaps another, one at most has anything in hand, and a token in
\* hand has not been refreshed.
AloneInv == ~overlap => \A p, q \in Requests : req[p] # Blank /\ req[q] # Blank => p = q
Unspent(k) == \A t \in Keys : Has(sessions, t) => sessions[t].parent # k
UnspentInv == ~overlap => \A p \in Requests : req[p].op = "refresh" => Unspent(req[p].key)

TokenInv == TypeInv /\ IdInv /\ AloneInv /\ UnspentInv /\ TokenSpentOnce

\* A step that ends sessions, or starts one that was refreshed from none.
EndsOrStarts ==
  /\ IdInv'
  /\ \A t \in Keys : sessions'[t] # None =>
       \/ t \notin used /\ sessions'[t].parent = None
       \/ /\ sessions[t] # None /\ sessions'[t].parent = sessions[t].parent
          /\ sessions'[t].state = "live" => sessions[t].state = "live"

LEMMA FreshExtends ==
  ASSUME TokenInv, NEW k \in Keys, Fresh(k)
  PROVE  /\ \A i \in used \cup {k} : \A j \in Keys : j < i => j \in used \cup {k}
         /\ k + 1 \notin used
         /\ \A i \in used \cup {k, k + 1} : \A j \in Keys : j < i => j \in used \cup {k, k + 1}
<1>1. used \subseteq Keys /\ Keys \subseteq Int /\ k \notin used
  BY DEF TokenInv, TypeInv, TypeOK, Keys, Fresh
<1>2. \A i \in used \cup {k} : \A j \in Keys : j < i => j \in used \cup {k}
  BY <1>1 DEF TokenInv, IdInv, Fresh
<1>3. k + 1 \notin used
  BY <1>1 DEF TokenInv, IdInv
<1>4. \A j \in Keys : j < k + 1 => j \in used \cup {k}
  BY <1>1 DEF Fresh
<1> QED BY <1>2, <1>3, <1>4

\* An account about to be created is as an address is born.
Born(p) ==
  \E e \in Emails, sub \in Subjects \cup {None}, password \in BOOLEAN :
    Creates(p, "create", NewAccount(e, sub, password))

\* Each step is of one request, which was in flight or may start.
LEMMA StepOfOne ==
  ASSUME TypeInv, NEW p \in Requests, Sign(p) \/ Load(p) \/ Administer(p) \/ Fail(p)
  PROVE  /\ \E r : req' = [req EXCEPT ![p] = r]
         /\ req'[p].op = "refresh" => Refresh(p)
         /\ req'[p].op = "create" => Born(p)
         /\ Starts(p) \/ req[p] # Blank
         /\ overlap' = overlap
<1> DEFINE Goal ==
      /\ \E r : req' = [req EXCEPT ![p] = r]
      /\ req'[p].op = "refresh" => Refresh(p)
      /\ req'[p].op = "create" => Born(p)
      /\ Starts(p) \/ req[p] # Blank
      /\ overlap' = overlap
<1>0. req[p] \in Held /\ req \in [Requests -> Held]
  BY DEF TypeInv, TypeOK
<1>1. ASSUME NEW r, Holding(p, r), r.op \notin {"refresh", "create"}, Starts(p) \/ req[p].op # "none", overlap' = overlap
      PROVE  Goal
  <2>1. req' = [req EXCEPT ![p] = r]
    BY <1>1 DEF Holding
  <2>2. req'[p].op \notin {"refresh", "create"}
    BY <1>0, <1>1, <2>1
  <2>3. req[p].op # "none" => req[p] # Blank
    BY DEF Blank
  <2> QED BY <1>1, <2>1, <2>2, <2>3
<1>2. ASSUME Done(p), req[p].op # "none", overlap' = overlap PROVE Goal
  BY <1>1, <1>2 DEF Done, Blank
<1>3. ASSUME NEW op \in {"login", "role", "active", "assign"}, NEW u, NEW entity, NEW r \in Held,
             Edits(p, r, op, u, entity), Starts(p) \/ req[p].op # "none"
      PROVE  Goal
  <2>1. [r EXCEPT !.op = op, !.at = "decided", !.target = u, !.new = entity].op = op
    BY DEF Held
  <2> QED BY <1>1, <1>3, <2>1 DEF Edits, Reads
<1>4. ASSUME NEW op \in {"create", "bootstrap"}, NEW account, Creates(p, op, account), Starts(p),
             op = "create" => Born(p)
      PROVE  Goal
  <2> DEFINE key == IF GrantOf(account.email) = {} THEN None
                    ELSE CHOOSE g \in GrantOf(account.email) : TRUE
             r == [Blank EXCEPT !.op = op, !.at = "decided", !.new = account, !.key = key]
  <2>1. r.op = op
    BY DEF Blank
  <2>2. req' = [req EXCEPT ![p] = r] /\ overlap' = overlap
    BY <1>4 DEF Creates, Holding, Reads
  <2> HIDE DEF r
  <2>3. req'[p].op = op
    BY <1>0, <2>1, <2>2
  <2> QED BY <1>4, <2>2, <2>3
<1>5. CASE Register(p) \/ Bootstrap(p)
  BY <1>4, <1>5 DEF Register, Bootstrap, Born
<1>6. CASE Login(p)
  BY <1>3, <1>6, BlankHeld DEF Login
<1>7. CASE GoogleLogin(p)
  <2>1. CASE \E e \in Emails, sub \in Subjects : Creates(p, "create", NewAccount(e, sub, FALSE))
    BY <1>4, <1>7, <2>1, GoogleSigns DEF Born
  <2>2. CASE \E u \in Keys, sub \in Subjects :
               Edits(p, Blank, "login", u, [users[u] EXCEPT !.google_sub = sub])
    BY <1>3, <1>7, <2>2, GoogleSigns, BlankHeld
  <2> QED BY <1>7, <2>1, <2>2, GoogleSigns
<1>8. CASE Refresh(p)
  <2>1. PICK t \in Keys :
          Holding(p, [Blank EXCEPT !.op = "refresh", !.at = "decided", !.key = t,
                        !.target = sessions[t].user])
    BY <1>8 DEF Refresh
  <2> DEFINE r == [Blank EXCEPT !.op = "refresh", !.at = "decided", !.key = t,
                     !.target = sessions[t].user]
  <2>2. r.op = "refresh"
    BY DEF Blank
  <2>3. req' = [req EXCEPT ![p] = r]
    BY <2>1 DEF Holding
  <2> HIDE DEF r
  <2>4. req'[p].op # "create"
    BY <1>0, <2>2, <2>3
  <2>5. Starts(p) /\ overlap' = overlap
    BY <1>8 DEF Refresh, Reads
  <2> QED BY <1>8, <2>3, <2>4, <2>5
<1>9. CASE Logout(p)
  BY <1>1, <1>9 DEF Logout, Reads, Blank
<1>10. CASE Load(p)
  <2> DEFINE d == {c \in Columns : req[p].new[c] # users[req[p].target][c]}
  <2>1. [req[p] EXCEPT !.at = "loaded", !.dirty = d].op = req[p].op
    BY <1>0 DEF Held
  <2>2. Holding(p, [req[p] EXCEPT !.at = "loaded", !.dirty = d]) /\ req[p].op \in {"login", "role", "active"}
        /\ overlap' = overlap
    BY <1>10 DEF Load, Reads
  <2> HIDE DEF d
  <2> QED BY <1>1, <2>1, <2>2
<1>11. CASE Admit(p)
  BY <1>1, <1>11 DEF Admit, Reads, Blank
<1>12. CASE DeleteUser(p) \/ RevokeRoleAssignment(p)
  BY <1>0, <1>1, <1>12
     DEF DeleteUser, RevokeRoleAssignment, May, Admitting, At, Reads, Held
<1>13. CASE ChangeRole(p)
  BY <1>0, <1>3, <1>13 DEF ChangeRole, Admitting, At
<1>14. CASE \E active \in BOOLEAN : SetActive(p, active)
  BY <1>0, <1>3, <1>14 DEF SetActive, Admitting, At
<1>15. CASE CreateRoleAssignment(p)
  BY <1>0, <1>3, <1>15 DEF CreateRoleAssignment, Admitting, At
<1>16. CASE \/ CommitCreate(p) \/ CommitLogin(p) \/ CommitRole(p) \/ CommitActive(p)
            \/ CommitRefresh(p) \/ CommitLogout(p) \/ CommitDelete(p) \/ CommitAssignment(p)
            \/ CommitRevoke(p)
  BY <1>2, <1>16
     DEF CommitCreate, CommitLogin, CommitRole, CommitActive, CommitRefresh, CommitLogout,
         CommitDelete, CommitAssignment, CommitRevoke, At
<1>17. CASE Fail(p)
  BY <1>0, <1>17 DEF Fail, Done, Holding, Reads, Blank
<1> QED
  BY <1>5, <1>6, <1>7, <1>8, <1>9, <1>10, <1>11, <1>12, <1>13, <1>14, <1>15, <1>16, <1>17
     DEF Sign, CmdDefaultUser, Administer, PatchRole, PatchActive, PostRoleAssignment,
         DeleteRoleAssignment, CmdSetRole, CmdDeactivate, CmdPreProvision, CmdRevokePreProvision

LEMMA ReadingSteps ==
  ASSUME NEW p \in Requests,
         \/ Register(p) \/ Bootstrap(p) \/ Login(p) \/ GoogleLogin(p) \/ Refresh(p) \/ Logout(p)
         \/ Load(p) \/ Admit(p) \/ DeleteUser(p) \/ RevokeRoleAssignment(p) \/ ChangeRole(p)
         \/ (\E active \in BOOLEAN : SetActive(p, active)) \/ CreateRoleAssignment(p) \/ Fail(p)
  PROVE  Reads
BY DEF Register, Bootstrap, Creates, Login, GoogleLogin, Edits, Refresh, Logout, Load, Admit,
       DeleteUser, RevokeRoleAssignment, ChangeRole, SetActive, CreateRoleAssignment, Fail

LEMMA StepEndsOrStarts ==
  ASSUME TokenInv, NEW p \in Requests, Sign(p) \/ Load(p) \/ Administer(p) \/ Fail(p),
         ~CommitRefresh(p)
  PROVE  EndsOrStarts
<1>0. /\ sessions \in [Keys -> Session \cup {None}] /\ used \subseteq Keys
      /\ \A k \in used : k \in Int
      /\ IdInv
  BY DEF TokenInv, TypeInv, TypeOK, Keys
\* A session that starts with a login or an account.
<1>1. ASSUME NEW u \in Keys, NEW t \in Keys, t \notin used, NEW new, used \cup {t} \subseteq new,
             used' = new, \A i \in new : \A j \in Keys : j < i => j \in new,
             sessions' = [sessions EXCEPT ![t] = [user |-> u, state |-> "live", parent |-> None]]
      PROVE  EndsOrStarts
  BY <1>0, <1>1 DEF EndsOrStarts, IdInv, Has
\* Sessions that end.
<1>2. ASSUME used \subseteq used', \A i \in used' : \A j \in Keys : j < i => j \in used',
             \A t \in Keys : sessions'[t] # None =>
               /\ sessions[t] # None /\ sessions'[t].parent = sessions[t].parent
               /\ sessions'[t].state = "live" => sessions[t].state = "live"
      PROVE  EndsOrStarts
  BY <1>0, <1>2 DEF EndsOrStarts, IdInv, Has
<1>3. ASSUME used' = used, sessions' = sessions PROVE EndsOrStarts
  BY <1>0, <1>2, <1>3 DEF IdInv
<1>4. CASE CommitCreate(p)
  <2>1. PICK u \in Keys, t \in Keys :
          /\ Fresh(u) /\ t = u + 1 /\ used' = used \cup {u, t}
          /\ sessions' = [sessions EXCEPT ![t] = [user |-> u, state |-> "live", parent |-> None]]
    BY <1>4 DEF CommitCreate
  <2> DEFINE new == used \cup {u, u + 1}
  <2>2. t \notin used /\ used \cup {t} \subseteq new /\ used' = new
        /\ \A i \in new : \A j \in Keys : j < i => j \in new
    BY <2>1, FreshExtends
  <2> HIDE DEF new
  <2> QED BY <1>1, <2>1, <2>2
<1>5. CASE CommitLogin(p)
  <2>1. req[p].target \in Keys
    BY <1>5 DEF CommitLogin, At, TokenInv, TypeInv, HandInv, Hand
  <2>2. PICK t \in Keys : Issue(t, req[p].target, None)
    BY <1>5 DEF CommitLogin
  <2> QED BY <1>1, <2>1, <2>2, FreshExtends DEF Issue, Fresh
<1>6. CASE CommitLogout(p)
  <2>1. req[p].key \in Keys /\ sessions[req[p].key] \in Session
    BY <1>0, <1>6 DEF CommitLogout, At, Has, TokenInv, TypeInv, HandInv, Hand
  <2>2. used' = used /\ sessions' = [sessions EXCEPT ![req[p].key].state = "dead"]
    BY <1>6 DEF CommitLogout
  <2> QED BY <1>0, <1>2, <2>1, <2>2, NoneIsNone DEF IdInv, Session
<1>7. CASE CommitActive(p)
  <2>1. used' = used /\ (sessions' = sessions \/ sessions' = Revoked(req[p].target))
    BY <1>7 DEF CommitActive
  <2>2. CASE sessions' = Revoked(req[p].target)
    BY <1>0, <1>2, <2>1, <2>2 DEF IdInv, Revoked, Live, Has, Session
  <2> QED BY <1>3, <2>1, <2>2
<1>8. CASE CommitDelete(p)
  BY <1>0, <1>2, <1>8 DEF CommitDelete, IdInv, Has
<1>9. CASE CommitAssignment(p)
  <2>1. PICK g \in Keys : Fresh(g) /\ used' = used \cup {g} /\ sessions' = sessions
    BY <1>9 DEF CommitAssignment
  <2> QED BY <1>2, <2>1, FreshExtends
<1>10. CASE CommitRole(p) \/ CommitRevoke(p)
  BY <1>3, <1>10 DEF CommitRole, CommitRevoke
<1>11. CASE Reads
  BY <1>3, <1>11 DEF Reads, tables
<1> QED
  BY <1>4, <1>5, <1>6, <1>7, <1>8, <1>9, <1>10, <1>11, ReadingSteps
     DEF Sign, CmdDefaultUser, Administer, PatchRole, PatchActive, PostRoleAssignment,
         DeleteRoleAssignment, CmdSetRole, CmdDeactivate, CmdPreProvision, CmdRevokePreProvision

\* Such a step spends no token.
LEMMA EndsOrStartsKeeps ==
  ASSUME TokenInv, TypeInv', EndsOrStarts, overlap' = overlap
  PROVE  /\ TokenSpentOnce'
         /\ \A k \in used : Unspent(k) => Unspent(k)'
<1>0. /\ \A t \in Keys : Has(sessions, t) => t \in used /\ sessions[t].parent \in used \cup {None}
      /\ used \subseteq Keys /\ None \notin Keys
  BY NoneIsNone DEF TokenInv, IdInv, TypeInv, TypeOK
<1>1. ASSUME NEW t \in Keys, sessions'[t] # None, sessions'[t].parent # None
      PROVE  /\ sessions[t] # None /\ sessions'[t].parent = sessions[t].parent
             /\ sessions[t].parent \in used
  BY <1>0, <1>1 DEF EndsOrStarts, Has
<1>2. ASSUME NEW k \in used, sessions'[k] # None, sessions'[k].state = "live"
      PROVE  sessions[k] # None /\ sessions[k].state = "live"
  BY <1>0, <1>2 DEF EndsOrStarts
<1>3. TokenSpentOnce'
  BY <1>0, <1>1, <1>2 DEF TokenSpentOnce, Live, Has, TokenInv
<1>4. \A k \in used : Unspent(k) => Unspent(k)'
  BY <1>0, <1>1 DEF Unspent, Has
<1> QED BY <1>3, <1>4

\* A rotation ends the token it was given, which no other was given before it.
LEMMA RotationSpends ==
  ASSUME TokenInv, TypeInv', NEW p \in Requests, CommitRefresh(p)
  PROVE  IdInv' /\ TokenSpentOnce'
<1> DEFINE k == req[p].key
<1>0. /\ sessions \in [Keys -> Session \cup {None}] /\ used \subseteq Keys
      /\ None \notin Keys /\ None \notin Session
      /\ k \in Keys /\ sessions[k] # None /\ overlap' = overlap
  BY NoneIsNone DEF TokenInv, TypeInv, TypeOK, HandInv, Hand, CommitRefresh, At, Has
<1>1. k \in used
  BY <1>0 DEF TokenInv, IdInv, Has
<1>2. PICK t \in Keys :
        /\ Fresh(t) /\ used' = used \cup {t}
        /\ sessions' = [[sessions EXCEPT ![k].state = "dead"] EXCEPT
              ![t] = [user |-> req[p].target, state |-> "live", parent |-> k]]
  BY DEF CommitRefresh
<1>3. t \notin used /\ t # k
  BY <1>1, <1>2 DEF Fresh
<1>4. /\ sessions'[t].parent = k
      /\ sessions'[k] # None /\ sessions'[k].state = "dead" /\ sessions'[k].parent = sessions[k].parent
      /\ \A s \in Keys \ {t, k} : sessions'[s] = sessions[s]
  BY <1>0, <1>2, <1>3 DEF Session
<1> HIDE DEF k
<1>5. IdInv'
  <2>1. \A i \in used' : \A j \in Keys : j < i => j \in used'
    BY <1>2, FreshExtends
  <2>2. \A s \in Keys : sessions'[s] # None => s \in used' /\ sessions'[s].parent \in used' \cup {None}
    BY <1>0, <1>1, <1>2, <1>4 DEF TokenInv, IdInv, Has
  <2> QED BY <2>1, <2>2 DEF IdInv, Has
<1>6. ~overlap => \A s \in Keys : sessions[s] # None => sessions[s].parent # k
  BY DEF TokenInv, UnspentInv, Unspent, CommitRefresh, At, Has, k
<1>7. TokenSpentOnce'
  <2> SUFFICES ASSUME NEW s \in Keys, sessions'[s] # None, sessions'[s].parent # None
               PROVE  /\ ~(sessions'[sessions'[s].parent] # None
                           /\ sessions'[sessions'[s].parent].state = "live")
                      /\ ~overlap => \A r \in Keys \ {s} :
                           sessions'[r] # None => sessions'[r].parent # sessions'[s].parent
    BY <1>0 DEF TokenSpentOnce, Live, Has
  <2>1. CASE s = t
    BY <1>0, <1>4, <1>6, <2>1
  <2>2. CASE s # t
    <3>1. sessions[s] # None /\ sessions'[s].parent = sessions[s].parent
      BY <1>0, <1>4, <2>2
    <3>2. sessions[s].parent \in used
      BY <3>1 DEF TokenInv, IdInv, Has
    <3>3. ~(sessions[sessions[s].parent] # None /\ sessions[sessions[s].parent].state = "live")
      BY <3>1 DEF TokenInv, TokenSpentOnce, Live, Has
    <3>4. ~overlap => \A r \in Keys \ {s} : sessions[r] # None => sessions[r].parent # sessions[s].parent
      BY <3>1 DEF TokenInv, TokenSpentOnce, Has
    <3>5. ~overlap => sessions[s].parent # k
      BY <1>6, <3>1
    <3>6. sessions[s].parent # t /\ sessions[s].parent \in Keys
      BY <1>0, <1>3, <3>2
    <3>7. ~(sessions'[sessions[s].parent] # None /\ sessions'[sessions[s].parent].state = "live")
      BY <1>4, <3>3, <3>6
    <3>8. ~overlap => \A r \in Keys \ {s} : sessions'[r] # None => sessions'[r].parent # sessions[s].parent
      BY <1>0, <1>4, <3>4, <3>5
    <3> QED BY <3>1, <3>7, <3>8
  <2> QED BY <2>1, <2>2
<1> QED BY <1>5, <1>7

LEMMA InitTokens == Init => TokenInv
<1> SUFFICES ASSUME Init PROVE TokenInv
  OBVIOUS
<1>1. TypeInv
  BY InitTyped
<1>2. IdInv
  BY DEF Init, IdInv, Has, Keys
<1>3. AloneInv /\ UnspentInv /\ TokenSpentOnce
  BY DEF Init, AloneInv, UnspentInv, TokenSpentOnce, Has, Blank
<1> QED BY <1>1, <1>2, <1>3 DEF TokenInv

LEMMA NextTokens == TokenInv /\ [Next]_vars => TokenInv'
<1> SUFFICES ASSUME TokenInv, [Next]_vars PROVE TokenInv'
  OBVIOUS
<1>0. TypeInv'
  BY NextTyped DEF TokenInv
<1>1. CASE UNCHANGED vars
  BY <1>0, <1>1 DEF vars, TokenInv, IdInv, AloneInv, UnspentInv, Unspent, TokenSpentOnce, Live, Has
<1>2. ASSUME NEW t \in Keys, Expire(t) PROVE TokenInv'
  <2>1. /\ sessions[t] \in Session /\ sessions \in [Keys -> Session \cup {None}]
        /\ None \notin Session
    BY <1>2, NoneIsNone DEF Expire, Live, Has, TokenInv, TypeInv, TypeOK
  <2>2. EndsOrStarts
    BY <1>2, <2>1 DEF Expire, EndsOrStarts, TokenInv, IdInv, Has, Session
  <2>3. TokenSpentOnce' /\ \A k \in used : Unspent(k) => Unspent(k)'
    BY <1>0, <1>2, <2>2, EndsOrStartsKeeps DEF Expire
  <2>4. \A k : Unspent(k) => Unspent(k)'
    BY <1>2, <2>1 DEF Expire, Unspent, Has, Session
  <2>5. AloneInv' /\ UnspentInv'
    BY <1>2, <2>4 DEF Expire, TokenInv, AloneInv, UnspentInv
  <2> QED BY <1>0, <2>2, <2>3, <2>5 DEF TokenInv, EndsOrStarts
<1>3. ASSUME NEW p \in Requests, Sign(p) \/ Load(p) \/ Administer(p) \/ Fail(p) PROVE TokenInv'
  <2>1. /\ \E r : req' = [req EXCEPT ![p] = r]
        /\ req'[p].op = "refresh" => Refresh(p)
        /\ Starts(p) \/ req[p] # Blank
        /\ overlap' = overlap
    BY <1>3, StepOfOne DEF TokenInv
  <2>2. AloneInv'
    BY <2>1 DEF TokenInv, TypeInv, TypeOK, AloneInv, Starts
  <2>3. IdInv' /\ TokenSpentOnce'
    <3>1. CASE CommitRefresh(p)
      BY <1>0, <3>1, RotationSpends
    <3>2. CASE ~CommitRefresh(p)
      BY <1>0, <1>3, <2>1, <3>2, StepEndsOrStarts, EndsOrStartsKeeps DEF EndsOrStarts
    <3> QED BY <3>1, <3>2
  <2>4. UnspentInv'
    <3>0. \A k : Unspent(k)' <=> \A t \in Keys : sessions'[t] # None => sessions'[t].parent # k
      BY DEF Unspent, Has
    <3> SUFFICES ASSUME ~overlap, NEW q \in Requests, req'[q].op = "refresh"
                 PROVE  Unspent(req[q].key)'
      BY <2>1 DEF UnspentInv
    \* Nobody else holds a token while p takes a step.
    <3>1. q = p
      <4>1. req'[q].op # Blank.op
        BY DEF Blank
      <4> QED BY <2>1, <4>1 DEF TokenInv, TypeInv, TypeOK, AloneInv, Starts
    <3>2. Refresh(p)
      BY <2>1, <3>1
    <3>3. PICK t \in Keys : Live(t) /\ req'[p].key = t
      BY <3>2 DEF Refresh, Holding, Blank, TokenInv, TypeInv, TypeOK
    <3>4. Unspent(t)
      BY <3>3, NoneIsNone DEF Unspent, TokenInv, TokenSpentOnce, Live, Has
    <3>5. sessions' = sessions
      BY <3>2 DEF Refresh, Reads, tables
    <3>6. req'[q].key = t
      BY <3>1, <3>3
    <3> QED BY <3>0, <3>4, <3>5, <3>6 DEF Unspent, Has
  <2> QED BY <1>0, <2>2, <2>3, <2>4 DEF TokenInv
<1> QED BY <1>1, <1>2, <1>3 DEF Next

\* A refresh token that was used is dead, however many requests present it at once; where
\* requests do not overlap, it bought one pair (AuthService.refresh).
THEOREM TokensAreSpent == Spec => []TokenSpentOnce
<1>1. Spec => []TokenInv
  BY InitTokens, NextTokens, PTL DEF Spec
<1>2. TokenInv => TokenSpentOnce
  BY DEF TokenInv
<1> QED BY <1>1, <1>2, PTL

-----------------------------------------------------------------------------
\* The elevation list.

\* What an account that is born elevated rests on: an assignment for its address and
\* role, unless it has been revoked since.
RestsOn(r) ==
  r.op = "create" /\ r.new.role \in ELEVATED_ROLES =>
    /\ r.key \in used
    /\ Has(grants, r.key) =>
         grants[r.key].email = r.new.email /\ grants[r.key].role = r.new.role

ListInv ==
  /\ TokenInv
  /\ \A g \in Keys : Has(grants, g) => g \in used
  /\ \A p \in Requests : RestsOn(req[p])

\* An id names one assignment for ever: every step keeps its address and role.
LEMMA GrantsKept ==
  ASSUME ListInv, [Next]_vars
  PROVE  /\ used \subseteq used'
         /\ \A g \in Keys : grants'[g] # None =>
              /\ g \in used'
              /\ g \in used => /\ grants[g] # None
                             /\ grants'[g].email = grants[g].email /\ grants'[g].role = grants[g].role
<1>0. /\ grants \in [Keys -> Grant \cup {None}]
      /\ \A g \in Keys : grants[g] # None => g \in used
  BY DEF ListInv, TokenInv, TypeInv, TypeOK, Has
<1>1. ASSUME used \subseteq used', grants' = grants
      PROVE  \A g \in Keys : grants'[g] # None => g \in used' /\ (g \in used => grants[g] # None)
  BY <1>0, <1>1
<1>2. CASE UNCHANGED vars
  BY <1>1, <1>2 DEF vars
<1>3. CASE \E t \in Keys : Expire(t)
  BY <1>1, <1>3 DEF Expire
<1>4. ASSUME NEW p \in Requests, CommitCreate(p)
      PROVE  /\ used \subseteq used'
             /\ \A g \in Keys : grants'[g] # None =>
                  /\ g \in used' /\ grants[g] # None
                  /\ grants'[g].email = grants[g].email /\ grants'[g].role = grants[g].role
  <2>1. used \subseteq used' /\ grants' = Consume(req[p].key)
        /\ (req[p].key # None => Has(grants, req[p].key))
    BY <1>4 DEF CommitCreate
  <2> QED BY <1>0, <2>1, NoneIsNone DEF Consume, Has, Grant
<1>5. ASSUME NEW p \in Requests, CommitAssignment(p)
      PROVE  \E g \in Keys : /\ g \notin used /\ used' = used \cup {g}
                             /\ \A h \in Keys \ {g} : grants'[h] = grants[h]
  BY <1>0, <1>5 DEF CommitAssignment, Fresh
<1>6. ASSUME NEW p \in Requests, CommitRevoke(p)
      PROVE  used' = used /\ \A h \in Keys : grants'[h] # None => grants'[h] = grants[h]
  BY <1>0, <1>6 DEF CommitRevoke
<1>7. ASSUME NEW p \in Requests,
             \/ CommitLogin(p) \/ CommitRole(p) \/ CommitActive(p) \/ CommitRefresh(p)
             \/ CommitLogout(p) \/ CommitDelete(p) \/ Reads
      PROVE  used \subseteq used' /\ grants' = grants
  BY <1>7 DEF CommitLogin, CommitRole, CommitActive, CommitRefresh, CommitLogout, CommitDelete,
              Issue, Reads, tables
<1>8. ASSUME NEW p \in Requests, Sign(p) \/ Load(p) \/ Administer(p) \/ Fail(p)
      PROVE  \/ CommitCreate(p) \/ CommitAssignment(p) \/ CommitRevoke(p)
             \/ CommitLogin(p) \/ CommitRole(p) \/ CommitActive(p) \/ CommitRefresh(p)
             \/ CommitLogout(p) \/ CommitDelete(p) \/ Reads
  BY <1>8, ReadingSteps
     DEF Sign, CmdDefaultUser, Administer, PatchRole, PatchActive, PostRoleAssignment,
         DeleteRoleAssignment, CmdSetRole, CmdDeactivate, CmdPreProvision, CmdRevokePreProvision
<1>9. ASSUME NEW p \in Requests, Sign(p) \/ Load(p) \/ Administer(p) \/ Fail(p)
      PROVE  /\ used \subseteq used'
             /\ \A g \in Keys : grants'[g] # None =>
                  /\ g \in used'
                  /\ g \in used => /\ grants[g] # None
                                 /\ grants'[g].email = grants[g].email /\ grants'[g].role = grants[g].role
  <2>1. CASE CommitCreate(p)
    BY <1>4, <2>1, <1>0
  <2>2. CASE CommitAssignment(p)
    BY <1>0, <1>5, <2>2
  <2>3. CASE CommitRevoke(p)
    BY <1>0, <1>6, <2>3
  <2>4. CASE used \subseteq used' /\ grants' = grants
    BY <1>0, <2>4
  <2> QED BY <1>7, <1>8, <1>9, <2>1, <2>2, <2>3, <2>4
<1> QED BY <1>0, <1>1, <1>2, <1>3, <1>9 DEF Next, vars, Expire

LEMMA NextList == ListInv /\ [Next]_vars => ListInv'
<1> SUFFICES ASSUME ListInv, [Next]_vars PROVE ListInv'
  OBVIOUS
<1>1. TokenInv'
  BY NextTokens DEF ListInv
<1>2. \A g \in Keys : grants'[g] # None => g \in used'
  BY GrantsKept
\* A request that keeps what it has in hand keeps what it rests on.
<1>3. ASSUME NEW q \in Requests, req'[q] = req[q] PROVE RestsOn(req[q])'
  <2>1. RestsOn(req[q]) /\ used \subseteq Keys
    BY DEF ListInv, TokenInv, TypeInv, TypeOK
  <2> QED BY <1>3, <2>1, GrantsKept DEF RestsOn, Has
<1>4. ASSUME NEW p \in Requests, Sign(p) \/ Load(p) \/ Administer(p) \/ Fail(p), NEW q \in Requests
      PROVE  RestsOn(req[q])'
  <2>1. /\ \E r : req' = [req EXCEPT ![p] = r]
        /\ req'[p].op = "create" => Born(p)
    BY <1>4, StepOfOne DEF ListInv, TokenInv
  <2>2. CASE q # p
    BY <1>3, <2>1, <2>2 DEF ListInv, TokenInv, TypeInv, TypeOK
  <2>3. CASE q = p
    <3> SUFFICES ASSUME req'[p].op = "create", req'[p].new.role \in ELEVATED_ROLES
                 PROVE  /\ req'[p].key \in used'
                        /\ grants'[req'[p].key] # None =>
                             /\ grants'[req'[p].key].email = req'[p].new.email
                             /\ grants'[req'[p].key].role = req'[p].new.role
      BY <2>3 DEF RestsOn, Has
    <3>1. PICK e \in Emails, sub \in Subjects \cup {None}, password \in BOOLEAN :
            Creates(p, "create", NewAccount(e, sub, password))
      BY <2>1 DEF Born
    <3> DEFINE account == NewAccount(e, sub, password)
    <3>2. account.email = e
      BY DEF NewAccount
    <3>3. /\ req'[p].new = account
          /\ req'[p].key = IF GrantOf(e) = {} THEN None ELSE CHOOSE g \in GrantOf(e) : TRUE
      BY <3>1, <3>2 DEF Creates, Holding, Blank, ListInv, TokenInv, TypeInv, TypeOK
    <3>4. GrantOf(e) # {}
      BY <3>3, EmployeeIsLowest, Roles DEF NewAccount, AtMost, ELEVATED_ROLES
    <3>5. req'[p].key \in GrantOf(e)
      BY <3>3, <3>4, Chosen
    <3>6. account.role = grants[req'[p].key].role
      BY <3>3, <3>4 DEF NewAccount
    <3>7. grants' = grants /\ used' = used
      BY <3>1 DEF Creates, Reads, tables
    <3> QED BY <3>2, <3>3, <3>5, <3>6, <3>7 DEF GrantOf, Has, ListInv
  <2> QED BY <2>2, <2>3
<1>5. \A q \in Requests : RestsOn(req[q])'
  BY <1>3, <1>4 DEF Next, vars, Expire
<1> QED BY <1>1, <1>2, <1>5 DEF ListInv, Has

\* A new row of users is an account that is created.
LEMMA NewRowIsCreated ==
  ASSUME ListInv, [Next]_vars, NEW u \in Keys, users[u] = None, users'[u] # None
  PROVE  \E p \in Requests : CommitCreate(p) /\ users'[u] = req[p].new
<1>0. users \in [Keys -> Account \cup {None}]
  BY DEF ListInv, TokenInv, TypeInv, TypeOK
<1>1. ASSUME NEW p \in Requests, CommitLogin(p) \/ CommitRole(p) \/ CommitActive(p) PROVE FALSE
  BY <1>0, <1>1 DEF CommitLogin, CommitRole, CommitActive, Has
<1>2. ASSUME NEW p \in Requests, CommitDelete(p) PROVE FALSE
  BY <1>0, <1>2 DEF CommitDelete
<1>3. ASSUME NEW p \in Requests,
             CommitRefresh(p) \/ CommitLogout(p) \/ CommitAssignment(p) \/ CommitRevoke(p) \/ Reads
      PROVE FALSE
  BY <1>3 DEF CommitRefresh, CommitLogout, CommitAssignment, CommitRevoke, Reads, tables
<1>4. ASSUME NEW p \in Requests, CommitCreate(p) PROVE users'[u] = req[p].new
  BY <1>0, <1>4 DEF CommitCreate
<1>5. PICK p \in Requests : Sign(p) \/ Load(p) \/ Administer(p) \/ Fail(p)
  BY DEF Next, vars, Expire
<1> QED
  BY <1>1, <1>2, <1>3, <1>4, <1>5, ReadingSteps
     DEF Sign, CmdDefaultUser, Administer, PatchRole, PatchActive, PostRoleAssignment,
         DeleteRoleAssignment, CmdSetRole, CmdDeactivate, CmdPreProvision, CmdRevokePreProvision

\* An account born elevated uses up the assignment that made it so, in the commit that
\* creates it: an assignment revoked meanwhile makes nobody (AuthService._create_account).
THEOREM ElevationUsesTheList == Spec => ElevationIsSpent
<1> DEFINE Step == \A u \in Keys :
      ~Has(users, u) /\ users'[u] # None /\ minted' = minted /\ users'[u].role \in ELEVATED_ROLES
      => \E g \in GrantOf(users'[u].email) :
           grants[g].role = users'[u].role /\ grants'[g].consumed
<1>1. ListInv /\ [Next]_vars => [Step]_vars
  <2> SUFFICES ASSUME ListInv, [Next]_vars, NEW u \in Keys, users[u] = None, users'[u] # None,
                      minted' = minted, users'[u].role \in ELEVATED_ROLES
               PROVE  \E g \in GrantOf(users'[u].email) :
                        grants[g].role = users'[u].role /\ grants'[g].consumed
    BY DEF Has
  <2>1. PICK p \in Requests : CommitCreate(p) /\ users'[u] = req[p].new
    BY NewRowIsCreated
  <2>2. req[p].op = "create"
    BY <2>1 DEF CommitCreate, At, ListInv, TokenInv, TypeInv, TypeOK
  <2>3. req[p].key \in Keys /\ Has(grants, req[p].key) /\ None \notin Grant
    <3>1. req[p].key \in used /\ used \subseteq Keys
      BY <2>1, <2>2 DEF ListInv, RestsOn, TokenInv, TypeInv, TypeOK
    <3> QED BY <2>1, <3>1, NoneIsNone DEF CommitCreate
  <2>4. grants[req[p].key].email = users'[u].email /\ grants[req[p].key].role = users'[u].role
    BY <2>1, <2>2, <2>3 DEF ListInv, RestsOn
  <2>5. grants'[req[p].key].consumed
    <3>1. grants[req[p].key] \in Grant
      BY <2>3 DEF Has, ListInv, TokenInv, TypeInv, TypeOK
    <3> QED BY <2>1, <2>3, <3>1 DEF CommitCreate, Consume, Grant
  <2> QED BY <2>3, <2>4, <2>5 DEF GrantOf
<1>2. ASSUME Init PROVE ListInv
  <2>1. TokenInv
    BY <1>2, InitTokens
  <2>2. \A g \in Keys : Has(grants, g) => g \in used
    BY <1>2 DEF Init, Has
  <2>3. \A p \in Requests : RestsOn(req[p])
    BY <1>2 DEF Init, RestsOn, Blank
  <2> QED BY <2>1, <2>2, <2>3 DEF ListInv
<1>3. Spec => []ListInv
  BY <1>2, NextList, PTL DEF Spec
<1> QED BY <1>1, <1>3, PTL DEF Spec, ElevationIsSpent
-----------------------------------------------------------------------------
\* One request at a time.

\* Whoever is signed in has an active account; an assignment that waits is for an
\* address without one, and no address has two.
Settled ==
  /\ \A t \in Keys : Live(t) => Has(users, sessions[t].user) /\ users[sessions[t].user].active
  /\ \A g \in Keys : Has(grants, g) /\ ~grants[g].consumed => AccountOf(grants[g].email) = {}
  /\ \A g, h \in Keys : Has(grants, g) /\ Has(grants, h) /\ grants[g].email = grants[h].email => g = h

\* What a request has read is still so: an entity it writes back is the row but for
\* the columns it means to change, and the lookups it made find what they found.
Current(r) ==
  /\ r.op \in {"login", "role", "active"} =>
       /\ Has(users, r.target) /\ r.new.email = users[r.target].email
       /\ r.at = "loaded" => r.dirty = {c \in Columns : r.new[c] # users[r.target][c]}
  /\ r.op \in {"login", "role"} => r.new.active = users[r.target].active
  /\ r.op \in {"login", "refresh"} => Has(users, r.target) /\ users[r.target].active
  /\ r.op \in {"create", "bootstrap"} => r.new.active /\ \A g \in GrantOf(r.new.email) : g = r.key
  /\ r.op = "assign" => AccountOf(r.new.email) = {}

SoloInv == ~overlap => Settled /\ \A p \in Requests : Current(req[p])

LEMMA BlankCurrent == Current(Blank)
BY DEF Current, Blank

\* What a step of p must show: the other requests have nothing in hand.
LEMMA SoloReads ==
  ASSUME TypeInv, AloneInv, SoloInv, NEW p \in Requests, NEW r, Starts(p) \/ req[p] # Blank,
         Holding(p, r), Reads, ~overlap => Current(r)
  PROVE  SoloInv'
<1> SUFFICES ASSUME ~overlap PROVE Settled' /\ \A q \in Requests : Current(req[q])'
  BY DEF SoloInv, Reads
<1>1. users' = users /\ grants' = grants /\ sessions' = sessions
  BY DEF Reads, tables
<1>2. Settled'
  BY <1>1 DEF SoloInv, Settled, Live, Has, AccountOf
<1>3. ASSUME NEW q \in Requests PROVE Current(req'[q])
  <2>1. req'[q] = IF q = p THEN r ELSE req[q]
    BY DEF Holding, TypeInv, TypeOK
  <2> QED BY <2>1 DEF SoloInv
<1>4. ASSUME NEW h, Current(h) PROVE Current(h)'
  BY <1>1, <1>4 DEF Current, Has, AccountOf, GrantOf
<1> QED BY <1>2, <1>3, <1>4

LEMMA SoloWrites ==
  ASSUME TypeInv, AloneInv, NEW p \in Requests, req[p] # Blank, Done(p), overlap' = overlap,
         ~overlap => Settled'
  PROVE  SoloInv'
<1> SUFFICES ASSUME ~overlap PROVE \A q \in Requests : Current(req[q])'
  BY DEF SoloInv
<1>1. \A q \in Requests : req'[q] = Blank
  BY DEF AloneInv, Done, Holding, TypeInv, TypeOK
<1>2. Current(Blank)'
  BY DEF Current, Blank
<1> QED BY <1>1, <1>2
\* What a request takes in hand is what the tables say.

LEMMA CreatesCurrent ==
  ASSUME TypeInv, AloneInv, SoloInv, NEW p \in Requests, NEW op \in {"create", "bootstrap"},
         NEW account \in Account, account.active, Starts(p), Creates(p, op, account)
  PROVE  SoloInv'
<1> DEFINE e == account.email
<1>1. PICK key : key = IF GrantOf(e) = {} THEN None ELSE CHOOSE g \in GrantOf(e) : TRUE
  OBVIOUS
<1> DEFINE r == [Blank EXCEPT !.op = op, !.at = "decided", !.new = account, !.key = key]
<1>2. Holding(p, r) /\ Reads
  BY <1>1 DEF Creates
<1>3. r.op = op /\ r.new = account /\ r.key = key
  BY DEF Blank
<1>4. ~overlap => \A g \in GrantOf(e) : g = key
  <2> SUFFICES ASSUME ~overlap, NEW g \in GrantOf(e) PROVE g = key
    OBVIOUS
  <2>1. key \in GrantOf(e)
    BY <1>1, Chosen
  <2> QED BY <2>1 DEF GrantOf, SoloInv, Settled
<1> HIDE DEF r
<1>5. ~overlap => Current(r)
  BY <1>3, <1>4 DEF Current
<1> QED BY <1>2, <1>5, SoloReads

\* An entity that keeps the row's address, and its active column unless that is what
\* the request is about.
LEMMA EditsCurrent ==
  ASSUME TypeInv, AloneInv, SoloInv, NEW p \in Requests, NEW h \in Held,
         NEW op \in {"login", "role", "active"}, NEW u \in Keys, NEW entity,
         Starts(p) \/ req[p] # Blank, Edits(p, h, op, u, entity),
         Has(users, u), entity.email = users[u].email,
         op = "active" \/ entity.active = users[u].active,
         op = "login" => users[u].active
  PROVE  SoloInv'
<1> DEFINE r == [h EXCEPT !.op = op, !.at = "decided", !.target = u, !.new = entity]
<1>1. Holding(p, r) /\ Reads
  BY DEF Edits
<1>2. r.op = op /\ r.at = "decided" /\ r.target = u /\ r.new = entity
  BY DEF Held
<1> HIDE DEF r
<1>3. Current(r)
  BY <1>2 DEF Current
<1> QED BY <1>1, <1>3, SoloReads

LEMMA SigningCurrent ==
  ASSUME TypeInv, AloneInv, SoloInv, NEW p \in Requests,
         Register(p) \/ Bootstrap(p) \/ Login(p) \/ GoogleLogin(p)
  PROVE  SoloInv'
<1>0. \A e, sub, password : NewAccount(e, sub, password).active
  BY DEF NewAccount
<1>1. CASE Register(p)
  BY <1>0, <1>1, NewAccountTyped, CreatesCurrent DEF Register
<1>2. CASE Bootstrap(p)
  <2>1. PICK e \in Emails :
          Creates(p, "bootstrap", [NewAccount(e, None, TRUE) EXCEPT !.role = "SUPER_ADMIN"])
    BY <1>2 DEF Bootstrap
  <2>2. [NewAccount(e, None, TRUE) EXCEPT !.role = "SUPER_ADMIN"] \in Account
        /\ [NewAccount(e, None, TRUE) EXCEPT !.role = "SUPER_ADMIN"].active
    BY PromotedTyped
  <2> QED BY <1>2, <2>1, <2>2, CreatesCurrent DEF Bootstrap
<1>3. CASE Login(p)
  <2>1. PICK u \in Keys : Has(users, u) /\ users[u].active /\ Edits(p, Blank, "login", u, users[u])
    BY <1>3 DEF Login
  <2>2. PICK entity : entity = users[u]
    OBVIOUS
  <2> QED BY <1>3, <2>1, <2>2, EditsCurrent, BlankHeld DEF Login
<1>4. CASE GoogleLogin(p)
  <2>1. CASE \E e \in Emails, sub \in Subjects : Creates(p, "create", NewAccount(e, sub, FALSE))
    BY <1>0, <1>4, <2>1, GoogleSigns, NewAccountTyped, CreatesCurrent
  <2>2. ASSUME NEW u \in Keys, NEW sub \in Subjects,
               Has(users, u), users[u] \in Account, users[u].active,
               Edits(p, Blank, "login", u, [users[u] EXCEPT !.google_sub = sub])
        PROVE  SoloInv'
    <3>1. PICK entity : entity = [users[u] EXCEPT !.google_sub = sub]
      OBVIOUS
    <3>2. entity.email = users[u].email /\ entity.active = users[u].active
      BY <2>2, <3>1 DEF Account
    <3>3. Edits(p, Blank, "login", u, entity) /\ Starts(p)
      BY <1>4, <2>2, <3>1, GoogleSigns
    <3> QED BY <2>2, <3>2, <3>3, EditsCurrent, BlankHeld
  <2> QED BY <1>4, <2>1, <2>2, GoogleSigns
<1> QED BY <1>1, <1>2, <1>3, <1>4

LEMMA TokenCurrent ==
  ASSUME TypeInv, AloneInv, SoloInv, NEW p \in Requests, Refresh(p) \/ Logout(p)
  PROVE  SoloInv'
<1>1. CASE Refresh(p)
  <2>0. PICK t \in Keys :
          /\ Has(users, sessions[t].user) /\ users[sessions[t].user].active
          /\ Holding(p, [Blank EXCEPT !.op = "refresh", !.at = "decided", !.key = t,
                           !.target = sessions[t].user])
    BY <1>1 DEF Refresh
  <2>1. PICK u : u = sessions[t].user
    OBVIOUS
  <2> DEFINE r == [Blank EXCEPT !.op = "refresh", !.at = "decided", !.key = t, !.target = u]
  <2>2. r.op = "refresh" /\ r.target = u
    BY DEF Blank
  <2>3. Holding(p, r) /\ Starts(p) /\ Reads
    BY <1>1, <2>0, <2>1 DEF Refresh
  <2> HIDE DEF r
  <2>4. Current(r)
    BY <2>0, <2>1, <2>2 DEF Current
  <2> QED BY <2>3, <2>4, SoloReads
<1>2. CASE Logout(p)
  <2>1. PICK t \in Keys : Holding(p, [Blank EXCEPT !.op = "logout", !.at = "decided", !.key = t])
    BY <1>2 DEF Logout
  <2> DEFINE r == [Blank EXCEPT !.op = "logout", !.at = "decided", !.key = t]
  <2>2. Holding(p, r) /\ Starts(p) /\ Reads
    BY <1>2, <2>1 DEF Logout
  <2>3. Current(r)
    BY DEF Blank, Current
  <2> HIDE DEF r
  <2> QED BY <2>2, <2>3, SoloReads
<1> QED BY <1>1, <1>2

LEMMA LoadCurrent ==
  ASSUME TypeInv, AloneInv, SoloInv, NEW p \in Requests, Load(p)
  PROVE  SoloInv'
<1>1. PICK h, d : h = req[p] /\ d = {c \in Columns : req[p].new[c] # users[req[p].target][c]}
  OBVIOUS
<1> DEFINE r == [h EXCEPT !.at = "loaded", !.dirty = d]
<1>2. Holding(p, r) /\ Reads /\ h.op \in {"login", "role", "active"} /\ h \in Held
  BY <1>1 DEF Load, TypeInv, TypeOK
<1>3. r.op = h.op /\ r.target = h.target /\ r.new = h.new /\ r.dirty = d
  BY <1>2 DEF Held
<1>4. req[p] # Blank
  BY <1>1, <1>2 DEF Blank
<1> HIDE DEF r
<1>5. ~overlap => Current(r)
  <2> SUFFICES ASSUME ~overlap PROVE Current(r)
    OBVIOUS
  <2>1. Current(h)
    BY <1>1 DEF SoloInv
  <2> QED BY <1>1, <1>2, <1>3, <2>1 DEF Current
<1> QED BY <1>2, <1>4, <1>5, SoloReads

LEMMA AdminCurrent ==
  ASSUME TypeInv, AloneInv, SoloInv, NEW p \in Requests,
         \/ Admit(p) \/ DeleteUser(p) \/ RevokeRoleAssignment(p) \/ ChangeRole(p)
         \/ (\E active \in BOOLEAN : SetActive(p, active)) \/ CreateRoleAssignment(p)
  PROVE  SoloInv'
<1>0. req[p] \in Held
  BY DEF TypeInv, TypeOK
<1>1. CASE Admit(p)
  <2>1. PICK a \in Keys :
          Holding(p, [Blank EXCEPT !.op = "admin", !.at = "admitted", !.actor = a, !.by = users[a].role])
    BY <1>1 DEF Admit
  <2>2. PICK by : by = users[a].role
    OBVIOUS
  <2> DEFINE r == [Blank EXCEPT !.op = "admin", !.at = "admitted", !.actor = a, !.by = by]
  <2>3. Holding(p, r) /\ Starts(p) /\ Reads
    BY <1>1, <2>1, <2>2 DEF Admit
  <2>4. Current(r)
    BY DEF Blank, Current
  <2> HIDE DEF r
  <2> QED BY <2>3, <2>4, SoloReads
<1>2. ASSUME Admitting(p) PROVE req[p] # Blank
  BY <1>2 DEF Admitting, At, Blank
<1>3. PICK h \in Held : h = req[p]
  BY <1>0
<1>4. CASE DeleteUser(p)
  <2>1. PICK u \in Keys : Holding(p, [req[p] EXCEPT !.op = "delete", !.at = "decided", !.target = u])
    BY <1>4 DEF DeleteUser
  <2> DEFINE r == [h EXCEPT !.op = "delete", !.at = "decided", !.target = u]
  <2>2. Holding(p, r) /\ Reads /\ req[p] # Blank
    BY <1>2, <1>3, <1>4, <2>1 DEF DeleteUser, May
  <2>3. Current(r)
    BY DEF Held, Current
  <2> HIDE DEF r
  <2> QED BY <2>2, <2>3, SoloReads
<1>5. CASE RevokeRoleAssignment(p)
  <2>1. PICK g \in Keys : Holding(p, [req[p] EXCEPT !.op = "revoke", !.at = "decided", !.key = g])
    BY <1>5 DEF RevokeRoleAssignment
  <2> DEFINE r == [h EXCEPT !.op = "revoke", !.at = "decided", !.key = g]
  <2>2. Holding(p, r) /\ Reads /\ req[p] # Blank
    BY <1>2, <1>3, <1>5, <2>1 DEF RevokeRoleAssignment
  <2>3. Current(r)
    BY DEF Held, Current
  <2> HIDE DEF r
  <2> QED BY <2>2, <2>3, SoloReads
<1>6. CASE ChangeRole(p)
  <2>1. PICK u \in Keys, role \in RolesAsked :
          Has(users, u) /\ Edits(p, req[p], "role", u, [users[u] EXCEPT !.role = role])
    BY <1>6 DEF ChangeRole, Over
  <2>2. PICK entity : entity = [users[u] EXCEPT !.role = role]
    OBVIOUS
  <2>3. entity.email = users[u].email /\ entity.active = users[u].active
    BY <2>1, <2>2 DEF Has, TypeInv, TypeOK, Account
  <2> QED BY <1>2, <1>3, <1>6, <2>1, <2>2, <2>3, EditsCurrent DEF ChangeRole
<1>7. CASE \E active \in BOOLEAN : SetActive(p, active)
  <2>1. PICK u \in Keys, active \in BOOLEAN :
          Has(users, u) /\ Edits(p, req[p], "active", u, [users[u] EXCEPT !.active = active])
    BY <1>7 DEF SetActive, Over
  <2>2. PICK entity : entity = [users[u] EXCEPT !.active = active]
    OBVIOUS
  <2>3. entity.email = users[u].email
    BY <2>1, <2>2 DEF Has, TypeInv, TypeOK, Account
  <2> QED BY <1>2, <1>3, <1>7, <2>1, <2>2, <2>3, EditsCurrent DEF SetActive
<1>8. CASE CreateRoleAssignment(p)
  <2>1. PICK entity :
          /\ AccountOf(entity.email) = {}
          /\ Edits(p, req[p], "assign", None, entity)
    BY <1>8 DEF CreateRoleAssignment
  <2> DEFINE r == [h EXCEPT !.op = "assign", !.at = "decided", !.target = None, !.new = entity]
  <2>2. Holding(p, r) /\ Reads
    BY <1>3, <2>1 DEF Edits
  <2>3. r.op = "assign" /\ r.new = entity
    BY DEF Held
  <2> HIDE DEF r
  <2>4. Current(r)
    BY <2>1, <2>3 DEF Current
  <2> QED BY <1>2, <1>8, <2>2, <2>4, SoloReads DEF CreateRoleAssignment
<1> QED BY <1>1, <1>4, <1>5, <1>6, <1>7, <1>8
\* What a request writes leaves the tables settled.

SettledNext ==
  /\ \A t \in Keys : sessions'[t] # None /\ sessions'[t].state = "live" =>
       users'[sessions'[t].user] # None /\ users'[sessions'[t].user].active
  /\ \A g, u \in Keys : grants'[g] # None /\ ~grants'[g].consumed /\ users'[u] # None =>
       users'[u].email # grants'[g].email
  /\ \A g, h \in Keys : grants'[g] # None /\ grants'[h] # None /\ grants'[g].email = grants'[h].email
       => g = h

LEMMA SettledThen == SettledNext => Settled'
BY DEF SettledNext, Settled, Live, Has, AccountOf

LEMMA SettledNow ==
  ASSUME SoloInv, ~overlap
  PROVE  /\ \A t \in Keys : sessions[t] # None /\ sessions[t].state = "live" =>
              users[sessions[t].user] # None /\ users[sessions[t].user].active
         /\ \A g, u \in Keys : grants[g] # None /\ ~grants[g].consumed /\ users[u] # None =>
              users[u].email # grants[g].email
         /\ \A g, h \in Keys : grants[g] # None /\ grants[h] # None /\ grants[g].email = grants[h].email
              => g = h
BY DEF SoloInv, Settled, Live, Has, AccountOf

\* Nothing was written since the select: the row becomes the entity.
LEMMA WrittenIsEntity ==
  ASSUME SoloInv, ~overlap, NEW p \in Requests, req[p].at = "loaded",
         req[p].op \in {"login", "role", "active"}
  PROVE  /\ Written(p).active = req[p].new.active
         /\ Written(p).email = users[req[p].target].email
BY DEF SoloInv, Current, Written, Columns

\* An account that is created is active, and spends the assignment for its address.
LEMMA CreateSettles ==
  ASSUME TypeInv, SoloInv, ~overlap, NEW p \in Requests, CommitCreate(p)
  PROVE  Settled'
<1>0. /\ users \in [Keys -> Account \cup {None}] /\ grants \in [Keys -> Grant \cup {None}]
      /\ sessions \in [Keys -> Session \cup {None}] /\ None \notin Grant \cup Account \cup Session
  BY NoneIsNone DEF TypeInv, TypeOK
<1>1. PICK new : new = req[p].new
  OBVIOUS
<1>2. new \in Account /\ new.active /\ \A g \in Keys : grants[g] # None /\ grants[g].email = new.email => g = req[p].key
  BY <1>1 DEF CommitCreate, At, TypeInv, HandInv, Hand, SoloInv, Current, GrantOf, Has
<1>3. PICK u \in Keys, t \in Keys :
        /\ users' = [users EXCEPT ![u] = new]
        /\ sessions' = [sessions EXCEPT ![t] = [user |-> u, state |-> "live", parent |-> None]]
  BY <1>1 DEF CommitCreate
<1>4. \A g \in Keys : /\ grants'[g] # None => grants[g] # None /\ grants'[g].email = grants[g].email
                      /\ grants'[g] # None /\ ~grants'[g].consumed => g # req[p].key /\ ~grants[g].consumed
  <2> SUFFICES ASSUME NEW g \in Keys, grants'[g] # None
               PROVE  /\ grants[g] # None /\ grants'[g].email = grants[g].email
                      /\ ~grants'[g].consumed => g # req[p].key /\ ~grants[g].consumed
    OBVIOUS
  <2>1. grants'[g] = IF g = req[p].key THEN [grants[g] EXCEPT !.consumed = TRUE] ELSE grants[g]
    BY DEF CommitCreate, Consume
  <2>2. g = req[p].key => grants[g] \in Grant
    BY <1>0, NoneIsNone DEF CommitCreate, Has
  <2> QED BY <1>0, <2>1, <2>2 DEF Grant
<1>5. \A s \in Keys : sessions'[s] # None /\ sessions'[s].state = "live" =>
        users'[sessions'[s].user] # None /\ users'[sessions'[s].user].active
  BY <1>0, <1>2, <1>3, SettledNow DEF Session
<1>6. \A g, v \in Keys : grants'[g] # None /\ ~grants'[g].consumed /\ users'[v] # None =>
        users'[v].email # grants'[g].email
  BY <1>0, <1>2, <1>3, <1>4, SettledNow
<1>7. \A g, h \in Keys : grants'[g] # None /\ grants'[h] # None /\ grants'[g].email = grants'[h].email
        => g = h
  BY <1>4, SettledNow
<1> QED BY <1>5, <1>6, <1>7, SettledThen DEF SettledNext

\* A row rewritten keeps its address; it is made inactive only with its sessions ended.
LEMMA UpdateSettles ==
  ASSUME TypeInv, SoloInv, ~overlap, NEW p \in Requests,
         CommitLogin(p) \/ CommitRole(p) \/ CommitActive(p)
  PROVE  Settled'
<1>0. /\ users \in [Keys -> Account \cup {None}] /\ sessions \in [Keys -> Session \cup {None}]
      /\ None \notin Account \cup Session
  BY NoneIsNone DEF TypeInv, TypeOK
<1>1. PICK u, new, w : u = req[p].target /\ new = req[p].new /\ w = Written(p)
  OBVIOUS
<1>2. /\ req[p].at = "loaded" /\ req[p].op \in {"login", "role", "active"}
      /\ u \in Keys /\ new \in Account /\ users[u] # None
      /\ users' = [users EXCEPT ![u] = w] /\ grants' = grants
  BY <1>1 DEF CommitLogin, CommitRole, CommitActive, At, Has, TypeInv, HandInv, Hand
<1>3. w \in Account /\ w.active = new.active /\ w.email = users[u].email
  BY <1>1, <1>2, WrittenTyped, WrittenIsEntity DEF Has
<1>4. \A v \in Keys : users'[v] # None => users[v] # None /\ users'[v].email = users[v].email
  BY <1>0, <1>2, <1>3
<1>5. \A s \in Keys : sessions'[s] # None /\ sessions'[s].state = "live" =>
        users'[sessions'[s].user] # None /\ users'[sessions'[s].user].active
  <2>1. CASE CommitLogin(p)
    <3>1. new.active
      BY <1>1, <2>1 DEF CommitLogin, At, SoloInv, Current
    <3>2. PICK t \in Keys :
            sessions' = [sessions EXCEPT ![t] = [user |-> u, state |-> "live", parent |-> None]]
      BY <1>1, <2>1 DEF CommitLogin, Issue
    <3> QED BY <1>0, <1>2, <1>3, <3>1, <3>2, SettledNow DEF Session
  <2>2. CASE CommitRole(p)
    <3>1. new.active = users[u].active /\ sessions' = sessions
      BY <1>1, <2>2 DEF CommitRole, At, SoloInv, Current
    <3> QED BY <1>0, <1>2, <1>3, <3>1, SettledNow DEF Session
  <2>3. CASE CommitActive(p)
    <3>1. CASE new.active
      <4>1. sessions' = sessions
        BY <1>1, <2>3, <3>1 DEF CommitActive
      <4> QED BY <1>0, <1>2, <1>3, <3>1, <4>1, SettledNow DEF Session
    <3>2. CASE ~new.active
      <4>1. sessions' = Revoked(u)
        BY <1>1, <2>3, <3>2 DEF CommitActive
      <4>2. \A s \in Keys : sessions'[s] # None /\ sessions'[s].state = "live" =>
              sessions'[s] = sessions[s] /\ sessions[s].user # u
        BY <1>0, <4>1 DEF Revoked, Live, Has, Session
      <4> QED BY <1>0, <1>2, <4>2, SettledNow DEF Session
    <3> QED BY <3>1, <3>2
  <2> QED BY <2>1, <2>2, <2>3
<1> QED BY <1>2, <1>4, <1>5, SettledNow, SettledThen DEF SettledNext

LEMMA OthersSettle ==
  ASSUME TypeInv, SoloInv, ~overlap, NEW p \in Requests,
         \/ CommitRefresh(p) \/ CommitLogout(p) \/ CommitDelete(p) \/ CommitAssignment(p)
         \/ CommitRevoke(p)
  PROVE  Settled'
<1>0. /\ users \in [Keys -> Account \cup {None}] /\ sessions \in [Keys -> Session \cup {None}]
      /\ grants \in [Keys -> Grant \cup {None}] /\ None \notin Account \cup Session \cup Grant
  BY NoneIsNone DEF TypeInv, TypeOK
<1>1. CASE CommitRefresh(p)
  <2>1. PICK u, k : u = req[p].target /\ k = req[p].key
    OBVIOUS
  <2>2. k \in Keys /\ sessions[k] \in Session /\ users[u] # None /\ users[u].active
    BY <1>0, <1>1, <2>1 DEF CommitRefresh, At, Has, TypeInv, HandInv, Hand, SoloInv, Current
  <2>3. PICK t \in Keys :
          sessions' = [[sessions EXCEPT ![k].state = "dead"] EXCEPT
                         ![t] = [user |-> u, state |-> "live", parent |-> k]]
    BY <1>1, <2>1 DEF CommitRefresh
  <2>4. \A s \in Keys : sessions'[s] # None /\ sessions'[s].state = "live" =>
          sessions'[s].user = u \/ sessions'[s] = sessions[s]
    BY <1>0, <2>2, <2>3 DEF Session
  <2> QED BY <1>1, <2>2, <2>4, SettledNow, SettledThen DEF CommitRefresh, SettledNext
<1>2. CASE CommitLogout(p)
  <2>1. PICK k \in Keys : sessions[k] \in Session /\ sessions' = [sessions EXCEPT ![k].state = "dead"]
    BY <1>0, <1>2 DEF CommitLogout, At, Has, TypeInv, HandInv, Hand
  <2>2. \A s \in Keys : sessions'[s] # None /\ sessions'[s].state = "live" => sessions'[s] = sessions[s]
    BY <1>0, <2>1 DEF Session
  <2> QED BY <1>2, <2>2, SettledNow, SettledThen DEF CommitLogout, SettledNext
<1>3. CASE CommitDelete(p)
  <2>1. PICK u : u = req[p].target
    OBVIOUS
  <2>2. /\ users' = [users EXCEPT ![u] = None] /\ grants' = grants
        /\ \A s \in Keys : sessions'[s] # None => sessions'[s] = sessions[s] /\ sessions[s].user # u
    BY <1>3, <2>1 DEF CommitDelete, Has
  <2>3. \A v \in Keys : v # u => users'[v] = users[v]
    BY <1>0, <2>2
  <2>4. \A v \in Keys : users'[v] # None => users'[v] = users[v]
    BY <1>0, <2>2
  <2>5. \A s \in Keys : sessions[s] # None => sessions[s].user \in Keys
    BY <1>0 DEF Session
  <2> QED BY <2>2, <2>3, <2>4, <2>5, SettledNow, SettledThen DEF SettledNext
<1>4. CASE CommitAssignment(p)
  <2>1. PICK new : new = req[p].new
    OBVIOUS
  <2>2. /\ \A u \in Keys : users[u] # None => users[u].email # new.email
        /\ \A g \in Keys : grants[g] # None => grants[g].email # new.email
    BY <1>4, <2>1 DEF CommitAssignment, At, SoloInv, Current, AccountOf, GrantOf, Has
  <2>3. PICK k \in Keys :
          grants' = [grants EXCEPT ![k] = [email |-> new.email, role |-> new.role, consumed |-> FALSE]]
    BY <1>4, <2>1 DEF CommitAssignment
  <2>4. users' = users /\ sessions' = sessions
    BY <1>4 DEF CommitAssignment
  <2>5. \A g \in Keys : g # k => grants'[g] = grants[g]
    BY <1>0, <2>3
  <2>6. grants'[k].email = new.email
    BY <1>0, <2>3
  <2> QED BY <2>2, <2>4, <2>5, <2>6, SettledNow, SettledThen DEF SettledNext
<1>5. CASE CommitRevoke(p)
  <2>1. /\ users' = users /\ sessions' = sessions
        /\ \A g \in Keys : grants'[g] # None => grants'[g] = grants[g]
    BY <1>0, <1>5 DEF CommitRevoke
  <2> QED BY <2>1, SettledNow, SettledThen DEF SettledNext
<1> QED BY <1>1, <1>2, <1>3, <1>4, <1>5

LEMMA InitSolo == Init => SoloInv
<1> SUFFICES ASSUME Init PROVE SoloInv
  OBVIOUS
<1>1. Settled
  BY DEF Init, Settled, Live, Has, AccountOf, Keys
<1>2. \A p \in Requests : Current(req[p])
  BY BlankCurrent DEF Init
<1> QED BY <1>1, <1>2 DEF SoloInv

LEMMA NextSolo == TypeInv /\ AloneInv /\ SoloInv /\ [Next]_vars => SoloInv'
<1> SUFFICES ASSUME TypeInv, AloneInv, SoloInv, [Next]_vars PROVE SoloInv'
  OBVIOUS
<1>1. CASE UNCHANGED vars
  BY <1>1 DEF vars, SoloInv, Settled, Live, Current, Has, AccountOf, GrantOf
<1>2. ASSUME NEW t \in Keys, Expire(t) PROVE SoloInv'
  <2>1. sessions[t] \in Session /\ sessions \in [Keys -> Session \cup {None}] /\ None \notin Session
    BY <1>2, NoneIsNone DEF Expire, Live, Has, TypeInv, TypeOK
  <2>2. \A s \in Keys : sessions'[s] # None /\ sessions'[s].state = "live" => sessions'[s] = sessions[s]
    BY <1>2, <2>1 DEF Expire, Session
  <2>3. ~overlap => Settled'
    BY <1>2, <2>2, SettledNow, SettledThen DEF Expire, SettledNext
  <2>4. ~overlap => \A p \in Requests : Current(req[p])'
    BY <1>2 DEF Expire, SoloInv, Current, Has, AccountOf, GrantOf
  <2> QED BY <1>2, <2>3, <2>4 DEF Expire, SoloInv
\* A request that is done with what it wrote.
<1>3. ASSUME NEW p \in Requests,
             \/ CommitCreate(p) \/ CommitLogin(p) \/ CommitRole(p) \/ CommitActive(p)
             \/ CommitRefresh(p) \/ CommitLogout(p) \/ CommitDelete(p) \/ CommitAssignment(p)
             \/ CommitRevoke(p)
      PROVE  SoloInv'
  <2>1. ~overlap => Settled'
    BY <1>3, CreateSettles, UpdateSettles, OthersSettle
  <2>2. req[p].op # "none" /\ Done(p) /\ overlap' = overlap
    BY <1>3 DEF CommitCreate, CommitLogin, CommitRole, CommitActive, CommitRefresh, CommitLogout,
                CommitDelete, CommitAssignment, CommitRevoke, At
  <2>3. req[p] # Blank
    BY <2>2 DEF Blank
  <2> QED BY <2>1, <2>2, <2>3, SoloWrites
<1>4. ASSUME NEW p \in Requests, Fail(p) PROVE SoloInv'
  BY <1>4, SoloReads, BlankCurrent DEF Fail, Done
<1>5. ASSUME NEW p \in Requests, Sign(p) PROVE SoloInv'
  BY <1>3, <1>5, SigningCurrent, TokenCurrent DEF Sign, CmdDefaultUser
<1>6. ASSUME NEW p \in Requests, Administer(p) PROVE SoloInv'
  BY <1>3, <1>6, AdminCurrent
     DEF Administer, PatchRole, PatchActive, PostRoleAssignment, DeleteRoleAssignment,
         CmdSetRole, CmdDeactivate, CmdPreProvision, CmdRevokePreProvision
<1> QED BY <1>1, <1>2, <1>4, <1>5, <1>6, LoadCurrent DEF Next

LEMMA SoloHolds == Spec => []SoloInv
<1>1. TokenInv => TypeInv /\ AloneInv
  BY DEF TokenInv
<1> QED BY <1>1, InitTokens, NextTokens, InitSolo, NextSolo, PTL DEF Spec

\* Where requests do not overlap, deactivation ends every session of the account and
\* nothing signs it in again (AdminService.set_active, AuthService.login, refresh).
THEOREM DeactivationSignsOut == Spec => []DeactivatedIsSignedOut
<1>1. SoloInv => DeactivatedIsSignedOut
  BY DEF SoloInv, Settled, DeactivatedIsSignedOut
<1> QED BY <1>1, SoloHolds, PTL

\* Where requests do not overlap, an assignment is refused to an address that has an
\* account, and used by the account that finds it: none waits for an account that is there
\* (AdminService.create_role_assignment, AuthService._create_account).
THEOREM AssignmentsAwait == Spec => []AssignmentAwaitsAccount
<1>1. SoloInv => AssignmentAwaitsAccount
  BY DEF SoloInv, Settled, AssignmentAwaitsAccount
<1> QED BY <1>1, SoloHolds, PTL
=============================================================================
