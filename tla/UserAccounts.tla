---------------------------- MODULE UserAccounts ----------------------------
(***************************************************************************)
(* Who may administer the college: users.service.ts under the rules of     *)
(* user-safety.ts, the office access of portals.ts and deleteAccount of    *)
(* deletion.service.ts. Every handler reads the caller, the account and    *)
(* the number of active administrators, decides, and writes later. The     *)
(* permissions that manage accounts (CRITICAL_ADMIN_PERMISSIONS) are taken *)
(* as one, which an administrator has by default and nobody else.          *)
(***************************************************************************)
EXTENDS Naturals, FiniteSets

CONSTANTS Accounts,   \* ids of accounts
          Roles,      \* the roles that are told apart, of ADMIN, STAFF and STUDENT
          Managers     \* bound: requests there may be at once

ASSUME OfficesAssumption == IsFiniteSet(Accounts) /\ "ADMIN" \in Roles

VARIABLES
  users,     \* id -> row, for the accounts there are
  change,    \* the request each caller has decided on and not written yet
  crowded,   \* history: two requests overlapped
  nameless,  \* history: an account that acted was erased before the audit log forgot it
  resigned   \* history: a member of staff gave up, for itself, what it managed accounts by

userVars == <<users, change, crowded, nameless, resigned>>

NoChange == [op |-> "none"]
NewUser(role) == [role |-> role, active |-> TRUE, office |-> FALSE, override |-> "none",
                  acted |-> FALSE, owner |-> FALSE]

InRole(role) == role = "ADMIN"                       \* ROLE_DEFAULT_PERMISSIONS
Effective(role, override) ==
  CASE override = "GRANT" -> TRUE [] override = "REVOKE" -> FALSE [] OTHER -> InRole(role)
PortalsFor(row) == {row.role} \cup (IF row.role = "STAFF" /\ row.office THEN {"ADMIN"} ELSE {})

\* May call a handler of the accounts from a portal it holds.
Manages(row, portal) == row.active /\ portal \in PortalsFor(row) /\ Effective(portal, row.override)
MayManage(u, portal) == u \in DOMAIN users /\ Manages(users[u], portal)
Able(row) == \E portal \in Roles : Manages(row, portal)

\* countActiveAdmins
ActiveAdmins == {u \in DOMAIN users : users[u].role = "ADMIN" /\ users[u].active}
OnlyAdmin == Cardinality(ActiveAdmins) <= 1

---------------------------------------------------------------------------
\* The administrator there is to begin with, protected or not.
UserInit ==
  /\ \E boss \in Accounts, owner \in BOOLEAN :
       users = [u \in {boss} |-> [NewUser("ADMIN") EXCEPT !.owner = owner]]
  /\ change = [o \in Managers |-> NoChange] /\ crowded = FALSE /\ nameless = FALSE /\ resigned = FALSE

---------------------------------------------------------------------------
\* user-safety.ts: what the caller may not do to this account.

MayChangeStatus(by, u, active) ==
  \/ active = users[u].active \/ active
  \/ by # u /\ ~users[u].owner /\ ~(users[u].role = "ADMIN" /\ OnlyAdmin)

\* Faulty variant of MayChangeRole: the owner is an account like any other.
MayChangeRoleOfOwner(by, u, role) ==
  role = users[u].role \/ (by # u /\ ~(u \in ActiveAdmins /\ role # "ADMIN" /\ OnlyAdmin))

MayChangeRole(by, u, role) ==
  \/ role = users[u].role
  \/ by # u /\ ~users[u].owner /\ ~(u \in ActiveAdmins /\ role # "ADMIN" /\ OnlyAdmin)

MayChangePermissions(by, u, override) ==
  override # "REVOKE" \/ (by # u /\ ~users[u].owner /\ ~(u \in ActiveAdmins /\ OnlyAdmin))

\* decideCanSetAdminAccess
MaySetOffice(by, u, office) == users[u].role = "STAFF" /\ by # u /\ office # users[u].office

\* decideCanDeleteAccount, then decideCanDelete over the audit log.
MayDelete(by, u) ==
  by # u /\ ~users[u].owner /\ ~(users[u].role = "ADMIN" /\ OnlyAdmin) /\ ~users[u].acted

\* What setUserPermissions keeps of the override it is sent.
Meaningful(role, override) ==
  IF (override = "GRANT" /\ InRole(role)) \/ (override = "REVOKE" /\ ~InRole(role)) THEN "none" ELSE override

---------------------------------------------------------------------------
\* The handlers, up to their decision.
AccountDecided(o, t) ==
  /\ change[o] = NoChange /\ change' = [change EXCEPT ![o] = t]
  /\ crowded' = (crowded \/ \E p \in Managers \ {o} : change[p] # NoChange)
  /\ UNCHANGED <<users, nameless, resigned>>

\* The username is free; the unique index looks again.
StartCreateAccount(o, by, u, role) ==
  /\ u \notin DOMAIN users
  /\ AccountDecided(o, [op |-> "create", by |-> by, u |-> u, role |-> role])

StartAccountStatus(o, by, u, active) ==
  /\ MayChangeStatus(by, u, active)
  /\ AccountDecided(o, [op |-> "status", by |-> by, u |-> u, active |-> active])

\* changeUserRole reads the overrides there are, and removes them later if it saw any.
StartRole(o, by, u, role) ==
  /\ MayChangeRole(by, u, role)
  /\ AccountDecided(o, [op |-> "role", by |-> by, u |-> u, role |-> role, saw |-> users[u].override # "none"])

StartOffice(o, by, u, office) ==
  /\ MaySetOffice(by, u, office)
  /\ AccountDecided(o, [op |-> "office", by |-> by, u |-> u, office |-> office])

\* What is kept is decided against the role that was read.
StartPermissions(o, by, u, override) ==
  /\ MayChangePermissions(by, u, override)
  /\ AccountDecided(o, [op |-> "permissions", by |-> by, u |-> u,
                 override |-> Meaningful(users[u].role, override)])

StartDeleteAccount(o, by, u, portal) ==
  /\ portal = "ADMIN" /\ MayDelete(by, u)
  /\ AccountDecided(o, [op |-> "delete", by |-> by, u |-> u])

---------------------------------------------------------------------------

AfterRoleChange(row, t) ==
  [row EXCEPT !.role = t.role, !.office = FALSE, !.override = IF t.saw THEN "none" ELSE @]

AccountAfter(row, t) ==
  CASE t.op = "status"      -> [row EXCEPT !.active = t.active]
    [] t.op = "role"        -> AfterRoleChange(row, t)
    [] t.op = "office"      -> [row EXCEPT !.office = t.office]
    [] t.op = "permissions" -> [row EXCEPT !.override = t.override]

\* CHECK users_admin_access_is_staff_only
StaffOnly(row) == row.office => row.role = "STAFF"

\* The audit entry of the transaction, by a caller whose account may be gone.
Entered(table, by) ==
  [u \in DOMAIN table |-> IF u = by THEN [table[u] EXCEPT !.acted = TRUE] ELSE table[u]]
Logged(t) == nameless' = (nameless \/ t.by \notin DOMAIN users')

\* No rule keeps a member of staff from dropping its own GRANT, or from changing its
\* own role to the one it has, which clears its overrides and its office access.
Resigns(t) == t.by = t.u /\ users[t.u].role # "ADMIN" /\ ~Able(AccountAfter(users[t.u], t))

CreateAccount(o) ==
  LET t == change[o]
  IN  /\ t.op = "create" /\ t.u \notin DOMAIN users
      /\ users' = Entered([u \in DOMAIN users \cup {t.u} |-> IF u = t.u THEN NewUser(t.role) ELSE users[u]], t.by)
      /\ Logged(t) /\ UNCHANGED resigned

UpdateAccount(o) ==
  LET t == change[o]
  IN  /\ t.op \notin {"none", "create", "delete"} /\ t.u \in DOMAIN users
      /\ StaffOnly(AccountAfter(users[t.u], t))
      /\ users' = Entered([users EXCEPT ![t.u] = AccountAfter(@, t)], t.by)
      /\ Logged(t) /\ resigned' = (resigned \/ Resigns(t))

\* Sessions and overrides go with it; its audit entries stay, naming nobody.
Delete(o) ==
  LET t == change[o]
  IN  /\ t.op = "delete" /\ t.u \in DOMAIN users
      /\ users' = Entered([u \in DOMAIN users \ {t.u} |-> users[u]], t.by)
      /\ nameless' = (nameless \/ users[t.u].acted \/ t.by \notin DOMAIN users')
      /\ UNCHANGED resigned

\* A write the database refuses, or for an account that is no longer there.
AccountRefused(o) ==
  LET t == change[o]
  IN  /\ t.op # "none"
      /\ CASE t.op = "create" -> t.u \in DOMAIN users
           [] t.op = "delete" -> t.u \notin DOMAIN users
           [] OTHER -> t.u \in DOMAIN users => ~StaffOnly(AccountAfter(users[t.u], t))
      /\ UNCHANGED <<users, nameless, resigned>>

Written(o) == change' = [change EXCEPT ![o] = NoChange] /\ UNCHANGED crowded

UserNext ==
  \E o \in Managers :
    \/ \E by \in DOMAIN users, portal \in Roles :
         /\ MayManage(by, portal)
         /\ \/ \E u \in Accounts, role \in Roles : StartCreateAccount(o, by, u, role)
            \/ \E u \in DOMAIN users :
                 \/ \E active \in BOOLEAN : StartAccountStatus(o, by, u, active)
                 \/ \E role \in Roles : StartRole(o, by, u, role)
                 \/ \E office \in BOOLEAN : StartOffice(o, by, u, office)
                 \/ \E override \in {"none", "GRANT", "REVOKE"} : StartPermissions(o, by, u, override)
                 \/ StartDeleteAccount(o, by, u, portal)
    \/ CreateAccount(o) /\ Written(o)
    \/ UpdateAccount(o) /\ Written(o)
    \/ Delete(o) /\ Written(o)
    \/ AccountRefused(o) /\ Written(o)

UserSpec == UserInit /\ [][UserNext]_userVars

---------------------------------------------------------------------------
\* Properties.

\* The rows are of their types.
UserTypeOK ==
  /\ DOMAIN users \subseteq Accounts
  /\ \A u \in DOMAIN users :
       users[u] \in [role : Roles, active : BOOLEAN, office : BOOLEAN,
                     override : {"none", "GRANT", "REVOKE"}, acted : BOOLEAN, owner : BOOLEAN]

\* "These stop an administrator from locking the college out of its own system"
\* (user-safety.ts:4): whatever overlaps, the protected owner stays there, active,
\* an administrator and able to manage accounts.
OwnerCanAdminister ==
  [][\A u \in DOMAIN users :
       users[u].owner => u \in DOMAIN users' /\ users'[u].role = "ADMIN" /\ MayManage(u, "ADMIN")']_userVars

\* "Only a staff account can hold it" (migration 20260909140000, admin_access),
\* however office access and a change of role overlap.
OfficeIsForStaff == \A u \in DOMAIN users : users[u].office => users[u].role = "STAFF"

\* "If this is 1 and the target is that admin, the college would be locked out by the
\* change" (user-safety.ts:28): with one request at a time there is always an active
\* administrator, in a college that has no protected owner too. But activeAdminCount
\* counts rows and not what their overrides leave them, so an active administrator
\* may have been deprived of users.manage; that somebody is left who may manage
\* accounts holds only until a member of staff who does gives it up for itself.
SomeAdministrator ==
  ~crowded => ActiveAdmins # {} /\ (resigned \/ \E u \in DOMAIN users : Able(users[u]))

\* What the rules are for, "Removing ... would leave nobody able to manage the system"
\* (user-safety.ts:137): with one request at a time somebody may always manage
\* accounts. The code falls short of it: a member of staff with a GRANT revokes it of
\* every administrator but none is the only one, and then drops its own.
SomebodyManages == ~crowded => \E u \in DOMAIN users : Able(users[u])

\* "The stored overrides always mean 'different from the role'"
\* (users.service.ts:769), as long as no change of role overlapped a change of
\* permissions.
OverridesDiffer ==
  ~crowded => \A u \in DOMAIN users :
    users[u].override # "none" => Effective(users[u].role, users[u].override) # InRole(users[u].role)

\* An account that has acted is not erased, "Erasing the account would leave every
\* one of those entries saying nobody did it" (deletion.service.ts, accountBlockers),
\* with one request at a time.
EveryEntryNamesItsActor == ~crowded => ~nameless

\* Whatever the administrators do to the accounts and to each other, the owner is not
\* locked out and the rows keep their meaning; as far as one request at a time goes
\* the college is not locked out either, but by staff that give up their own grant.
NobodyIsLockedOut ==
  /\ [](UserTypeOK /\ OfficeIsForStaff /\ SomeAdministrator /\ OverridesDiffer /\ EveryEntryNamesItsActor)
  /\ OwnerCanAdminister
=============================================================================
