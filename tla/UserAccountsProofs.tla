------------------------- MODULE UserAccountsProofs --------------------------
(***************************************************************************)
(* For any accounts and requests: the college is not locked out of its own *)
(* system, and who is signed in is signed in with the present password.    *)
(* Whatever overlaps, a request about the protected owner does the owner   *)
(* no harm, since nobody becomes or ceases to be the owner; as long as no  *)
(* two ever overlapped, what the one in flight was decided on is still so. *)
(* A sign-in that nothing overtook knows the present password of an active *)
(* account.                                                                *)
(***************************************************************************)
EXTENDS UserAccounts, AccountAccess, FiniteSetTheorems, TLAPS

Overrides == {"none", "GRANT", "REVOKE"}
UserRows == [role : Roles, active : BOOLEAN, office : BOOLEAN, override : Overrides,
             acted : BOOLEAN, owner : BOOLEAN]

CreateChanges == [op : {"create"}, by : Accounts, u : Accounts, role : Roles]
StatusChanges == [op : {"status"}, by : Accounts, u : Accounts, active : BOOLEAN]
RoleChanges == [op : {"role"}, by : Accounts, u : Accounts, role : Roles, saw : BOOLEAN]
OfficeChanges == [op : {"office"}, by : Accounts, u : Accounts, office : BOOLEAN]
PermissionChanges == [op : {"permissions"}, by : Accounts, u : Accounts, override : Overrides]
DeleteChanges == [op : {"delete"}, by : Accounts, u : Accounts]

Updates == StatusChanges \cup RoleChanges \cup OfficeChanges \cup PermissionChanges

\* The requests a caller may have in flight.
Changes == {NoChange} \cup CreateChanges \cup Updates \cup DeleteChanges

UserShape ==
  /\ DOMAIN users \subseteq Accounts /\ users \in [DOMAIN users -> UserRows]
  /\ change \in [Managers -> Changes] /\ {crowded, nameless, resigned} \subseteq BOOLEAN

\* What the owner is, and must stay.
OwnerStands ==
  \A u \in DOMAIN users : users[u].owner =>
    users[u].role = "ADMIN" /\ users[u].active /\ users[u].override # "REVOKE"

\* A change that does its account no harm.
Harmless(t) ==
  \/ t.op = "create"
  \/ t.op = "status" /\ t.active
  \/ t.op = "role" /\ t.role = "ADMIN"
  \/ t.op = "permissions" /\ t.override # "REVOKE"

OwnerIsSafe ==
  \A o \in Managers : LET t == change[o] IN
    t # NoChange /\ t.u \in DOMAIN users /\ users[t.u].owner => Harmless(t)

\* What a request was decided on, as it stands now.
StillDecided(t) ==
  /\ t.by \in DOMAIN users /\ (t.op # "create" => t.u \in DOMAIN users) /\ Able(users[t.by])
  /\ t.op = "status" => MayChangeStatus(t.by, t.u, t.active)
  /\ t.op = "role" => MayChangeRole(t.by, t.u, t.role) /\ (t.saw <=> users[t.u].override # "none")
  /\ t.op = "permissions" /\ t.override # "none" =>
       Effective(users[t.u].role, t.override) # InRole(users[t.u].role)
  /\ t.op = "permissions" /\ t.override = "REVOKE" => t.by # t.u
  /\ t.op = "office" => t.by # t.u
  /\ t.op = "delete" => MayDelete(t.by, t.u)

AloneIsStillDecided ==
  ~crowded => \A o \in Managers : change[o] # NoChange =>
    /\ StillDecided(change[o])
    /\ \A p \in Managers \ {o} : change[p] = NoChange

Promises == OfficeIsForStaff /\ SomeAdministrator /\ OverridesDiffer /\ EveryEntryNamesItsActor

UserInvariant == UserShape /\ OwnerStands /\ OwnerIsSafe /\ AloneIsStillDecided /\ Promises

\* Owners stay owners, and there are no new ones.
OwnersStay ==
  /\ \A u \in DOMAIN users : users[u].owner => u \in DOMAIN users' /\ users'[u].owner
  /\ \A u \in DOMAIN users' : users'[u].owner => u \in DOMAIN users /\ users[u].owner

---------------------------------------------------------------------------
\* The audit entry of a transaction changes nothing else.
LEMMA EnteredKeeps ==
  ASSUME NEW S, NEW table \in [S -> UserRows], NEW by
  PROVE  /\ Entered(table, by) \in [S -> UserRows]
         /\ \A u \in S :
              /\ Entered(table, by)[u].role = table[u].role
              /\ Entered(table, by)[u].active = table[u].active
              /\ Entered(table, by)[u].office = table[u].office
              /\ Entered(table, by)[u].override = table[u].override
              /\ Entered(table, by)[u].owner = table[u].owner
<1> DEFINE Act(u) == [table[u] EXCEPT !.acted = TRUE]
<1>1. ASSUME NEW row \in UserRows
      PROVE  [row EXCEPT !.acted = TRUE] \in
               [role : {row.role}, active : {row.active}, office : {row.office}, override : {row.override},
                acted : {TRUE}, owner : {row.owner}]
  BY DEF UserRows
<1>2. \A u \in S : Act(u) \in
               [role : {table[u].role}, active : {table[u].active}, office : {table[u].office},
                override : {table[u].override}, acted : {TRUE}, owner : {table[u].owner}]
  BY <1>1
<1>3. Entered(table, by) = [u \in S |-> IF u = by THEN Act(u) ELSE table[u]]
  BY Zenon DEF Entered
<1> HIDE DEF Act
<1>4. \A u \in S : table[u] \in UserRows
  OBVIOUS
<1>5. \A u \in S : Act(u) \in UserRows
  BY <1>2, <1>4 DEF UserRows
<1>6. \A u \in S : /\ Act(u).role = table[u].role /\ Act(u).active = table[u].active
                   /\ Act(u).office = table[u].office /\ Act(u).override = table[u].override
                   /\ Act(u).owner = table[u].owner
  BY <1>2
<1> QED BY <1>3, <1>4, <1>5, <1>6

\* Who may manage accounts is a matter of these four columns.
LEMMA SameRowIsAble ==
  ASSUME NEW a, NEW b, a.role = b.role, a.active = b.active, a.office = b.office, a.override = b.override
  PROVE  Able(a) => Able(b)
BY DEF Able, Manages, PortalsFor

\* An administrator is able to by its role, unless it is revoked.
LEMMA AdministratorIsAble ==
  ASSUME NEW row \in UserRows, row.role = "ADMIN"
  PROVE  Able(row) <=> row.active /\ row.override # "REVOKE"
BY OfficesAssumption DEF Able, Manages, PortalsFor, Effective, InRole, UserRows, Overrides

\* What an update makes of a row.
LEMMA UpdatedRow ==
  ASSUME NEW row \in UserRows, NEW t \in Updates
  PROVE  /\ AccountAfter(row, t) \in UserRows /\ AccountAfter(row, t).owner = row.owner
         /\ AccountAfter(row, t).active = IF t.op = "status" THEN t.active ELSE row.active
         /\ AccountAfter(row, t).role = IF t.op = "role" THEN t.role ELSE row.role
         /\ AccountAfter(row, t).override =
              IF t.op = "permissions" THEN t.override
              ELSE IF t.op = "role" /\ t.saw THEN "none" ELSE row.override
<1>1. CASE t \in StatusChanges
  BY <1>1 DEF StatusChanges, UserRows, AccountAfter
<1>2. CASE t \in RoleChanges
  BY <1>2 DEF RoleChanges, UserRows, AccountAfter, AfterRoleChange, Overrides
<1>3. CASE t \in OfficeChanges
  BY <1>3 DEF OfficeChanges, UserRows, AccountAfter
<1>4. CASE t \in PermissionChanges
  BY <1>4 DEF PermissionChanges, UserRows, AccountAfter
<1> QED BY <1>1, <1>2, <1>3, <1>4 DEF Updates

\* The initial state satisfies the invariant.
LEMMA UserInitHolds == UserInit => UserInvariant
<1> SUFFICES ASSUME UserInit PROVE UserInvariant
  OBVIOUS
<1>1. PICK boss \in Accounts, owner \in BOOLEAN :
        users = [u \in {boss} |-> [NewUser("ADMIN") EXCEPT !.owner = owner]]
  BY DEF UserInit
<1> DEFINE row == [NewUser("ADMIN") EXCEPT !.owner = owner]
           Rows(o) == [role : {"ADMIN"}, active : {TRUE}, office : {FALSE}, override : {"none"},
                       acted : {FALSE}, owner : {o}]
<1>a. row \in Rows(owner)
  <2>1. ASSUME NEW d \in Rows(FALSE) PROVE [d EXCEPT !.owner = owner] \in Rows(owner)
    OBVIOUS
  <2>2. NewUser("ADMIN") \in Rows(FALSE)
    BY DEF NewUser
  <2> HIDE DEF Rows
  <2> QED BY <2>1, <2>2, Zenon
<1>b. users = [u \in {boss} |-> row]
  BY <1>1, Zenon
<1> HIDE DEF row
<1>2. DOMAIN users = {boss} /\ users[boss] \in Rows(owner)
  BY <1>a, <1>b
<1>3. users = [u \in {boss} |-> users[boss]]
  BY <1>b
<1>4. change = [o \in Managers |-> NoChange] /\ crowded = FALSE /\ nameless = FALSE /\ resigned = FALSE
  BY DEF UserInit
<1>5. users[boss] \in UserRows
  BY <1>2, OfficesAssumption DEF UserRows, Overrides
<1>6. UserShape
  BY <1>2, <1>3, <1>4, <1>5 DEF UserShape, Changes
<1>7. OwnerStands /\ OwnerIsSafe /\ AloneIsStillDecided
  BY <1>2, <1>4 DEF OwnerStands, OwnerIsSafe, AloneIsStillDecided
<1>8. OfficeIsForStaff /\ OverridesDiffer /\ EveryEntryNamesItsActor
  BY <1>2, <1>4 DEF OfficeIsForStaff, OverridesDiffer, EveryEntryNamesItsActor
<1>9. SomeAdministrator
  BY <1>2, OfficesAssumption DEF SomeAdministrator, ActiveAdmins, Able, Manages, PortalsFor, Effective, InRole
<1> QED BY <1>6, <1>7, <1>8, <1>9 DEF UserInvariant, Promises

---------------------------------------------------------------------------
\* A request that is decided on, and on what.
LEMMA DecidedKeeps ==
  ASSUME UserInvariant, NEW o \in Managers, NEW t \in Changes, AccountDecided(o, t),
         StillDecided(t), t.u \in DOMAIN users /\ users[t.u].owner => Harmless(t)
  PROVE  UserInvariant' /\ OwnersStay
<1> USE DEF UserInvariant
<1>1. /\ change' = [change EXCEPT ![o] = t] /\ UNCHANGED <<users, nameless, resigned>>
      /\ crowded' = (crowded \/ \E p \in Managers \ {o} : change[p] # NoChange)
  BY DEF AccountDecided
<1>2. UserShape'
  BY <1>1 DEF UserShape
<1>3. OwnerStands' /\ OwnersStay
  BY <1>1 DEF OwnerStands, OwnersStay
<1>4. OwnerIsSafe'
  BY <1>1 DEF OwnerIsSafe, UserShape
<1>5. AloneIsStillDecided'
  <2> SUFFICES ASSUME ~crowded', NEW p \in Managers, change'[p] # NoChange
               PROVE  StillDecided(change[p])' /\ \A q \in Managers \ {p} : change'[q] = NoChange
    BY DEF AloneIsStillDecided
  <2>2. p = o /\ \A q \in Managers \ {o} : change'[q] = NoChange
    BY <1>1 DEF UserShape
  <2>3. change'[p] = t
    BY <1>1, <2>2 DEF UserShape
  <2> QED BY <1>1, <2>2, <2>3 DEF StillDecided, MayChangeStatus, MayChangeRole, MayDelete, OnlyAdmin, ActiveAdmins
<1>6. Promises'
  BY <1>1 DEF Promises, OfficeIsForStaff, SomeAdministrator, ActiveAdmins, OverridesDiffer, EveryEntryNamesItsActor
<1> QED BY <1>2, <1>3, <1>4, <1>5, <1>6

\* Every decision of a handler is one of these.
LEMMA StartsKeep ==
  ASSUME UserInvariant, NEW o \in Managers, NEW by \in DOMAIN users, NEW portal \in Roles, MayManage(by, portal),
         \/ \E u \in Accounts, role \in Roles : StartCreateAccount(o, by, u, role)
         \/ \E u \in DOMAIN users :
              \/ \E active \in BOOLEAN : StartAccountStatus(o, by, u, active)
              \/ \E role \in Roles : StartRole(o, by, u, role)
              \/ \E office \in BOOLEAN : StartOffice(o, by, u, office)
              \/ \E override \in {"none", "GRANT", "REVOKE"} : StartPermissions(o, by, u, override)
              \/ StartDeleteAccount(o, by, u, portal)
  PROVE  UserInvariant' /\ OwnersStay
<1>1. by \in Accounts /\ DOMAIN users \subseteq Accounts /\ \A u \in DOMAIN users : users[u] \in UserRows
  BY DEF UserInvariant, UserShape
<1>2. OwnerStands /\ Able(users[by])
  BY DEF UserInvariant, MayManage, Able
<1>3. ASSUME NEW u \in Accounts, NEW role \in Roles, StartCreateAccount(o, by, u, role)
      PROVE  UserInvariant' /\ OwnersStay
  <2> DEFINE t == [op |-> "create", by |-> by, u |-> u, role |-> role]
  <2>1. AccountDecided(o, t)
    BY <1>3 DEF StartCreateAccount
  <2>2. t \in Changes /\ StillDecided(t) /\ Harmless(t)
    BY <1>1, <1>2 DEF Changes, CreateChanges, StillDecided, Harmless
  <2> HIDE DEF t
  <2> QED BY <2>1, <2>2, DecidedKeeps
<1>4. ASSUME NEW u \in DOMAIN users, NEW active \in BOOLEAN, StartAccountStatus(o, by, u, active)
      PROVE  UserInvariant' /\ OwnersStay
  <2> DEFINE t == [op |-> "status", by |-> by, u |-> u, active |-> active]
  <2>1. AccountDecided(o, t) /\ MayChangeStatus(by, u, active)
    BY <1>4 DEF StartAccountStatus
  <2>2. t \in Changes
    BY <1>1 DEF Changes, Updates, StatusChanges
  <2>3. StillDecided(t)
    BY <1>2, <2>1 DEF StillDecided
  <2>4. users[u].owner => Harmless(t)
    BY <1>2, <2>1 DEF Harmless, MayChangeStatus, OwnerStands
  <2>5. t.u = u
    OBVIOUS
  <2> HIDE DEF t
  <2> QED BY <2>1, <2>2, <2>3, <2>4, <2>5, DecidedKeeps
<1>5. ASSUME NEW u \in DOMAIN users, NEW role \in Roles, StartRole(o, by, u, role)
      PROVE  UserInvariant' /\ OwnersStay
  <2> DEFINE t == [op |-> "role", by |-> by, u |-> u, role |-> role, saw |-> users[u].override # "none"]
  <2>1. AccountDecided(o, t) /\ MayChangeRole(by, u, role)
    BY <1>5 DEF StartRole
  <2>2. t \in Changes
    BY <1>1 DEF Changes, Updates, RoleChanges
  <2>3. StillDecided(t)
    BY <1>2, <2>1 DEF StillDecided
  <2>4. users[u].owner => Harmless(t)
    BY <1>2, <2>1 DEF Harmless, MayChangeRole, OwnerStands
  <2>5. t.u = u
    OBVIOUS
  <2> HIDE DEF t
  <2> QED BY <2>1, <2>2, <2>3, <2>4, <2>5, DecidedKeeps
<1>6. ASSUME NEW u \in DOMAIN users, NEW office \in BOOLEAN, StartOffice(o, by, u, office)
      PROVE  UserInvariant' /\ OwnersStay
  <2> DEFINE t == [op |-> "office", by |-> by, u |-> u, office |-> office]
  <2>1. AccountDecided(o, t) /\ users[u].role = "STAFF" /\ by # u
    BY <1>6 DEF StartOffice, MaySetOffice
  <2>2. t \in Changes
    BY <1>1 DEF Changes, Updates, OfficeChanges
  <2>3. StillDecided(t)
    BY <1>2, <2>1 DEF StillDecided
  <2>4. ~users[u].owner
    BY <1>2, <2>1 DEF OwnerStands
  <2>5. t.u = u
    OBVIOUS
  <2> HIDE DEF t
  <2> QED BY <2>1, <2>2, <2>3, <2>4, <2>5, DecidedKeeps
<1>7. ASSUME NEW u \in DOMAIN users, NEW override \in Overrides, StartPermissions(o, by, u, override)
      PROVE  UserInvariant' /\ OwnersStay
  <2> DEFINE kept == Meaningful(users[u].role, override)
             t == [op |-> "permissions", by |-> by, u |-> u, override |-> kept]
  <2>1. AccountDecided(o, t) /\ MayChangePermissions(by, u, override)
    BY <1>7 DEF StartPermissions
  <2>2. /\ kept \in Overrides /\ (kept = "REVOKE" => override = "REVOKE")
        /\ kept # "none" => Effective(users[u].role, kept) # InRole(users[u].role)
    BY DEF Meaningful, Overrides, Effective, InRole
  <2> HIDE DEF kept
  <2>3. t \in Changes
    BY <1>1, <2>2 DEF Changes, Updates, PermissionChanges
  <2>4. StillDecided(t)
    BY <1>2, <2>1, <2>2 DEF StillDecided, MayChangePermissions
  <2>5. users[u].owner => Harmless(t)
    BY <2>1, <2>2 DEF Harmless, MayChangePermissions
  <2>6. t.u = u
    OBVIOUS
  <2> HIDE DEF t
  <2> QED BY <2>1, <2>3, <2>4, <2>5, <2>6, DecidedKeeps
<1>8. ASSUME NEW u \in DOMAIN users, StartDeleteAccount(o, by, u, portal)
      PROVE  UserInvariant' /\ OwnersStay
  <2> DEFINE t == [op |-> "delete", by |-> by, u |-> u]
  <2>1. AccountDecided(o, t) /\ MayDelete(by, u)
    BY <1>8 DEF StartDeleteAccount
  <2>2. t \in Changes
    BY <1>1 DEF Changes, DeleteChanges
  <2>3. StillDecided(t)
    BY <1>2, <2>1 DEF StillDecided
  <2>4. ~users[u].owner
    BY <2>1 DEF MayDelete
  <2>5. t.u = u
    OBVIOUS
  <2> HIDE DEF t
  <2> QED BY <2>1, <2>2, <2>3, <2>4, <2>5, DecidedKeeps
<1> QED BY <1>3, <1>4, <1>5, <1>6, <1>7, <1>8 DEF Overrides

---------------------------------------------------------------------------
\* What a request knows when it writes, and what nobody knows any more after it.
LEMMA WriterKnows ==
  ASSUME UserInvariant, NEW o \in Managers, change[o] # NoChange, Written(o)
  PROVE  /\ change' \in [Managers -> Changes] /\ crowded' = crowded
         /\ ~crowded => StillDecided(change[o])
         /\ AloneIsStillDecided'
         /\ OwnersStay => OwnerIsSafe'
<1>1. change' = [change EXCEPT ![o] = NoChange] /\ crowded' = crowded
  BY DEF Written
<1>2. change' \in [Managers -> Changes]
  BY <1>1 DEF UserInvariant, UserShape, Changes
<1>3. ~crowded => StillDecided(change[o]) /\ \A p \in Managers : change'[p] = NoChange
  BY <1>1 DEF UserInvariant, AloneIsStillDecided, UserShape
<1>4. OwnersStay => OwnerIsSafe'
  BY <1>1 DEF OwnersStay, OwnerIsSafe, UserInvariant, UserShape
<1> QED BY <1>1, <1>2, <1>3, <1>4 DEF AloneIsStillDecided

\* Of more than one administrator, one is left when one goes.
LEMMA AnotherAdministrator ==
  ASSUME UserShape, NEW u, ~OnlyAdmin
  PROVE  \E a \in ActiveAdmins : a # u
<1>1. IsFiniteSet(ActiveAdmins)
  <2>1. ActiveAdmins \subseteq Accounts
    BY DEF ActiveAdmins, UserShape
  <2> QED BY <2>1, OfficesAssumption, FS_Subset
<1>2. Cardinality(ActiveAdmins) \in Nat /\ Cardinality(ActiveAdmins) > 1
  BY <1>1, FS_CardinalityType DEF OnlyAdmin
<1> SUFFICES ASSUME \A a \in ActiveAdmins : a = u PROVE FALSE
  OBVIOUS
<1>3. ActiveAdmins \subseteq {u}
  OBVIOUS
<1>4. IsFiniteSet({u}) /\ Cardinality({u}) = 1
  BY FS_Singleton
<1>5. Cardinality(ActiveAdmins) <= 1
  BY <1>3, <1>4, FS_Subset
<1> QED BY <1>2, <1>5

\* createUser, when it writes.
LEMMA CreateKeeps ==
  ASSUME UserInvariant, NEW o \in Managers, CreateAccount(o), Written(o)
  PROVE  UserInvariant' /\ OwnersStay
<1> DEFINE t == change[o]
           table == [u \in DOMAIN users \cup {t.u} |-> IF u = t.u THEN NewUser(t.role) ELSE users[u]]
<1>1. /\ t.op = "create" /\ t.u \notin DOMAIN users /\ users' = Entered(table, t.by)
      /\ nameless' = (nameless \/ t.by \notin DOMAIN users') /\ resigned' = resigned
  BY DEF CreateAccount, Logged
<1>2. UserShape /\ t \in CreateChanges /\ t # NoChange
  BY <1>1 DEF UserInvariant, UserShape, Changes, Updates, StatusChanges, RoleChanges, OfficeChanges,
              PermissionChanges, DeleteChanges, NoChange
<1>3. t.u \in Accounts /\ t.role \in Roles
  BY <1>2 DEF CreateChanges
<1>4. /\ change' \in [Managers -> Changes] /\ crowded' = crowded /\ AloneIsStillDecided'
      /\ ~crowded => t.by \in DOMAIN users /\ Able(users[t.by])
      /\ OwnersStay => OwnerIsSafe'
  BY <1>2, WriterKnows DEF StillDecided
<1> HIDE DEF t
<1>5. NewUser(t.role) \in UserRows /\ NewUser(t.role).override = "none" /\ ~NewUser(t.role).office /\ ~NewUser(t.role).owner
  BY <1>3 DEF NewUser, UserRows, Overrides
<1>6. table \in [DOMAIN users \cup {t.u} -> UserRows]
  BY <1>2, <1>5 DEF UserShape
<1>7. /\ users' \in [DOMAIN users \cup {t.u} -> UserRows]
      /\ \A u \in DOMAIN users \cup {t.u} :
              /\ users'[u].role = table[u].role
              /\ users'[u].active = table[u].active
              /\ users'[u].office = table[u].office
              /\ users'[u].override = table[u].override
              /\ users'[u].owner = table[u].owner
  <2> HIDE DEF table
  <2> QED BY <1>1, <1>6, EnteredKeeps
<1>8. DOMAIN users' = DOMAIN users \cup {t.u} /\ \A u \in DOMAIN users : table[u] = users[u]
  BY <1>1, <1>7
<1>9. table[t.u] = NewUser(t.role)
  OBVIOUS
<1> HIDE DEF table
<1>10. OwnersStay
  BY <1>5, <1>7, <1>8, <1>9 DEF OwnersStay
<1>11. UserShape'
  BY <1>1, <1>2, <1>3, <1>4, <1>7, <1>8 DEF UserShape
<1>12. OwnerStands'
  BY <1>5, <1>7, <1>8, <1>9 DEF OwnerStands, UserInvariant
<1>13. Promises'
  <2>1. OfficeIsForStaff' /\ OverridesDiffer'
    BY <1>4, <1>5, <1>7, <1>8, <1>9 DEF OfficeIsForStaff, OverridesDiffer, UserInvariant, Promises
  <2>2. ActiveAdmins \subseteq ActiveAdmins'
    BY <1>7, <1>8 DEF ActiveAdmins
  <2>3. ~crowded => t.by \in DOMAIN users' /\ Able(users'[t.by])
    BY <1>4, <1>7, <1>8, SameRowIsAble
  <2>4. SomeAdministrator' /\ EveryEntryNamesItsActor'
    BY <1>1, <1>4, <1>8, <2>2, <2>3 DEF SomeAdministrator, EveryEntryNamesItsActor, UserInvariant, Promises
  <2> QED BY <2>1, <2>4 DEF Promises
<1> QED BY <1>4, <1>10, <1>11, <1>12, <1>13 DEF UserInvariant

\* setUserStatus, changeUserRole, setAdminAccess, setUserPermissions, when they write.
LEMMA UpdateKeeps ==
  ASSUME UserInvariant, NEW o \in Managers, UpdateAccount(o), Written(o)
  PROVE  UserInvariant' /\ OwnersStay
<1> DEFINE t == change[o]
           after == AccountAfter(users[t.u], t)
           table == [users EXCEPT ![t.u] = after]
<1>1. /\ t.op \notin {"none", "create", "delete"} /\ t.u \in DOMAIN users /\ StaffOnly(after)
      /\ users' = Entered(table, t.by)
      /\ nameless' = (nameless \/ t.by \notin DOMAIN users') /\ resigned' = (resigned \/ Resigns(t))
  BY DEF UpdateAccount, Logged
<1>2. UserShape /\ t \in Updates /\ t # NoChange
  BY <1>1 DEF UserInvariant, UserShape, Changes, CreateChanges, DeleteChanges, NoChange
<1>3. /\ change' \in [Managers -> Changes] /\ crowded' = crowded /\ AloneIsStillDecided'
      /\ ~crowded => StillDecided(t)
      /\ OwnersStay => OwnerIsSafe'
  BY <1>2, WriterKnows
<1>4. users[t.u].owner => Harmless(t)
  BY <1>1, <1>2 DEF UserInvariant, OwnerIsSafe
<1> HIDE DEF t
<1>5. users[t.u] \in UserRows
  BY <1>1, <1>2 DEF UserShape
<1>6. /\ after \in UserRows /\ after.owner = users[t.u].owner
      /\ after.active = IF t.op = "status" THEN t.active ELSE users[t.u].active
      /\ after.role = IF t.op = "role" THEN t.role ELSE users[t.u].role
      /\ after.override = IF t.op = "permissions" THEN t.override
                          ELSE IF t.op = "role" /\ t.saw THEN "none" ELSE users[t.u].override
  BY <1>2, <1>5, UpdatedRow
<1>7. after.office => after.role = "STAFF"
  BY <1>1 DEF StaffOnly
<1> HIDE DEF after
<1>8. table \in [DOMAIN users -> UserRows] /\ \A u \in DOMAIN users : table[u] = IF u = t.u THEN after ELSE users[u]
  BY <1>2, <1>6 DEF UserShape
<1> HIDE DEF table
<1>9. /\ users' \in [DOMAIN users -> UserRows]
      /\ \A u \in DOMAIN users :
              /\ users'[u].role = table[u].role
              /\ users'[u].active = table[u].active
              /\ users'[u].office = table[u].office
              /\ users'[u].override = table[u].override
              /\ users'[u].owner = table[u].owner
  BY <1>1, <1>8, EnteredKeeps
<1>10. DOMAIN users' = DOMAIN users
  BY <1>9
<1>11. OwnersStay
  BY <1>6, <1>8, <1>9, <1>10 DEF OwnersStay
<1>12. UserShape'
  BY <1>1, <1>2, <1>3, <1>9, <1>10 DEF UserShape
<1>13. OwnerStands'
  <2>1. OwnerStands
    BY DEF UserInvariant
  <2>2. ASSUME after.owner PROVE after.role = "ADMIN" /\ after.active /\ after.override # "REVOKE"
    <3>1. users[t.u].role = "ADMIN" /\ users[t.u].active /\ users[t.u].override # "REVOKE" /\ Harmless(t)
      BY <1>1, <1>4, <1>6, <2>1, <2>2 DEF OwnerStands
    <3> QED BY <1>1, <1>6, <3>1 DEF Harmless
  <2> QED BY <1>8, <1>9, <1>10, <2>1, <2>2 DEF OwnerStands
<1>14. Promises'
  <2>1. OfficeIsForStaff'
    BY <1>7, <1>8, <1>9, <1>10 DEF OfficeIsForStaff, UserInvariant, Promises
  <2>2. EveryEntryNamesItsActor'
    BY <1>1, <1>3, <1>10 DEF EveryEntryNamesItsActor, UserInvariant, Promises, StillDecided
  <2>3. OverridesDiffer'
    <3> SUFFICES ASSUME ~crowded, NEW u \in DOMAIN users, users'[u].override # "none"
                 PROVE  Effective(users'[u].role, users'[u].override) # InRole(users'[u].role)
      BY <1>3, <1>10 DEF OverridesDiffer
    <3>1. users[u].override # "none" => Effective(users[u].role, users[u].override) # InRole(users[u].role)
      BY DEF OverridesDiffer, UserInvariant, Promises
    <3>2. CASE u # t.u
      BY <1>8, <1>9, <3>1, <3>2
    <3>3. CASE u = t.u /\ t.op = "permissions"
      BY <1>3, <1>6, <1>8, <1>9, <3>3 DEF StillDecided
    <3>4. CASE u = t.u /\ t.op = "role"
      BY <1>3, <1>6, <1>8, <1>9, <3>4 DEF StillDecided
    <3>5. CASE u = t.u /\ t.op \notin {"role", "permissions"}
      BY <1>6, <1>8, <1>9, <3>1, <3>5
    <3> QED BY <3>2, <3>3, <3>4, <3>5
  <2>4. SomeAdministrator'
    <3> SUFFICES ASSUME ~crowded
                 PROVE  ActiveAdmins' # {} /\ (resigned' \/ \E u \in DOMAIN users' : Able(users'[u]))
      BY <1>3 DEF SomeAdministrator
    <3>1. ActiveAdmins # {} /\ StillDecided(t)
      BY <1>3 DEF SomeAdministrator, UserInvariant, Promises
    <3>2. ActiveAdmins \ {t.u} \subseteq ActiveAdmins'
      BY <1>8, <1>9, <1>10 DEF ActiveAdmins
    <3>3. after.role = "ADMIN" /\ after.active => ActiveAdmins' # {}
      BY <1>1, <1>8, <1>9, <1>10 DEF ActiveAdmins
    <3>4. t.u \notin ActiveAdmins => ActiveAdmins' # {}
      BY <3>1, <3>2
    <3>5. ~OnlyAdmin => ActiveAdmins' # {}
      BY <1>2, <3>2, AnotherAdministrator
    <3>6. ASSUME t.u \in ActiveAdmins, OnlyAdmin PROVE after.role = "ADMIN" /\ after.active
      <4>1. users[t.u].role = "ADMIN" /\ users[t.u].active
        BY <3>6 DEF ActiveAdmins
      <4> QED BY <1>6, <3>1, <3>6, <4>1, <1>1 DEF StillDecided, MayChangeStatus, MayChangeRole
    <3>7. ActiveAdmins' # {}
      BY <3>3, <3>4, <3>5, <3>6
    <3>8. t.by \in DOMAIN users /\ Able(users[t.by])
      BY <3>1 DEF StillDecided
    <3>9. CASE t.by # t.u
      BY <1>8, <1>9, <1>10, <3>7, <3>8, <3>9, SameRowIsAble
    <3>10. CASE t.by = t.u /\ Able(after)
      BY <1>1, <1>8, <1>9, <1>10, <3>7, <3>10, SameRowIsAble
    <3>11. CASE t.by = t.u /\ ~Able(after)
      <4>1. CASE users[t.u].role # "ADMIN"
        BY <1>1, <3>7, <3>11, <4>1 DEF Resigns, after
      <4>2. CASE users[t.u].role = "ADMIN"
        <5>1. users[t.u].active /\ users[t.u].override # "REVOKE"
          BY <1>5, <3>8, <3>11, <4>2, AdministratorIsAble
        <5>2. after.role = "ADMIN" /\ after.active /\ after.override # "REVOKE"
          BY <1>1, <1>6, <3>1, <3>11, <4>2, <5>1 DEF StillDecided, MayChangeStatus, MayChangeRole
        <5> QED BY <1>6, <3>11, <5>2, AdministratorIsAble
      <4> QED BY <4>1, <4>2
    <3> QED BY <3>9, <3>10, <3>11
  <2> QED BY <2>1, <2>2, <2>3, <2>4 DEF Promises
<1> QED BY <1>3, <1>11, <1>12, <1>13, <1>14 DEF UserInvariant

\* deleteAccount, when it writes.
LEMMA DeleteKeeps ==
  ASSUME UserInvariant, NEW o \in Managers, Delete(o), Written(o)
  PROVE  UserInvariant' /\ OwnersStay
<1> DEFINE t == change[o]
           rest == DOMAIN users \ {t.u}
           table == [u \in rest |-> users[u]]
<1>1. /\ t.op = "delete" /\ t.u \in DOMAIN users /\ users' = Entered(table, t.by)
      /\ nameless' = (nameless \/ users[t.u].acted \/ t.by \notin DOMAIN users') /\ resigned' = resigned
  BY DEF Delete
<1>2. UserShape /\ t \in DeleteChanges /\ t # NoChange
  BY <1>1 DEF UserInvariant, UserShape, Changes, Updates, StatusChanges, RoleChanges, OfficeChanges,
              PermissionChanges, CreateChanges, NoChange
<1>3. /\ change' \in [Managers -> Changes] /\ crowded' = crowded /\ AloneIsStillDecided'
      /\ ~crowded => t.by \in DOMAIN users /\ Able(users[t.by]) /\ MayDelete(t.by, t.u)
      /\ OwnersStay => OwnerIsSafe'
  BY <1>1, <1>2, WriterKnows DEF StillDecided
<1>4. ~users[t.u].owner
  BY <1>1, <1>2 DEF UserInvariant, OwnerIsSafe, Harmless
<1> HIDE DEF t
<1>5. table \in [rest -> UserRows] /\ \A u \in rest : table[u] = users[u]
  BY <1>2 DEF UserShape
<1> HIDE DEF table
<1>6. /\ users' \in [rest -> UserRows]
      /\ \A u \in rest :
              /\ users'[u].role = table[u].role
              /\ users'[u].active = table[u].active
              /\ users'[u].office = table[u].office
              /\ users'[u].override = table[u].override
              /\ users'[u].owner = table[u].owner
  <2> HIDE DEF rest
  <2> QED BY <1>1, <1>5, EnteredKeeps
<1>7. DOMAIN users' = rest
  BY <1>6
<1>8. OwnersStay
  BY <1>4, <1>5, <1>6, <1>7 DEF OwnersStay
<1>9. UserShape'
  BY <1>1, <1>2, <1>3, <1>6, <1>7 DEF UserShape, UserRows
<1>10. OwnerStands'
  BY <1>5, <1>6, <1>7 DEF OwnerStands, UserInvariant
<1>11. Promises'
  <2>1. OfficeIsForStaff' /\ OverridesDiffer'
    BY <1>3, <1>5, <1>6, <1>7 DEF OfficeIsForStaff, OverridesDiffer, UserInvariant, Promises
  <2>2. EveryEntryNamesItsActor'
    BY <1>1, <1>3, <1>7 DEF EveryEntryNamesItsActor, UserInvariant, Promises, MayDelete
  <2>3. SomeAdministrator'
    <3> SUFFICES ASSUME ~crowded
                 PROVE  ActiveAdmins' # {} /\ \E u \in DOMAIN users' : Able(users'[u])
      BY <1>3 DEF SomeAdministrator
    <3>1. ActiveAdmins # {} /\ MayDelete(t.by, t.u)
      BY <1>3 DEF SomeAdministrator, UserInvariant, Promises
    <3>2. ActiveAdmins \ {t.u} \subseteq ActiveAdmins'
      BY <1>5, <1>6, <1>7 DEF ActiveAdmins
    <3>3. t.u \notin ActiveAdmins \/ ~OnlyAdmin
      BY <3>1 DEF MayDelete, ActiveAdmins
    <3>4. t.by \in rest /\ Able(users[t.by])
      BY <1>3, <3>1 DEF MayDelete
    <3>5. Able(users'[t.by])
      BY <1>5, <1>6, <3>4, SameRowIsAble
    <3> QED BY <1>2, <1>7, <3>1, <3>2, <3>3, <3>4, <3>5, AnotherAdministrator
  <2> QED BY <2>1, <2>2, <2>3 DEF Promises
<1> QED BY <1>3, <1>8, <1>9, <1>10, <1>11 DEF UserInvariant

\* A write the database refuses.
LEMMA RefusedKeeps ==
  ASSUME UserInvariant, NEW o \in Managers, AccountRefused(o), Written(o)
  PROVE  UserInvariant' /\ OwnersStay
<1>1. change[o] # NoChange /\ UNCHANGED <<users, nameless, resigned>>
  BY DEF AccountRefused, NoChange
<1>2. /\ change' \in [Managers -> Changes] /\ crowded' = crowded /\ AloneIsStillDecided'
      /\ OwnersStay => OwnerIsSafe'
  BY <1>1, WriterKnows
<1>3. OwnersStay
  BY <1>1 DEF OwnersStay
<1>4. UserShape' /\ OwnerStands'
  BY <1>1, <1>2 DEF UserShape, OwnerStands, UserInvariant
<1>5. Promises'
  BY <1>1, <1>2 DEF Promises, OfficeIsForStaff, SomeAdministrator, ActiveAdmins, OverridesDiffer,
                    EveryEntryNamesItsActor, UserInvariant
<1> QED BY <1>2, <1>3, <1>4, <1>5 DEF UserInvariant

\* Every step keeps the invariant, and the owners.
LEMMA UserStepHolds ==
  ASSUME UserInvariant, [UserNext]_userVars
  PROVE  UserInvariant' /\ OwnersStay
<1>1. CASE UNCHANGED userVars
  BY <1>1, ZenonT(60) DEF userVars, UserInvariant, UserShape, OwnerStands, OwnerIsSafe, AloneIsStillDecided, StillDecided,
              MayChangeStatus, MayChangeRole, MayDelete, OnlyAdmin, ActiveAdmins, Promises, OfficeIsForStaff,
              SomeAdministrator, OverridesDiffer, EveryEntryNamesItsActor, OwnersStay
<1>2. CASE UserNext
  BY <1>2, StartsKeep, CreateKeeps, UpdateKeeps, DeleteKeeps, RefusedKeeps, Zenon DEF UserNext
<1> QED BY <1>1, <1>2

\* For any accounts and any requests that overlap, the protected owner stays able
\* to administer and office access is for staff; as long as no two requests
\* overlapped, there is an active administrator, and somebody able to manage accounts
\* unless a member of staff gave that up for itself, overrides differ from the role
\* and every audit entry names who acted.
THEOREM NobodyIsLockedOutHolds == UserSpec => NobodyIsLockedOut
<1> DEFINE OwnersRemain ==
      \A u \in DOMAIN users :
        users[u].owner => u \in DOMAIN users' /\ users'[u].role = "ADMIN" /\ MayManage(u, "ADMIN")'
<1>1. UserInit => UserInvariant
  BY UserInitHolds
<1>2. UserInvariant /\ [UserNext]_userVars => UserInvariant'
  BY UserStepHolds
<1>3. UserInvariant =>
        UserTypeOK /\ OfficeIsForStaff /\ SomeAdministrator /\ OverridesDiffer /\ EveryEntryNamesItsActor
  BY DEF UserInvariant, UserShape, Promises, UserTypeOK, UserRows, Overrides
<1>4. UserInvariant /\ [UserNext]_userVars => OwnersRemain
  <2> SUFFICES ASSUME UserInvariant, [UserNext]_userVars, NEW u \in DOMAIN users, users[u].owner
               PROVE  u \in DOMAIN users' /\ users'[u].role = "ADMIN" /\ MayManage(u, "ADMIN")'
    OBVIOUS
  <2>1. u \in DOMAIN users' /\ users'[u].owner /\ OwnerStands'
    BY UserStepHolds DEF OwnersStay, UserInvariant
  <2>2. users'[u].role = "ADMIN" /\ users'[u].active /\ users'[u].override # "REVOKE"
    BY <2>1 DEF OwnerStands
  <2> QED BY <2>1, <2>2 DEF MayManage, Manages, PortalsFor, Effective, InRole
<1> QED BY <1>1, <1>2, <1>3, <1>4, PTL DEF UserSpec, NobodyIsLockedOut, OwnerCanAdminister

---------------------------------------------------------------------------
\* Signing in, and the devices signed in.

AccessSteps == {"idle", "wrong", "right", "open", "change", "signout"}
AccessRequest == [at : AccessSteps, failed : 0..LockThreshold, knows : BOOLEAN, alone : BOOLEAN]
DeviceRow == [left : 0..SessionTime, knows : BOOLEAN, alone : BOOLEAN]

\* The requests and the devices are of their shapes.
AccessShape ==
  /\ access \in [Requests -> AccessRequest] /\ sessions \in [DOMAIN sessions -> DeviceRow]
  /\ muddled \in BOOLEAN

\* A request nothing overtook knows the present password, of an active account.
RequestsAreCurrent ==
  \A r \in Requests : access[r].at # "idle" /\ access[r].alone => access[r].knows /\ account.active

\* A failure about to be counted has read the counter as it is, until two overlapped.
FailuresReadTheCounter ==
  ~muddled => \A r \in Requests : access[r].at = "wrong" => access[r].failed = account.failed

AccessInvariant ==
  /\ AccessTypeOK /\ AccessShape /\ RequestsAreCurrent /\ DevicesAreCurrent
  /\ FailuresReadTheCounter /\ CountsFailuresInARow

---------------------------------------------------------------------------
\* Counters stay within their bounds.
LEMMA BoundedCounters ==
  ASSUME AccessAssumption
  PROVE  /\ \A n \in Nat : UpToThreshold(n) \in 0..LockThreshold
         /\ \A n \in Nat : UpToThreshold(n) >= LockThreshold <=> n >= LockThreshold
         /\ \A m, n \in Nat : n <= m => Less(n) \in 0..m
         /\ \A n \in Nat : Less(n) > 0 => n > 0
         /\ 0 \in 0..LockThreshold /\ 0 \in 0..LockTime /\ LockTime \in 0..LockTime
         /\ 0 \in 0..WindowTime /\ 0 \in 0..(TryLimit + 1) /\ 1 \in 0..(TryLimit + 1)
         /\ WindowTime \in 0..WindowTime /\ SessionTime \in 0..SessionTime
BY DEF AccessAssumption, UpToThreshold, Less

\* The account with its counters reset.
LEMMA ClearedAccount ==
  ASSUME AccessAssumption, AccessTypeOK
  PROVE  /\ Cleared(account) \in [active : BOOLEAN, failed : 0..LockThreshold, lock : 0..LockTime]
         /\ Cleared(account).failed = 0 /\ Cleared(account).lock = 0
         /\ Cleared(account).active = account.active
BY BoundedCounters DEF Cleared, AccessTypeOK

\* An emptied bucket.
LEMMA EmptyBucket ==
  ASSUME AccessAssumption
  PROVE  NoBucket \in [count : 0..(TryLimit + 1), left : 0..WindowTime]
BY BoundedCounters DEF NoBucket

\* Whoever is overtaken stays where it is, and is no longer alone.
LEMMA OvertakenRequests ==
  ASSUME AccessShape, NEW but \in SUBSET Requests, NEW new \in BOOLEAN
  PROVE  /\ Overtaken(but, new) \in [Requests -> AccessRequest]
         /\ \A r \in Requests : /\ Overtaken(but, new)[r].at = access[r].at
                                /\ Overtaken(but, new)[r].failed = access[r].failed
         /\ \A r \in but : Overtaken(but, new)[r] = access[r]
         /\ \A r \in Requests \ but : access[r].at # "idle" => ~Overtaken(but, new)[r].alone
<1>1. \A r \in Requests : access[r] \in AccessRequest
  BY DEF AccessShape
<1>2. ASSUME NEW r \in Requests, r \notin but, access[r].at # "idle"
      PROVE  /\ Overtaken(but, new)[r] \in AccessRequest /\ ~Overtaken(but, new)[r].alone
             /\ Overtaken(but, new)[r].at = access[r].at /\ Overtaken(but, new)[r].failed = access[r].failed
  <2>1. Overtaken(but, new)[r] = [access[r] EXCEPT !.alone = FALSE, !.knows = @ /\ ~new]
    BY <1>2 DEF Overtaken
  <2> QED BY <2>1, <1>1 DEF AccessRequest
<1>3. ASSUME NEW r \in Requests, r \in but \/ access[r].at = "idle"
      PROVE  Overtaken(but, new)[r] = access[r]
  BY <1>3 DEF Overtaken
<1>4. \A r \in Requests : Overtaken(but, new)[r] \in AccessRequest
  BY <1>1, <1>2, <1>3
<1>5. Overtaken(but, new) \in [Requests -> AccessRequest]
  BY <1>4 DEF Overtaken
<1> QED BY <1>2, <1>3, <1>5

\* The devices that are left are as they were.
LEMMA SignedOutDevices ==
  ASSUME AccessTypeOK, AccessShape, NEW gone
  PROVE  /\ SignedOut(gone) \in [DOMAIN SignedOut(gone) -> DeviceRow]
         /\ DOMAIN SignedOut(gone) = DOMAIN sessions \ gone
         /\ \A d \in DOMAIN sessions \ gone : SignedOut(gone)[d] = sessions[d]
BY DEF SignedOut, AccessShape

LEMMA AccessInitHolds ==
  ASSUME AccessAssumption, AccessInit
  PROVE  AccessInvariant
<1>1. /\ account = [active |-> TRUE, failed |-> 0, lock |-> 0] /\ sessions = <<>>
      /\ DOMAIN sessions = {} /\ bucket = NoBucket /\ wrong = 0 /\ muddled = FALSE
  BY DEF AccessInit
<1>2. NoRequest \in AccessRequest
  BY BoundedCounters DEF NoRequest, AccessRequest, AccessSteps
<1>3. access \in [Requests -> AccessRequest] /\ \A r \in Requests : access[r] = NoRequest
  BY <1>2 DEF AccessInit
<1>4. sessions \in [DOMAIN sessions -> DeviceRow]
  BY <1>1
<1>5. AccessShape
  BY <1>1, <1>3, <1>4 DEF AccessShape
<1>6. account \in [active : BOOLEAN, failed : 0..LockThreshold, lock : 0..LockTime]
  BY <1>1, BoundedCounters
<1>7. AccessTypeOK
  BY <1>1, <1>3, <1>6, EmptyBucket, BoundedCounters DEF AccessTypeOK, NoRequest
<1>8. RequestsAreCurrent /\ DevicesAreCurrent /\ FailuresReadTheCounter /\ CountsFailuresInARow
  BY <1>1, <1>3, AccessAssumption
     DEF RequestsAreCurrent, DevicesAreCurrent, FailuresReadTheCounter, CountsFailuresInARow, NoRequest,
         AccessAssumption
<1> QED BY <1>5, <1>7, <1>8 DEF AccessInvariant

\* The account is written with a counter that is right, and everybody else in
\* flight is overtaken.
LEMMA WrittenAccountKeeps ==
  ASSUME AccessAssumption, AccessInvariant, NEW but \in SUBSET Requests, NEW new \in BOOLEAN,
         Muddle(but),
         account' \in [active : BOOLEAN, failed : 0..LockThreshold, lock : 0..LockTime],
         wrong' \in 0..LockThreshold, bucket' \in [count : 0..(TryLimit + 1), left : 0..WindowTime],
         access' \in [Requests -> AccessRequest], sessions' \in [DOMAIN sessions' -> DeviceRow],
         DOMAIN sessions' \subseteq Devices,
         \A r \in Requests \ but : access'[r] = Overtaken(but, new)[r],
         \A r \in but : access'[r].at # "idle" => access[r].at # "idle" /\ access'[r].at # "wrong"
                          /\ access'[r].alone = access[r].alone /\ access'[r].knows = access[r].knows
                          /\ account'.active = account.active,
         account'.lock > 0 => account'.failed >= LockThreshold,
         ~muddled' => account'.failed = wrong',
         DevicesAreCurrent'
  PROVE  AccessInvariant'
<1>1. /\ \A r \in Requests : /\ Overtaken(but, new)[r].at = access[r].at
                             /\ Overtaken(but, new)[r].failed = access[r].failed
      /\ \A r \in Requests \ but : access[r].at # "idle" => ~Overtaken(but, new)[r].alone
  BY OvertakenRequests DEF AccessInvariant
<1>2. muddled' \in BOOLEAN /\ (~muddled' => \A r \in Requests \ but : access[r].at # "wrong")
  BY DEF Muddle, AccessInvariant, AccessShape
<1>3. AccessShape'
  BY <1>2 DEF AccessShape
<1>4. AccessTypeOK'
  <2>1. \A r \in Requests : access'[r].at \in AccessSteps
    BY DEF AccessRequest
  <2>2. \A d \in DOMAIN sessions' : sessions'[d] \in DeviceRow
    OBVIOUS
  <2> QED BY <2>1, <2>2 DEF AccessTypeOK, AccessSteps, DeviceRow
<1>5. RequestsAreCurrent'
  <2> SUFFICES ASSUME NEW r \in Requests, access'[r].at # "idle", access'[r].alone
               PROVE  access'[r].knows /\ account'.active
    BY DEF RequestsAreCurrent
  <2>1. r \in but
    BY <1>1
  <2> QED BY <2>1 DEF AccessInvariant, RequestsAreCurrent
<1>6. FailuresReadTheCounter'
  BY <1>1, <1>2 DEF FailuresReadTheCounter
<1>7. CountsFailuresInARow'
  BY DEF CountsFailuresInARow
<1> QED BY <1>3, <1>4, <1>5, <1>6, <1>7 DEF AccessInvariant

\* A step that leaves the account, its failures and the history alone.
LEMMA UnwrittenAccountKeeps ==
  ASSUME AccessAssumption, AccessInvariant, UNCHANGED <<account, wrong, muddled>>,
         bucket' \in [count : 0..(TryLimit + 1), left : 0..WindowTime],
         access' \in [Requests -> AccessRequest], sessions' \in [DOMAIN sessions' -> DeviceRow],
         DOMAIN sessions' \subseteq Devices,
         RequestsAreCurrent', FailuresReadTheCounter', DevicesAreCurrent'
  PROVE  AccessInvariant'
<1>1. AccessShape'
  BY DEF AccessInvariant, AccessShape
<1>2. AccessTypeOK'
  <2>1. \A r \in Requests : access'[r].at \in AccessSteps
    BY DEF AccessRequest
  <2>2. \A d \in DOMAIN sessions' : sessions'[d] \in DeviceRow
    OBVIOUS
  <2> QED BY <2>1, <2>2 DEF AccessInvariant, AccessTypeOK, AccessSteps, DeviceRow
<1>3. CountsFailuresInARow'
  BY DEF AccessInvariant, CountsFailuresInARow
<1> QED BY <1>1, <1>2, <1>3 DEF AccessInvariant

\* Nobody is left once every device is signed out.
LEMMA NobodyLeft ==
  ASSUME AccessInvariant, sessions' = SignedOut(DOMAIN sessions)
  PROVE  DOMAIN sessions' = {} /\ sessions' \in [DOMAIN sessions' -> DeviceRow]
<1>1. sessions' = [d \in {} |-> sessions[d]]
  BY DEF SignedOut
<1> QED BY <1>1

---------------------------------------------------------------------------
LEMMA StartSignInKeeps ==
  ASSUME AccessAssumption, AccessInvariant, NEW r \in Requests, NEW right \in BOOLEAN,
         StartSignIn(r, right)
  PROVE  AccessInvariant'
<1> DEFINE t == [NoRequest EXCEPT !.at = IF right THEN "right" ELSE "wrong", !.failed = account.failed]
<1>1. /\ access[r].at = "idle" /\ UNCHANGED <<account, sessions, wrong, muddled>>
      /\ \/ access' = [access EXCEPT ![r] = t] /\ account.active
         \/ access' = access
  BY DEF StartSignIn, MaySignIn
<1>2. bucket' \in [count : 0..(TryLimit + 1), left : 0..WindowTime]
  <2>1. bucket \in [count : 0..(TryLimit + 1), left : 0..WindowTime]
    BY DEF AccessInvariant, AccessTypeOK
  <2>2. CASE bucket.left = 0
    BY <2>2, BoundedCounters DEF StartSignIn
  <2>3. CASE bucket.left # 0
    <3>1. bucket' = [bucket EXCEPT !.count = IF @ <= TryLimit THEN @ + 1 ELSE @]
      BY <2>3 DEF StartSignIn
    <3>2. TryLimit \in Nat
      BY DEF AccessAssumption
    <3> QED BY <2>1, <3>1, <3>2
  <2> QED BY <2>2, <2>3
<1>3. /\ t \in AccessRequest /\ t.at \in {"right", "wrong"} /\ t.knows /\ t.alone
      /\ t.failed = account.failed
  BY DEF NoRequest, AccessRequest, AccessSteps, AccessInvariant, AccessTypeOK
<1> HIDE DEF t
<1>4. access \in [Requests -> AccessRequest] /\ sessions \in [DOMAIN sessions -> DeviceRow]
      /\ DOMAIN sessions \subseteq Devices
  BY DEF AccessInvariant, AccessShape, AccessTypeOK
<1>5. access' \in [Requests -> AccessRequest]
  BY <1>1, <1>3, <1>4
<1>6. \A q \in Requests : access'[q] = access[q] \/ (q = r /\ access'[q] = t /\ account.active)
  BY <1>1, <1>4
<1>7. RequestsAreCurrent' /\ FailuresReadTheCounter'
  BY <1>1, <1>3, <1>6 DEF AccessInvariant, RequestsAreCurrent, FailuresReadTheCounter
<1>8. DevicesAreCurrent'
  <2>1. Busy("signout")' = {} => Busy("signout") = {}
    BY <1>1, <1>4, <1>3 DEF Busy
  <2> QED BY <2>1, <1>1 DEF AccessInvariant, DevicesAreCurrent
<1> QED BY <1>1, <1>2, <1>4, <1>5, <1>7, <1>8, UnwrittenAccountKeeps

LEMMA FailKeeps ==
  ASSUME AccessAssumption, AccessInvariant, NEW r \in Requests, Fail(r)
  PROVE  AccessInvariant'
<1> DEFINE attempts == UpToThreshold(access[r].failed + 1)
           O == Overtaken({r}, FALSE)
<1>1. /\ access[r].at = "wrong" /\ Muddle({r}) /\ UNCHANGED <<sessions, bucket>>
      /\ account' = [account EXCEPT !.failed = attempts,
                                    !.lock = IF attempts >= LockThreshold THEN LockTime ELSE 0]
      /\ wrong' = UpToThreshold(wrong + 1) /\ access' = [O EXCEPT ![r] = NoRequest]
  BY DEF Fail
<1>2. /\ access[r].failed \in Nat /\ account.failed \in Nat /\ wrong \in Nat
      /\ account \in [active : BOOLEAN, failed : 0..LockThreshold, lock : 0..LockTime]
      /\ access[r] \in AccessRequest
  <2>1. access[r] \in AccessRequest
    BY DEF AccessInvariant, AccessShape
  <2>2. LockThreshold \in Nat
    BY DEF AccessAssumption
  <2> QED BY <2>1, <2>2 DEF AccessInvariant, AccessTypeOK, AccessRequest
<1>3. attempts \in 0..LockThreshold /\ wrong' \in 0..LockThreshold
  BY <1>1, <1>2, BoundedCounters
<1> HIDE DEF attempts
<1>4. /\ account' \in [active : BOOLEAN, failed : 0..LockThreshold, lock : 0..LockTime]
      /\ account'.failed = attempts /\ account'.active = account.active
      /\ account'.lock = IF attempts >= LockThreshold THEN LockTime ELSE 0
  BY <1>1, <1>2, <1>3, BoundedCounters
<1>5. account'.lock > 0 => account'.failed >= LockThreshold
  BY <1>4
<1>6. ~muddled' => account'.failed = wrong'
  <2> SUFFICES ASSUME ~muddled' PROVE account'.failed = wrong'
    OBVIOUS
  <2>1. ~muddled
    BY <1>1 DEF Muddle
  <2>2. access[r].failed = account.failed /\ account.failed = wrong
    BY <2>1, <1>1 DEF AccessInvariant, FailuresReadTheCounter, CountsFailuresInARow
  <2> QED BY <2>2, <1>1, <1>4 DEF attempts
<1>7. O \in [Requests -> AccessRequest]
      /\ \A q \in Requests : O[q].at = access[q].at
  BY OvertakenRequests DEF AccessInvariant
<1>8. NoRequest \in AccessRequest /\ NoRequest.at = "idle"
  BY BoundedCounters DEF NoRequest, AccessRequest, AccessSteps
<1> HIDE DEF O
<1>9. /\ access' \in [Requests -> AccessRequest] /\ access'[r].at = "idle"
      /\ \A q \in Requests \ {r} : access'[q] = O[q]
  BY <1>1, <1>7, <1>8
<1>10. DevicesAreCurrent'
  <2>1. Busy("signout")' = Busy("signout")
    BY <1>1, <1>7, <1>9 DEF Busy
  <2> QED BY <2>1, <1>1, <1>4 DEF AccessInvariant, DevicesAreCurrent
<1>11. /\ bucket' \in [count : 0..(TryLimit + 1), left : 0..WindowTime]
       /\ sessions' \in [DOMAIN sessions' -> DeviceRow] /\ DOMAIN sessions' \subseteq Devices
  BY <1>1 DEF AccessInvariant, AccessTypeOK, AccessShape
<1>12. \A q \in Requests \ {r} : access'[q] = Overtaken({r}, FALSE)[q]
  BY <1>9 DEF O
<1> QED
  BY <1>1, <1>3, <1>4, <1>5, <1>6, <1>9, <1>10, <1>11, <1>12, WrittenAccountKeeps

\* A request that writes the account with its counters reset and goes on.
LEMMA ClearedByOneKeeps ==
  ASSUME AccessAssumption, AccessInvariant, NEW r \in Requests, NEW new \in BOOLEAN,
         NEW next \in {"open", "signout"}, access[r].at \notin {"idle", "signout"},
         account' = Cleared(account), wrong' = 0, Muddle({r}),
         access' = [Overtaken({r}, new) EXCEPT ![r] = [access[r] EXCEPT !.at = next]],
         bucket' \in [count : 0..(TryLimit + 1), left : 0..WindowTime],
         \/ sessions' = sessions /\ next = "open"
         \/ sessions' = Forgotten /\ next = "signout"
  PROVE  AccessInvariant'
<1> DEFINE O == Overtaken({r}, new)
           t == [access[r] EXCEPT !.at = next]
<1>1. access[r] \in AccessRequest
  BY DEF AccessInvariant, AccessShape
<1>2. t \in AccessRequest /\ t.at = next /\ t.alone = access[r].alone /\ t.knows = access[r].knows
  BY <1>1 DEF AccessRequest, AccessSteps
<1>3. O \in [Requests -> AccessRequest] /\ \A q \in Requests : O[q].at = access[q].at
  BY OvertakenRequests DEF AccessInvariant
<1>4. /\ access' = [O EXCEPT ![r] = t]
      /\ \A q \in Requests \ {r} : access'[q] = Overtaken({r}, new)[q]
  BY <1>3
<1> HIDE DEF O, t
<1>5. access' \in [Requests -> AccessRequest] /\ access'[r] = t
      /\ \A q \in Requests \ {r} : access'[q] = O[q]
  BY <1>2, <1>3, <1>4
<1>6. /\ account' \in [active : BOOLEAN, failed : 0..LockThreshold, lock : 0..LockTime]
      /\ account'.failed = 0 /\ account'.lock = 0 /\ account'.active = account.active
      /\ wrong' \in 0..LockThreshold
  BY ClearedAccount, BoundedCounters DEF AccessInvariant
<1>7. sessions' \in [DOMAIN sessions' -> DeviceRow] /\ DOMAIN sessions' \subseteq Devices
  <2>1. sessions \in [DOMAIN sessions -> DeviceRow] /\ DOMAIN sessions \subseteq Devices
    BY DEF AccessInvariant, AccessShape, AccessTypeOK
  <2>2. \A d \in DOMAIN sessions : [sessions[d] EXCEPT !.knows = FALSE] \in DeviceRow
    BY <2>1 DEF DeviceRow
  <2> QED BY <2>1, <2>2 DEF Forgotten
<1>8. DevicesAreCurrent'
  <2>1. CASE next = "signout"
    <3>1. r \in Busy("signout")'
      BY <2>1, <1>2, <1>5 DEF Busy
    <3> QED BY <3>1 DEF DevicesAreCurrent
  <2>2. CASE next = "open" /\ sessions' = sessions
    <3>1. Busy("signout")' = Busy("signout")
      <4>1. access'[r].at # "signout" /\ access[r].at # "signout"
        BY <2>2, <1>2, <1>5
      <4>2. \A q \in Requests : access'[q].at = "signout" <=> access[q].at = "signout"
        BY <1>3, <1>5, <4>1
      <4> QED BY <4>2 DEF Busy
    <3>2. DevicesAreCurrent /\ account'.active = account.active
      BY <1>6 DEF AccessInvariant
    <3> QED BY <2>2, <3>1, <3>2 DEF DevicesAreCurrent
  <2> QED BY <2>1, <2>2
<1>9. account'.lock > 0 => account'.failed >= LockThreshold
  BY <1>6
<1>10. \A q \in {r} : access'[q].at # "idle" => access[q].at # "idle" /\ access'[q].at # "wrong"
                          /\ access'[q].alone = access[q].alone /\ access'[q].knows = access[q].knows
                          /\ account'.active = account.active
  BY <1>2, <1>5, <1>6
<1> QED BY <1>4, <1>5, <1>6, <1>7, <1>8, <1>9, <1>10, WrittenAccountKeeps

LEMMA SucceedKeeps ==
  ASSUME AccessAssumption, AccessInvariant, NEW r \in Requests, Succeed(r)
  PROVE  AccessInvariant'
<1>1. /\ access[r].at = "right" /\ account' = Cleared(account) /\ wrong' = 0 /\ bucket' = NoBucket
      /\ Muddle({r}) /\ sessions' = sessions
      /\ access' = [Overtaken({r}, FALSE) EXCEPT ![r] = [access[r] EXCEPT !.at = "open"]]
  BY DEF Succeed
<1> QED BY <1>1, EmptyBucket, ClearedByOneKeeps

LEMMA ChangePasswordKeeps ==
  ASSUME AccessAssumption, AccessInvariant, NEW r \in Requests, ChangePassword(r)
  PROVE  AccessInvariant'
<1>1. /\ access[r].at = "change" /\ account' = Cleared(account) /\ wrong' = 0 /\ bucket' = bucket
      /\ Muddle({r}) /\ sessions' = Forgotten
      /\ access' = [Overtaken({r}, TRUE) EXCEPT ![r] = [access[r] EXCEPT !.at = "signout"]]
  BY DEF ChangePassword
<1>2. bucket \in [count : 0..(TryLimit + 1), left : 0..WindowTime]
  BY DEF AccessInvariant, AccessTypeOK
<1> QED BY <1>1, <1>2, ClearedByOneKeeps

LEMMA OpenSessionKeeps ==
  ASSUME AccessAssumption, AccessInvariant, NEW r \in Requests, OpenSession(r)
  PROVE  AccessInvariant'
<1> DEFINE gone == {d \in DOMAIN sessions : sessions[d].left = 0}
           row == [left |-> SessionTime, knows |-> access[r].knows, alone |-> access[r].alone]
<1>1. PICK d \in Devices \ DOMAIN SignedOut(gone) :
           sessions' = [e \in DOMAIN SignedOut(gone) \cup {d} |->
                          IF e = d THEN row ELSE SignedOut(gone)[e]]
  BY DEF OpenSession
<1>2. /\ access[r].at = "open" /\ access' = [access EXCEPT ![r] = NoRequest]
      /\ UNCHANGED <<account, bucket, wrong, muddled>>
  BY DEF OpenSession
<1>3. /\ access \in [Requests -> AccessRequest] /\ access[r] \in AccessRequest
      /\ DOMAIN sessions \subseteq Devices
      /\ bucket' \in [count : 0..(TryLimit + 1), left : 0..WindowTime]
  BY <1>2 DEF AccessInvariant, AccessShape, AccessTypeOK
<1>4. row \in DeviceRow /\ row.knows = access[r].knows /\ row.alone = access[r].alone
  BY <1>3, BoundedCounters DEF DeviceRow, AccessRequest
<1>5. /\ DOMAIN SignedOut(gone) \subseteq DOMAIN sessions
      /\ \A e \in DOMAIN SignedOut(gone) :
           SignedOut(gone)[e] = sessions[e] /\ SignedOut(gone)[e] \in DeviceRow
  <2>1. AccessTypeOK /\ AccessShape
    BY DEF AccessInvariant
  <2> HIDE DEF gone
  <2>2. \A e \in DOMAIN sessions : sessions[e] \in DeviceRow
    BY <2>1 DEF AccessShape
  <2>3. SignedOut(gone) = [e \in DOMAIN sessions \ gone |-> sessions[e]]
    BY DEF SignedOut
  <2> QED BY <2>2, <2>3
<1> DEFINE live == SignedOut(gone)
<1>6. /\ sessions' = [e \in DOMAIN live \cup {d} |-> IF e = d THEN row ELSE live[e]]
      /\ DOMAIN live \subseteq DOMAIN sessions
      /\ \A e \in DOMAIN live : live[e] = sessions[e] /\ live[e] \in DeviceRow
  BY <1>1, <1>5
<1> HIDE DEF live, row, gone
<1>7. sessions' \in [DOMAIN sessions' -> DeviceRow] /\ DOMAIN sessions' \subseteq Devices
  BY <1>3, <1>4, <1>6
<1>8. /\ access' \in [Requests -> AccessRequest] /\ access'[r].at = "idle"
      /\ \A q \in Requests \ {r} : access'[q] = access[q]
  <2>1. NoRequest \in AccessRequest /\ NoRequest.at = "idle"
    BY BoundedCounters DEF NoRequest, AccessRequest, AccessSteps
  <2> QED BY <1>2, <1>3, <2>1
<1>9. RequestsAreCurrent' /\ FailuresReadTheCounter'
  BY <1>2, <1>8 DEF AccessInvariant, RequestsAreCurrent, FailuresReadTheCounter
<1>10. DevicesAreCurrent'
  <2> SUFFICES ASSUME Busy("signout")' = {}, NEW e \in DOMAIN sessions', sessions'[e].alone
               PROVE  sessions'[e].knows /\ account.active
    BY <1>2 DEF DevicesAreCurrent
  <2>1. Busy("signout") = {}
    BY <1>2, <1>8 DEF Busy
  <2>2. CASE e = d
    BY <2>2, <1>2, <1>4, <1>6 DEF AccessInvariant, RequestsAreCurrent
  <2>3. CASE e # d
    BY <2>1, <2>3, <1>6 DEF AccessInvariant, DevicesAreCurrent
  <2> QED BY <2>2, <2>3
<1> QED BY <1>2, <1>3, <1>7, <1>8, <1>9, <1>10, UnwrittenAccountKeeps

LEMMA StartChangeKeeps ==
  ASSUME AccessAssumption, AccessInvariant, NEW r \in Requests, NEW d \in DOMAIN sessions,
         StartChange(r, d)
  PROVE  AccessInvariant'
<1> DEFINE t == [NoRequest EXCEPT !.at = "change"]
<1>1. /\ access[r].at = "idle" /\ account.active /\ access' = [access EXCEPT ![r] = t]
      /\ UNCHANGED <<account, sessions, bucket, wrong, muddled>>
  BY DEF StartChange, Signed
<1>2. t \in AccessRequest /\ t.at = "change" /\ t.knows
  BY BoundedCounters DEF NoRequest, AccessRequest, AccessSteps
<1> HIDE DEF t
<1>3. /\ access' \in [Requests -> AccessRequest] /\ access'[r] = t
      /\ \A q \in Requests \ {r} : access'[q] = access[q]
  BY <1>1, <1>2 DEF AccessInvariant, AccessShape
<1>4. RequestsAreCurrent' /\ FailuresReadTheCounter'
  BY <1>1, <1>2, <1>3 DEF AccessInvariant, RequestsAreCurrent, FailuresReadTheCounter
<1>5. DevicesAreCurrent'
  <2>1. Busy("signout")' = Busy("signout")
    BY <1>1, <1>2, <1>3 DEF Busy
  <2> QED BY <2>1, <1>1 DEF AccessInvariant, DevicesAreCurrent
<1>6. /\ bucket' \in [count : 0..(TryLimit + 1), left : 0..WindowTime]
      /\ sessions' \in [DOMAIN sessions' -> DeviceRow] /\ DOMAIN sessions' \subseteq Devices
  BY <1>1 DEF AccessInvariant, AccessTypeOK, AccessShape
<1> QED BY <1>1, <1>3, <1>4, <1>5, <1>6, UnwrittenAccountKeeps

LEMMA SignOutEverywhereKeeps ==
  ASSUME AccessAssumption, AccessInvariant, NEW r \in Requests, SignOutEverywhere(r)
  PROVE  AccessInvariant'
<1> DEFINE t == [access[r] EXCEPT !.at = "open"]
<1>1. /\ access[r].at = "signout" /\ access' = [access EXCEPT ![r] = t]
      /\ sessions' = SignedOut(DOMAIN sessions) /\ UNCHANGED <<account, bucket, wrong, muddled>>
  BY DEF SignOutEverywhere
<1>2. access \in [Requests -> AccessRequest] /\ access[r] \in AccessRequest
  BY DEF AccessInvariant, AccessShape
<1>3. t \in AccessRequest /\ t.at = "open" /\ t.knows = access[r].knows /\ t.alone = access[r].alone
  BY <1>2 DEF AccessRequest, AccessSteps
<1> HIDE DEF t
<1>4. /\ access' \in [Requests -> AccessRequest] /\ access'[r] = t
      /\ \A q \in Requests \ {r} : access'[q] = access[q]
  BY <1>1, <1>2, <1>3
<1>5. DOMAIN sessions' = {} /\ sessions' \in [DOMAIN sessions' -> DeviceRow]
  BY <1>1, NobodyLeft
<1>6. RequestsAreCurrent' /\ FailuresReadTheCounter' /\ DevicesAreCurrent'
  BY <1>1, <1>3, <1>4, <1>5
     DEF AccessInvariant, RequestsAreCurrent, FailuresReadTheCounter, DevicesAreCurrent
<1>7. bucket' \in [count : 0..(TryLimit + 1), left : 0..WindowTime]
  BY <1>1 DEF AccessInvariant, AccessTypeOK
<1> QED BY <1>1, <1>4, <1>5, <1>6, <1>7, UnwrittenAccountKeeps

\* Devices lose their rows or have more time: what is left is as current as it was.
LEMMA FewerDevicesKeep ==
  ASSUME AccessAssumption, AccessInvariant, UNCHANGED <<account, bucket, access, wrong, muddled>>,
         sessions' \in [DOMAIN sessions' -> DeviceRow], DOMAIN sessions' \subseteq DOMAIN sessions,
         \A d \in DOMAIN sessions' : /\ sessions'[d].knows = sessions[d].knows
                                     /\ sessions'[d].alone = sessions[d].alone
  PROVE  AccessInvariant'
<1>1. RequestsAreCurrent' /\ FailuresReadTheCounter'
  BY DEF AccessInvariant, RequestsAreCurrent, FailuresReadTheCounter
<1>2. DevicesAreCurrent'
  BY DEF AccessInvariant, DevicesAreCurrent, Busy
<1>3. /\ bucket' \in [count : 0..(TryLimit + 1), left : 0..WindowTime]
      /\ access' \in [Requests -> AccessRequest] /\ DOMAIN sessions' \subseteq Devices
  BY DEF AccessInvariant, AccessTypeOK, AccessShape
<1> QED BY <1>1, <1>2, <1>3, UnwrittenAccountKeeps

LEMMA SomeSignedOutKeeps ==
  ASSUME AccessAssumption, AccessInvariant, UNCHANGED <<account, bucket, access, wrong, muddled>>,
         NEW gone, sessions' = SignedOut(gone)
  PROVE  AccessInvariant'
<1>1. AccessTypeOK /\ AccessShape
  BY DEF AccessInvariant
<1>2. /\ sessions' \in [DOMAIN sessions' -> DeviceRow] /\ DOMAIN sessions' = DOMAIN sessions \ gone
      /\ \A d \in DOMAIN sessions \ gone : sessions'[d] = sessions[d]
  BY <1>1, SignedOutDevices
<1> QED BY <1>2, FewerDevicesKeep

LEMMA UseSessionKeeps ==
  ASSUME AccessAssumption, AccessInvariant, NEW d \in DOMAIN sessions, UseSession(d)
  PROVE  AccessInvariant'
<1>1. UNCHANGED <<account, bucket, access, wrong, muddled>>
  BY DEF UseSession
<1>2. \/ sessions' = SignedOut({d}) \/ sessions' = SignedOut(DOMAIN sessions)
      \/ sessions' = [sessions EXCEPT ![d].left = IF 2 * @ < SessionTime THEN SessionTime ELSE @]
  BY DEF UseSession
<1>3. ASSUME NEW gone, sessions' = SignedOut(gone)
      PROVE  AccessInvariant'
  BY <1>1, <1>3, SomeSignedOutKeeps
<1>4. ASSUME sessions' = [sessions EXCEPT ![d].left = IF 2 * @ < SessionTime THEN SessionTime ELSE @]
      PROVE  AccessInvariant'
  <2>1. PICK more \in 0..SessionTime : sessions' = [sessions EXCEPT ![d].left = more]
    <3>1. sessions[d].left \in 0..SessionTime /\ SessionTime \in 0..SessionTime
      BY BoundedCounters DEF AccessInvariant, AccessTypeOK
    <3> QED BY <3>1, <1>4
  <2>2. sessions \in [DOMAIN sessions -> DeviceRow] /\ sessions[d] \in DeviceRow
    BY DEF AccessInvariant, AccessShape
  <2>3. /\ [sessions[d] EXCEPT !.left = more] \in DeviceRow
        /\ [sessions[d] EXCEPT !.left = more].knows = sessions[d].knows
        /\ [sessions[d] EXCEPT !.left = more].alone = sessions[d].alone
    BY <2>2 DEF DeviceRow
  <2>4. /\ sessions' \in [DOMAIN sessions' -> DeviceRow] /\ DOMAIN sessions' \subseteq DOMAIN sessions
        /\ \A e \in DOMAIN sessions' : /\ sessions'[e].knows = sessions[e].knows
                                       /\ sessions'[e].alone = sessions[e].alone
    BY <2>1, <2>2, <2>3
  <2> QED BY <1>1, <2>4, FewerDevicesKeep
<1> QED BY <1>2, <1>3, <1>4

LEMMA RevokeKeeps ==
  ASSUME AccessAssumption, AccessInvariant, NEW gone \in SUBSET DOMAIN sessions, Revoke(gone)
  PROVE  AccessInvariant'
<1>1. UNCHANGED <<account, bucket, access, wrong, muddled>> /\ sessions' = SignedOut(gone)
  BY DEF Revoke
<1> QED BY <1>1, SomeSignedOutKeeps

\* What the office writes: everybody in flight is overtaken.
LEMMA OfficeWriteKeeps ==
  ASSUME AccessAssumption, AccessInvariant, NEW new \in BOOLEAN, Muddle({}),
         access' = Overtaken({}, new), bucket' = bucket,
         account' \in [active : BOOLEAN, failed : 0..LockThreshold, lock : 0..LockTime],
         wrong' \in 0..LockThreshold,
         account'.lock > 0 => account'.failed >= LockThreshold,
         ~muddled' => account'.failed = wrong',
         \/ sessions' = sessions /\ (account.active => account'.active)
         \/ DOMAIN sessions' = {} /\ sessions' \in [DOMAIN sessions' -> DeviceRow]
  PROVE  AccessInvariant'
<1>1. /\ access' \in [Requests -> AccessRequest] /\ \A r \in Requests : access'[r].at = access[r].at
  <2>1. AccessShape /\ {} \in SUBSET Requests
    BY DEF AccessInvariant
  <2>2. /\ Overtaken({}, new) \in [Requests -> AccessRequest]
        /\ \A r \in Requests : Overtaken({}, new)[r].at = access[r].at
    BY <2>1, OvertakenRequests, ZenonT(60)
  <2> QED BY <2>2
<1>2. Busy("signout")' = Busy("signout")
  BY <1>1 DEF Busy
<1>3. DevicesAreCurrent'
  BY <1>2 DEF AccessInvariant, DevicesAreCurrent
<1>4. /\ bucket' \in [count : 0..(TryLimit + 1), left : 0..WindowTime]
      /\ sessions' \in [DOMAIN sessions' -> DeviceRow] /\ DOMAIN sessions' \subseteq Devices
  BY DEF AccessInvariant, AccessTypeOK, AccessShape
<1> QED BY <1>1, <1>3, <1>4, WrittenAccountKeeps

LEMMA SetUserStatusKeeps ==
  ASSUME AccessAssumption, AccessInvariant, NEW active \in BOOLEAN, SetUserStatus(active)
  PROVE  AccessInvariant'
<1>1. /\ Muddle({}) /\ access' = Overtaken({}, FALSE) /\ bucket' = bucket
      /\ account' = IF active THEN [Cleared(account) EXCEPT !.active = TRUE]
                              ELSE [account EXCEPT !.active = FALSE]
      /\ sessions' = IF active THEN sessions ELSE SignedOut(DOMAIN sessions)
      /\ wrong' = IF active THEN 0 ELSE wrong
  BY DEF SetUserStatus
<1>2. ~muddled' => ~muddled
  BY <1>1 DEF Muddle
<1>3. CASE active
  <2>1. account' = [Cleared(account) EXCEPT !.active = TRUE]
    BY <1>1, <1>3
  <2>2. /\ account' \in [active : BOOLEAN, failed : 0..LockThreshold, lock : 0..LockTime]
        /\ account'.active /\ account'.failed = 0 /\ account'.lock = 0
    BY <2>1, ClearedAccount DEF AccessInvariant
  <2>3. wrong' = 0 /\ wrong' \in 0..LockThreshold /\ sessions' = sessions
    BY <1>1, <1>3, BoundedCounters
  <2>4. /\ account'.lock > 0 => account'.failed >= LockThreshold
        /\ ~muddled' => account'.failed = wrong'
    BY <2>2, <2>3
  <2> QED BY <1>1, <2>2, <2>3, <2>4, OfficeWriteKeeps
<1>4. CASE ~active
  <2>1. account' = [account EXCEPT !.active = FALSE] /\ wrong' = wrong
        /\ sessions' = SignedOut(DOMAIN sessions)
    BY <1>1, <1>4
  <2>2. account \in [active : BOOLEAN, failed : 0..LockThreshold, lock : 0..LockTime]
        /\ wrong \in 0..LockThreshold
    BY DEF AccessInvariant, AccessTypeOK
  <2>3. /\ account' \in [active : BOOLEAN, failed : 0..LockThreshold, lock : 0..LockTime]
        /\ account'.failed = account.failed /\ account'.lock = account.lock
    BY <2>1, <2>2
  <2>4. /\ account'.lock > 0 => account'.failed >= LockThreshold
        /\ ~muddled' => account'.failed = wrong'
    BY <2>1, <2>3, <1>2 DEF AccessInvariant, CountsFailuresInARow
  <2>5. DOMAIN sessions' = {} /\ sessions' \in [DOMAIN sessions' -> DeviceRow]
    BY <2>1, NobodyLeft
  <2> QED BY <1>1, <2>1, <2>2, <2>3, <2>4, <2>5, OfficeWriteKeeps
<1> QED BY <1>3, <1>4

LEMMA ResetUserPasswordKeeps ==
  ASSUME AccessAssumption, AccessInvariant, ResetUserPassword
  PROVE  AccessInvariant'
<1> DEFINE kept == SignedOut(DOMAIN sessions)
<1>1. /\ Muddle({}) /\ access' = Overtaken({}, TRUE) /\ bucket' = bucket
      /\ account' = Cleared(account) /\ wrong' = 0
      /\ sessions' = [d \in DOMAIN kept |-> [kept[d] EXCEPT !.knows = FALSE]]
  BY DEF ResetUserPassword
<1>2. DOMAIN kept = {}
  BY DEF SignedOut
<1> HIDE DEF kept
<1>3. DOMAIN sessions' = {} /\ sessions' \in [DOMAIN sessions' -> DeviceRow]
  BY <1>1, <1>2
<1>4. wrong' \in 0..LockThreshold
  BY <1>1, BoundedCounters
<1>5. /\ account' \in [active : BOOLEAN, failed : 0..LockThreshold, lock : 0..LockTime]
      /\ account'.failed = 0 /\ account'.lock = 0
  BY <1>1, ClearedAccount DEF AccessInvariant
<1>6. /\ account'.lock > 0 => account'.failed >= LockThreshold
      /\ ~muddled' => account'.failed = wrong'
  BY <1>1, <1>5
<1> QED BY <1>1, <1>3, <1>4, <1>5, <1>6, OfficeWriteKeeps

LEMMA UnlockUserKeeps ==
  ASSUME AccessAssumption, AccessInvariant, UnlockUser
  PROVE  AccessInvariant'
<1>1. /\ Muddle({}) /\ access' = Overtaken({}, FALSE) /\ bucket' = bucket
      /\ account' = Cleared(account) /\ wrong' = 0 /\ sessions' = sessions
  BY DEF UnlockUser
<1>2. wrong' \in 0..LockThreshold
  BY <1>1, BoundedCounters
<1>3. /\ account' \in [active : BOOLEAN, failed : 0..LockThreshold, lock : 0..LockTime]
      /\ account'.failed = 0 /\ account'.lock = 0 /\ account'.active = account.active
  BY <1>1, ClearedAccount DEF AccessInvariant
<1>4. /\ account'.lock > 0 => account'.failed >= LockThreshold
      /\ ~muddled' => account'.failed = wrong'
  BY <1>1, <1>3
<1> QED BY <1>1, <1>2, <1>3, <1>4, OfficeWriteKeeps

LEMMA TickKeeps ==
  ASSUME AccessAssumption, AccessInvariant, ClockTicks
  PROVE  AccessInvariant'
<1>1. /\ account' = [account EXCEPT !.lock = Less(@)] /\ UNCHANGED <<access, wrong, muddled>>
      /\ bucket' = IF bucket.left <= 1 THEN NoBucket ELSE [bucket EXCEPT !.left = @ - 1]
      /\ sessions' = [d \in DOMAIN sessions |-> [sessions[d] EXCEPT !.left = Less(@)]]
  BY DEF ClockTicks
<1>2. /\ account \in [active : BOOLEAN, failed : 0..LockThreshold, lock : 0..LockTime]
      /\ bucket \in [count : 0..(TryLimit + 1), left : 0..WindowTime]
      /\ sessions \in [DOMAIN sessions -> DeviceRow] /\ DOMAIN sessions \subseteq Devices
      /\ LockTime \in Nat /\ SessionTime \in Nat /\ WindowTime \in Nat
  BY DEF AccessInvariant, AccessTypeOK, AccessShape, AccessAssumption
<1>3. Less(account.lock) \in 0..LockTime /\ (Less(account.lock) > 0 => account.lock > 0)
  BY <1>2, BoundedCounters
<1>4. /\ account' \in [active : BOOLEAN, failed : 0..LockThreshold, lock : 0..LockTime]
      /\ account'.active = account.active /\ account'.failed = account.failed
      /\ account'.lock = Less(account.lock)
  BY <1>1, <1>2, <1>3
<1>5. bucket' \in [count : 0..(TryLimit + 1), left : 0..WindowTime]
  <2>1. CASE bucket.left <= 1
    BY <2>1, <1>1, EmptyBucket
  <2>2. CASE ~(bucket.left <= 1)
    <3>1. bucket' = [bucket EXCEPT !.left = @ - 1]
      BY <2>2, <1>1
    <3>2. bucket.left - 1 \in 0..WindowTime
      BY <2>2, <1>2
    <3> QED BY <3>1, <3>2, <1>2
  <2> QED BY <2>1, <2>2
<1>6. ASSUME NEW d \in DOMAIN sessions
      PROVE  /\ sessions'[d] \in DeviceRow /\ sessions'[d].knows = sessions[d].knows
             /\ sessions'[d].alone = sessions[d].alone
  <2>1. sessions[d] \in DeviceRow /\ Less(sessions[d].left) \in 0..SessionTime
    BY <1>2, BoundedCounters DEF DeviceRow
  <2>2. sessions'[d] = [sessions[d] EXCEPT !.left = Less(sessions[d].left)]
    BY <1>1
  <2> QED BY <2>1, <2>2 DEF DeviceRow
<1>7. sessions' \in [DOMAIN sessions' -> DeviceRow] /\ DOMAIN sessions' = DOMAIN sessions
  BY <1>1, <1>6
<1>8. AccessShape' /\ AccessTypeOK'
  <2>1. AccessShape'
    BY <1>1, <1>7 DEF AccessInvariant, AccessShape
  <2> QED BY <2>1, <1>1, <1>2, <1>4, <1>5, <1>7 DEF AccessInvariant, AccessTypeOK, DeviceRow
<1>9. RequestsAreCurrent' /\ FailuresReadTheCounter' /\ CountsFailuresInARow'
  BY <1>1, <1>3, <1>4
     DEF AccessInvariant, RequestsAreCurrent, FailuresReadTheCounter, CountsFailuresInARow
<1>10. DevicesAreCurrent'
  <2>1. Busy("signout")' = Busy("signout")
    BY <1>1 DEF Busy
  <2> QED BY <2>1, <1>4, <1>6, <1>7 DEF AccessInvariant, DevicesAreCurrent
<1> QED BY <1>8, <1>9, <1>10 DEF AccessInvariant

LEMMA HostRestartKeeps ==
  ASSUME AccessAssumption, AccessInvariant, HostRestart
  PROVE  AccessInvariant'
<1>1. /\ bucket' = NoBucket /\ access' = [r \in Requests |-> NoRequest] /\ UNCHANGED <<account, wrong, muddled>>
      /\ sessions' = IF Busy("signout") = {} THEN sessions
                     ELSE [d \in DOMAIN sessions |-> [sessions[d] EXCEPT !.alone = FALSE]]
  BY DEF HostRestart
<1>2. NoRequest \in AccessRequest /\ NoRequest.at = "idle"
  BY BoundedCounters DEF NoRequest, AccessRequest, AccessSteps
<1>3. access' \in [Requests -> AccessRequest] /\ \A r \in Requests : access'[r].at = "idle"
  BY <1>1, <1>2
<1>4. sessions \in [DOMAIN sessions -> DeviceRow] /\ DOMAIN sessions \subseteq Devices
  BY DEF AccessInvariant, AccessTypeOK, AccessShape
<1>5. \A d \in DOMAIN sessions : /\ [sessions[d] EXCEPT !.alone = FALSE] \in DeviceRow
                                 /\ ~[sessions[d] EXCEPT !.alone = FALSE].alone
  BY <1>4 DEF DeviceRow
<1>6. CASE Busy("signout") = {}
  <2>1. sessions' = sessions
    BY <1>1, <1>6
  <2>2. RequestsAreCurrent' /\ FailuresReadTheCounter' /\ DevicesAreCurrent'
    BY <2>1, <1>1, <1>3, <1>6
       DEF AccessInvariant, RequestsAreCurrent, FailuresReadTheCounter, DevicesAreCurrent
  <2> QED BY <2>1, <2>2, <1>1, <1>3, <1>4, EmptyBucket, UnwrittenAccountKeeps
<1>7. CASE Busy("signout") # {}
  <2>1. sessions' = [d \in DOMAIN sessions |-> [sessions[d] EXCEPT !.alone = FALSE]]
    BY <1>1, <1>7
  <2>2. /\ sessions' \in [DOMAIN sessions' -> DeviceRow] /\ DOMAIN sessions' = DOMAIN sessions
        /\ \A d \in DOMAIN sessions' : ~sessions'[d].alone
    BY <2>1, <1>5
  <2>3. RequestsAreCurrent' /\ FailuresReadTheCounter' /\ DevicesAreCurrent'
    BY <2>2, <1>1, <1>3
       DEF AccessInvariant, RequestsAreCurrent, FailuresReadTheCounter, DevicesAreCurrent
  <2> QED BY <2>2, <2>3, <1>1, <1>3, <1>4, EmptyBucket, UnwrittenAccountKeeps
<1> QED BY <1>6, <1>7

LEMMA AccessStepHolds ==
  ASSUME AccessAssumption, AccessInvariant, [AccessNext]_accessVars
  PROVE  AccessInvariant'
<1>1. ASSUME AccessNext PROVE AccessInvariant'
  BY <1>1, StartSignInKeeps, FailKeeps, SucceedKeeps, OpenSessionKeeps, StartChangeKeeps,
     ChangePasswordKeeps, SignOutEverywhereKeeps, UseSessionKeeps, RevokeKeeps, SetUserStatusKeeps,
     ResetUserPasswordKeeps, UnlockUserKeeps, TickKeeps, HostRestartKeeps DEF AccessNext
<1>2. CASE UNCHANGED accessVars
  BY <1>2 DEF accessVars, AccessInvariant, AccessTypeOK, AccessShape, RequestsAreCurrent,
     DevicesAreCurrent, FailuresReadTheCounter, CountsFailuresInARow, Busy
<1> QED BY <1>1, <1>2

\* For any requests, devices and limits: once no change is being written, whoever is
\* signed in knows the present password of an active account, unless the sign-in ran
\* across a change; a locked account has failed that often, and until sign-ins overlap
\* the counter is the number of failures in a row (auth.service.ts, sessions.ts).
THEOREM AccessIsCurrentHolds == AccessSpec => []AccessIsCurrent
<1> USE AccessAssumption
<1>1. AccessInit => AccessInvariant
  BY AccessInitHolds
<1>2. AccessInvariant /\ [AccessNext]_accessVars => AccessInvariant'
  BY AccessStepHolds
<1>3. AccessInvariant => AccessIsCurrent
  BY DEF AccessInvariant, AccessIsCurrent
<1> QED BY <1>1, <1>2, <1>3, PTL DEF AccessSpec

==============================================================================
