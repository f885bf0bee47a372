--------------------------- MODULE FlonAuthProofs ----------------------------
(***************************************************************************)
(* Proofs about flon.auth, for every set of accounts, roles and            *)
(* permissions and any number of rows: the three tables stay well formed,  *)
(* refer only to roles that exist, and hold every right once.              *)
(*                                                                         *)
(* The three invariants lean on one another.  A new row gets a key nobody  *)
(* has only because the counters bound the keys; deleting a role leaves    *)
(* nothing dangling because its permissions go with it and a held role is  *)
(* refused.  The right to make a change (RequireManagePerm) is not needed: *)
(* no change breaks the tables, whoever is allowed to make it.  It is      *)
(* needed for the managers, and so is its order: looked up after the       *)
(* change.  The register of artists (artist.cisum) comes last, another     *)
(* contract that asks who signs.                                           *)
(***************************************************************************)
EXTENDS MCRights, TLAPS, FunctionTheorems, FiniteSetTheorems

\* A table whose rows have keys 1..last and are in Row, no row twice.
Numbered(table, last, Row) ==
  /\ last \in Nat
  /\ DOMAIN table \subseteq 1..last
  /\ table \in [DOMAIN table -> Row]
  /\ \A i, j \in DOMAIN table : table[i] = table[j] => i = j

-----------------------------------------------------------------------------
(***************************************************************************)
(* Tables.                                                                 *)
(***************************************************************************)

\* One more row, not in the table yet, under the next number.
LEMMA NumberedPut ==
  ASSUME NEW table, NEW last, NEW Row, NEW row \in Row, Numbered(table, last, Row),
         \A i \in DOMAIN table : table[i] # row
  PROVE  /\ Numbered(Put(table, last + 1, row), last + 1, Row)
         /\ DOMAIN Put(table, last + 1, row) = DOMAIN table \cup {last + 1}
         /\ \A i \in DOMAIN table : Put(table, last + 1, row)[i] = table[i]
         /\ Put(table, last + 1, row)[last + 1] = row
<1> DEFINE new == Put(table, last + 1, row)
<1>1. last \in Nat /\ DOMAIN table \subseteq 1..last /\ last + 1 \notin DOMAIN table
  BY DEF Numbered
<1>2. /\ DOMAIN new = DOMAIN table \cup {last + 1}
      /\ new = [k \in DOMAIN table \cup {last + 1} |-> IF k = last + 1 THEN row ELSE table[k]]
  BY DEF Put
<1>3. /\ \A i \in DOMAIN table : new[i] = table[i]
      /\ new[last + 1] = row
  BY <1>1, <1>2
<1>4. \A i, j \in DOMAIN new : new[i] = new[j] => i = j
  BY <1>2, <1>3 DEF Numbered
<1>5. new \in [DOMAIN new -> Row]
  BY <1>2, <1>3 DEF Numbered
<1>6. DOMAIN new \subseteq 1..(last + 1) /\ last + 1 \in Nat
  BY <1>1, <1>2
<1> QED
  BY <1>2, <1>3, <1>4, <1>5, <1>6 DEF Numbered

\* Fewer rows: what Drop and Restrict leave.
LEMMA NumberedPart ==
  ASSUME NEW table, NEW last, NEW Row, NEW keys, Numbered(table, last, Row),
         keys \subseteq DOMAIN table
  PROVE  Numbered([k \in keys |-> table[k]], last, Row)
BY DEF Numbered

-----------------------------------------------------------------------------
(***************************************************************************)
(* The inductive invariant.                                                *)
(***************************************************************************)

AccountsOK ==
  /\ admin \in Users \cup {NoUser} /\ allowlist \subseteq Users
  /\ change \in Users \cup {NoUser}

RolesOK == Numbered(roles, last_role_id, Roles)
GrantsOK == Numbered(userroles, last_userrole_id, Grant)
PermsOK == Numbered(roleperms, last_roleperm_id, RolePerm)

AuthInv == AccountsOK /\ RolesOK /\ GrantsOK /\ PermsOK /\ NoDanglingGrants

-----------------------------------------------------------------------------
(***************************************************************************)
(* The steps.                                                              *)
(***************************************************************************)

\* addrole gives a new role a number of its own, or changes no table.
LEMMA AddRoleStep ==
  ASSUME AuthInv, NEW s \in Users, NEW m \in Users, NEW r \in Roles, AddRole(s, m, r)
  PROVE  AuthInv'
<1>1. AccountsOK'
  BY DEF AuthInv, AccountsOK, AddRole, By, global
<1>2. GrantsOK' /\ PermsOK'
  BY DEF AuthInv, GrantsOK, PermsOK, AddRole, userTbl, permTbl
<1>3. RolesOK' /\ \A i \in DOMAIN roles : i \in DOMAIN roles' /\ roles'[i] = roles[i]
  <2>1. CASE RoleExists(r)
    BY <2>1 DEF AuthInv, RolesOK, AddRole, roleTbl
  <2>2. CASE ~ RoleExists(r)
    <3>1. roles' = Put(roles, last_role_id + 1, r) /\ last_role_id' = last_role_id + 1
      BY <2>2 DEF AddRole, NextId
    <3>2. \A i \in DOMAIN roles : roles[i] # r
      BY <2>2 DEF RoleExists
    <3>3. Numbered(roles, last_role_id, Roles)
      BY DEF AuthInv, RolesOK
    <3>4. /\ Numbered(Put(roles, last_role_id + 1, r), last_role_id + 1, Roles)
          /\ DOMAIN Put(roles, last_role_id + 1, r) = DOMAIN roles \cup {last_role_id + 1}
          /\ \A i \in DOMAIN roles : Put(roles, last_role_id + 1, r)[i] = roles[i]
      BY <3>2, <3>3, NumberedPut
    <3> QED
      BY <3>1, <3>4 DEF RolesOK
  <2> QED
    BY <2>1, <2>2
<1>4. NoDanglingGrants'
  BY <1>3 DEF AuthInv, NoDanglingGrants, RoleExists, AddRole, userTbl, permTbl
<1> QED
  BY <1>1, <1>2, <1>3, <1>4 DEF AuthInv

\* delrole takes the permissions of the role along; nobody holds it.
LEMMA DelRoleStep ==
  ASSUME AuthInv, NEW s \in Users, NEW m \in Users, NEW r \in Roles, DelRole(s, m, r)
  PROVE  AuthInv'
<1>1. AccountsOK'
  BY DEF AuthInv, AccountsOK, DelRole, By, global
<1>2. GrantsOK'
  BY DEF AuthInv, GrantsOK, DelRole, userTbl
<1>3. CASE ~ RoleExists(r)
  BY <1>1, <1>2, <1>3 DEF AuthInv, DelRole, RolesOK, PermsOK, NoDanglingGrants, RoleExists, userTbl
<1>4. CASE RoleExists(r)
  <2>1. PICK i \in DOMAIN roles : roles[i] = r /\ roles' = Drop(roles, i)
    BY <1>4 DEF DelRole
  <2>2. roles' = [k \in DOMAIN roles \ {i} |-> roles[k]] /\ last_role_id' = last_role_id
    BY <2>1 DEF Drop, DelRole
  <2>3. RolesOK'
    BY <2>2, NumberedPart DEF AuthInv, RolesOK
  <2> DEFINE kept == DOMAIN roleperms \ CarriedBy(r)
  <2>4. roleperms' = [k \in kept |-> roleperms[k]] /\ last_roleperm_id' = last_roleperm_id
    BY <1>4 DEF DelRole, Restrict
  <2>5. PermsOK'
    BY <2>4, NumberedPart DEF AuthInv, PermsOK
  <2>6. \A j \in DOMAIN roles : roles[j] # r => j \in DOMAIN roles' /\ roles'[j] = roles[j]
    BY <2>1, <2>2
  <2>7. \A k \in DOMAIN userroles : RoleExists(userroles[k].role)'
    <3>1. \A k \in DOMAIN userroles : userroles[k].role # r /\ RoleExists(userroles[k].role)
      BY <1>4 DEF AuthInv, NoDanglingGrants, DelRole
    <3>2. userroles' = userroles
      BY DEF DelRole, userTbl
    <3> QED
      BY <2>6, <3>1, <3>2 DEF RoleExists
  <2>8. \A k \in kept : roleperms[k].role # r /\ RoleExists(roleperms[k].role)
    <3>1. roleperms \in [DOMAIN roleperms -> RolePerm]
      BY DEF AuthInv, PermsOK, Numbered
    <3> QED
      BY <3>1 DEF AuthInv, NoDanglingGrants, CarriedBy, PermRows, RolePerm
  <2>9. \A k \in DOMAIN roleperms' : RoleExists(roleperms[k].role)' /\ roleperms'[k] = roleperms[k]
    BY <2>4, <2>6, <2>8 DEF RoleExists
  <2>10. NoDanglingGrants'
    <3>1. userroles' = userroles
      BY DEF DelRole, userTbl
    <3> QED
      BY <2>7, <2>9, <3>1 DEF NoDanglingGrants, RoleExists
  <2> QED
    BY <1>1, <1>2, <2>3, <2>5, <2>10 DEF AuthInv
<1> QED
  BY <1>3, <1>4

\* addroleperm numbers as many rows as it is given permissions.
LEMMA AddRolePermStep ==
  ASSUME AuthInv, NEW s \in Users, NEW m \in Users, NEW r \in Roles, NEW ps \in SUBSET Perms,
         AddRolePerm(s, m, r, ps)
  PROVE  AuthInv'
<1> DEFINE n == Cardinality(ps)
           ids == last_roleperm_id + 1 .. last_roleperm_id + n
<1>1. AccountsOK' /\ RolesOK' /\ GrantsOK'
  BY DEF AuthInv, AccountsOK, RolesOK, GrantsOK, AddRolePerm, By, global, roleTbl, userTbl
<1>2. n \in Nat
  BY AuthAssumption, FS_Subset, FS_CardinalityType
<1>3. PICK order \in [ids -> ps] :
        /\ \A i, j \in ids : order[i] = order[j] => i = j
        /\ roleperms' = PutAll(roleperms, [i \in ids |-> [role |-> r, perm |-> order[i]]])
  BY DEF AddRolePerm
<1> DEFINE rows == [i \in ids |-> [role |-> r, perm |-> order[i]]]
<1>4. Numbered(roleperms, last_roleperm_id, RolePerm)
  BY DEF AuthInv, PermsOK
<1>5. rows \in [ids -> RolePerm]
  BY <1>3 DEF RolePerm
<1>6. \A i, j \in DOMAIN rows : rows[i] = rows[j] => i = j
  BY <1>3
<1>7. \A i \in DOMAIN roleperms, j \in DOMAIN rows : roleperms[i] # rows[j]
  <2>1. PermRows(r, ps) = {}
    BY DEF AddRolePerm
  <2>2. \A j \in DOMAIN rows : rows[j].role = r /\ rows[j].perm \in ps
    BY <1>3
  <2> QED
    BY <2>1, <2>2 DEF PermRows
<1>8. /\ Numbered(PutAll(roleperms, rows), last_roleperm_id + n, RolePerm)
      /\ DOMAIN PutAll(roleperms, rows) = DOMAIN roleperms \cup DOMAIN rows
      /\ \A i \in DOMAIN roleperms : PutAll(roleperms, rows)[i] = roleperms[i]
      /\ \A i \in DOMAIN rows : PutAll(roleperms, rows)[i] = rows[i]
  <2>1. last_roleperm_id \in Nat
    BY <1>4 DEF Numbered
  <2> DEFINE new == PutAll(roleperms, rows)
  <2>2. \A i \in DOMAIN rows : i \notin DOMAIN roleperms
    BY <1>2, <1>4, <2>1 DEF Numbered
  <2>3. \A i \in DOMAIN rows : rows[i] \in RolePerm
    BY <1>5
  <2>4. DOMAIN rows \subseteq 1..(last_roleperm_id + n) /\ last_roleperm_id + n \in Nat
    BY <1>2, <2>1
  <2>5. DOMAIN roleperms \subseteq 1..(last_roleperm_id + n)
    BY <1>2, <1>4, <2>1 DEF Numbered
  <2> HIDE DEF rows, n
  <2>6. /\ DOMAIN new = DOMAIN roleperms \cup DOMAIN rows
        /\ \A i \in DOMAIN roleperms : new[i] = roleperms[i]
        /\ \A i \in DOMAIN rows : new[i] = rows[i]
    BY <2>2 DEF PutAll
  <2>7. \A i, j \in DOMAIN new : new[i] = new[j] => i = j
    BY <1>4, <1>6, <1>7, <2>6 DEF Numbered
  <2>8. new \in [DOMAIN new -> RolePerm]
    BY <1>4, <2>3, <2>6 DEF Numbered, PutAll
  <2> QED
    BY <2>4, <2>5, <2>6, <2>7, <2>8 DEF Numbered
<1>9. last_roleperm_id' = last_roleperm_id + n
  BY DEF AddRolePerm
<1>10. PermsOK'
  BY <1>3, <1>8, <1>9 DEF PermsOK
<1>11. NoDanglingGrants'
  <2>1. RoleExists(r) /\ roles' = roles /\ userroles' = userroles
    BY DEF AddRolePerm, roleTbl, userTbl
  <2>2. \A i \in DOMAIN roleperms' : RoleExists(roleperms'[i].role)
    BY <1>3, <1>8, <2>1 DEF AuthInv, NoDanglingGrants
  <2> QED
    BY <2>1, <2>2 DEF AuthInv, NoDanglingGrants, RoleExists
<1> QED
  BY <1>1, <1>10, <1>11 DEF AuthInv

\* delroleperm only takes permissions away.
LEMMA DelRolePermStep ==
  ASSUME AuthInv, NEW s \in Users, NEW m \in Users, NEW r \in Roles, NEW ps \in SUBSET Perms,
         DelRolePerm(s, m, r, ps)
  PROVE  AuthInv'
<1>1. AccountsOK' /\ RolesOK' /\ GrantsOK'
  BY DEF AuthInv, AccountsOK, RolesOK, GrantsOK, DelRolePerm, By, global, roleTbl, userTbl
<1> DEFINE kept == DOMAIN roleperms \ PermRows(r, ps)
<1>2. roleperms' = [k \in kept |-> roleperms[k]] /\ last_roleperm_id' = last_roleperm_id
  BY DEF DelRolePerm, Restrict
<1>3. PermsOK'
  BY <1>2, NumberedPart DEF AuthInv, PermsOK
<1>4. roles' = roles /\ userroles' = userroles
  BY DEF DelRolePerm, roleTbl, userTbl
<1>5. NoDanglingGrants'
  BY <1>2, <1>4 DEF AuthInv, NoDanglingGrants, RoleExists
<1> QED
  BY <1>1, <1>3, <1>5 DEF AuthInv

\* grantrole names a role that exists.
LEMMA GrantRoleStep ==
  ASSUME AuthInv, NEW s \in Users, NEW m \in Users, NEW u \in Users, NEW r \in Roles,
         GrantRole(s, m, u, r)
  PROVE  AuthInv'
<1>1. AccountsOK' /\ RolesOK' /\ PermsOK'
  BY DEF AuthInv, AccountsOK, RolesOK, PermsOK, GrantRole, By, global, roleTbl, permTbl
<1>2. RoleExists(r) /\ roles' = roles /\ roleperms' = roleperms
  BY DEF GrantRole, roleTbl, permTbl
<1>3. CASE HasUserRole(u, r)
  <2>1. userroles' = userroles /\ last_userrole_id' = last_userrole_id
    BY <1>3 DEF GrantRole, userTbl
  <2> QED
    BY <1>1, <1>2, <2>1 DEF AuthInv, GrantsOK, NoDanglingGrants, RoleExists
<1>4. CASE ~ HasUserRole(u, r)
  <2> DEFINE row == [user |-> u, role |-> r]
             new == Put(userroles, last_userrole_id + 1, row)
  <2>1. userroles' = new /\ last_userrole_id' = last_userrole_id + 1
    BY <1>4 DEF GrantRole, NextId
  <2>2. \A i \in DOMAIN userroles : userroles[i] # row
    BY <1>4 DEF HasUserRole, GrantRows
  <2>3. row \in Grant /\ row.role = r
    BY DEF Grant
  <2>4. Numbered(userroles, last_userrole_id, Grant)
    BY DEF AuthInv, GrantsOK
  <2>5. /\ Numbered(new, last_userrole_id + 1, Grant)
        /\ DOMAIN new = DOMAIN userroles \cup {last_userrole_id + 1}
        /\ \A i \in DOMAIN userroles : new[i] = userroles[i]
        /\ new[last_userrole_id + 1] = row
    <3> HIDE DEF row
    <3> QED
      BY <2>2, <2>3, <2>4, NumberedPut
  <2>6. GrantsOK'
    BY <2>1, <2>5 DEF GrantsOK
  <2>7. \A i \in DOMAIN userroles' : RoleExists(userroles'[i].role)
    BY <1>2, <2>1, <2>3, <2>5 DEF AuthInv, NoDanglingGrants
  <2>8. NoDanglingGrants'
    BY <1>2, <2>7 DEF AuthInv, NoDanglingGrants, RoleExists
  <2> QED
    BY <1>1, <2>6, <2>8 DEF AuthInv
<1> QED
  BY <1>3, <1>4

\* revokerole only takes a grant away.
LEMMA RevokeRoleStep ==
  ASSUME AuthInv, NEW s \in Users, NEW m \in Users, NEW u \in Users, NEW r \in Roles,
         RevokeRole(s, m, u, r)
  PROVE  AuthInv'
<1>1. AccountsOK' /\ RolesOK' /\ PermsOK'
  BY DEF AuthInv, AccountsOK, RolesOK, PermsOK, RevokeRole, By, global, roleTbl, permTbl
<1>2. PICK i \in DOMAIN userroles : userroles' = Drop(userroles, i)
  BY DEF RevokeRole, GrantRows
<1>3. /\ userroles' = [k \in DOMAIN userroles \ {i} |-> userroles[k]]
      /\ last_userrole_id' = last_userrole_id
  BY <1>2 DEF Drop, RevokeRole
<1>4. GrantsOK'
  BY <1>3, NumberedPart DEF AuthInv, GrantsOK
<1>5. roles' = roles /\ roleperms' = roleperms
  BY DEF RevokeRole, roleTbl, permTbl
<1>6. NoDanglingGrants'
  BY <1>3, <1>5 DEF AuthInv, NoDanglingGrants, RoleExists
<1> QED
  BY <1>1, <1>4, <1>6 DEF AuthInv

\* init, setadmin and the allowlist touch no table.
LEMMA ConfigureStep ==
  ASSUME AuthInv, Configure
  PROVE  AuthInv'
<1>1. UNCHANGED <<roleTbl, userTbl, permTbl>>
  BY DEF Configure, Init, SetAdmin, AddAllowlist, DelAllowlist
<1>2. AccountsOK'
  BY AuthAssumption DEF AuthInv, AccountsOK, Configure, Init, SetAdmin, AddAllowlist, DelAllowlist
<1> QED
  BY <1>1, <1>2 DEF AuthInv, RolesOK, GrantsOK, PermsOK, NoDanglingGrants, RoleExists,
                    roleTbl, userTbl, permTbl

-----------------------------------------------------------------------------
(***************************************************************************)
(* The theorems.                                                           *)
(***************************************************************************)

LEMMA AuthInitially == AuthInit => AuthInv
BY DEF AuthInit, AuthInv, AccountsOK, RolesOK, GrantsOK, PermsOK, Numbered, NoDanglingGrants,
       EmptyTable

LEMMA AuthPreserved == AuthInv /\ [AuthNext]_authVars => AuthInv'
<1> SUFFICES ASSUME AuthInv, [AuthNext]_authVars
             PROVE  AuthInv'
  OBVIOUS
<1>1. CASE Configure
  BY <1>1, ConfigureStep
<1>2. CASE ManageRoles
  <2>1. PICK s \in Users, m \in Users, r \in Roles :
          \/ AddRole(s, m, r)
          \/ DelRole(s, m, r)
          \/ \E ps \in SUBSET Perms : AddRolePerm(s, m, r, ps) \/ DelRolePerm(s, m, r, ps)
    BY <1>2 DEF ManageRoles
  <2>2. CASE AddRole(s, m, r)
    BY <2>2, AddRoleStep
  <2>3. CASE DelRole(s, m, r)
    BY <2>3, DelRoleStep
  <2>4. CASE \E ps \in SUBSET Perms : AddRolePerm(s, m, r, ps)
    BY <2>4, AddRolePermStep
  <2>5. CASE \E ps \in SUBSET Perms : DelRolePerm(s, m, r, ps)
    BY <2>5, DelRolePermStep
  <2> QED
    BY <2>1, <2>2, <2>3, <2>4, <2>5
<1>3. CASE ManageUsers
  <2>1. PICK s \in Users, m \in Users, u \in Users, r \in Roles :
          GrantRole(s, m, u, r) \/ RevokeRole(s, m, u, r)
    BY <1>3 DEF ManageUsers
  <2> QED
    BY <2>1, GrantRoleStep, RevokeRoleStep
<1>4. CASE UNCHANGED authVars
  BY <1>4 DEF AuthInv, AccountsOK, RolesOK, GrantsOK, PermsOK, NoDanglingGrants, RoleExists,
              authVars, global, roleTbl, userTbl, permTbl
<1> QED
  BY <1>1, <1>2, <1>3, <1>4 DEF AuthNext

LEMMA AuthInvariant == AuthSpec => []AuthInv
BY AuthInitially, AuthPreserved, PTL DEF AuthSpec

\* The invariant types the tables.
LEMMA AuthInvTypes == AuthInv => AuthTypeOK
BY DEF AuthInv, AccountsOK, RolesOK, GrantsOK, PermsOK, Numbered, AuthTypeOK

\* Every row of the three tables is well formed and was numbered by the
\* counter of its table (flon.auth).
THEOREM AuthTypes == AuthSpec => []AuthTypeOK
BY AuthInvTypes, AuthInvariant, PTL

\* Deleting and re-creating roles never revives a grant or a permission
\* (delrole).
THEOREM RolesAreReal == AuthSpec => []NoDanglingGrants
<1>1. AuthInv => NoDanglingGrants
  BY DEF AuthInv
<1> QED
  BY <1>1, AuthInvariant, PTL

\* Whatever is granted twice and taken back once is gone (grantrole,
\* addroleperm, revokerole).
THEOREM RightsHeldOnce == AuthSpec => []OneRowPerRight
<1>1. AuthInv => OneRowPerRight
  BY DEF AuthInv, RolesOK, GrantsOK, PermsOK, Numbered, OneRowPerRight, IsInjective
<1> QED
  BY <1>1, AuthInvariant, PTL

\* A change that a role allowed leaves a manager: the inline checkrole sees the
\* tables the change leaves, so the submitter still has its right.
LEMMA ChangeLeavesManager ==
  ASSUME NEW signer \in Users, NEW submitter \in Users, NEW perm \in {RoleManage, UserManage},
         By(signer), RequireManagePerm(signer, submitter, perm)
  PROVE  Trusted(change') \/ Managers' # {}
<1>1. CASE signer = AUTH
  BY <1>1 DEF By, Trusted
<1>2. CASE signer = submitter /\ Trusted(submitter)
  BY <1>2 DEF By
<1>3. CASE CheckRole(submitter, perm)'
  BY <1>3 DEF Managers
<1> QED
  BY <1>1, <1>2, <1>3 DEF RequireManagePerm

\* Role holders cannot leave the platform without any manager: whoever removes
\* the last one is a trusted account (addrole, delrole, addroleperm,
\* delroleperm, grantrole, revokerole).
THEOREM SomeManagerRemains == AuthSpec => ManagersRemain
<1>1. ASSUME [AuthNext]_authVars, Managers # {}, Managers' = {}
      PROVE  Trusted(change')
  <2>1. CASE Configure \/ UNCHANGED authVars
    <3>1. userroles' = userroles /\ roleperms' = roleperms
      BY <2>1 DEF Configure, Init, SetAdmin, AddAllowlist, DelAllowlist, authVars, userTbl, permTbl
    <3>2. Managers' = Managers
      BY <3>1 DEF Managers, CheckRole, PermRows
    <3> QED
      BY <1>1, <3>2
  <2>2. CASE ManageRoles
    <3>2. ASSUME NEW s, NEW m, NEW r, AddRole(s, m, r) \/ DelRole(s, m, r)
          PROVE  By(s) /\ RequireManagePerm(s, m, RoleManage)
      BY <3>2 DEF AddRole, DelRole
    <3>3. ASSUME NEW s, NEW m, NEW r, NEW ps, AddRolePerm(s, m, r, ps) \/ DelRolePerm(s, m, r, ps)
          PROVE  By(s) /\ RequireManagePerm(s, m, RoleManage)
      BY <3>3 DEF AddRolePerm, DelRolePerm
    <3>1. PICK s \in Users, m \in Users : By(s) /\ RequireManagePerm(s, m, RoleManage)
      BY <2>2, <3>2, <3>3 DEF ManageRoles
    <3> QED
      BY <1>1, <3>1, ChangeLeavesManager
  <2>3. CASE ManageUsers
    <3>1. PICK s \in Users, m \in Users : By(s) /\ RequireManagePerm(s, m, UserManage)
      BY <2>3 DEF ManageUsers, GrantRole, RevokeRole
    <3> QED
      BY <1>1, <3>1, ChangeLeavesManager
  <2> QED
    BY <1>1, <2>1, <2>2, <2>3 DEF AuthNext
<1> QED
  BY <1>1, PTL DEF AuthSpec, ManagersRemain

-----------------------------------------------------------------------------
(***************************************************************************)
(* artist.cisum.                                                           *)
(***************************************************************************)

\* No call leaves a row of the register half written.
LEMMA ArtistTypesKept == ArtistTypeOK /\ [ArtistNext]_artistVars => ArtistTypeOK'
<1> SUFFICES ASSUME ArtistTypeOK, [ArtistNext]_artistVars PROVE ArtistTypeOK'
  OBVIOUS
<1>1. \A s \in Signers : SignedBy(s) => edit' \in [signer : Signers, staff : BOOLEAN]
  BY DEF SignedBy, IsAdmin
<1>2. ARTIST \in Signers
  BY DEF Signers
<1>3. CASE Staffing
  BY <1>1, <1>2, <1>3
  DEF Staffing, AddAuditor, DelAuditor, SetArtistAdmin, InitArtists, ArtistTypeOK
<1>4. CASE Editing
  <2>1. PICK s \in Signers, a \in People, t \in Texts, c \in Texts, l \in Levels :
          \/ UpdateArtist(s, a, t, c, l)
          \/ \E st \in Statuses :
               \/ AddArtist(s, a, t, c, st)
               \/ \E v \in BOOLEAN : SetStatus(s, a, st, v)
          \/ \E k \in {"bio", "country"} : SetMeta(s, a, k, t)
          \/ DelArtist(s, a)
    BY <1>4 DEF Editing
  <2>2. /\ SignedBy(s) /\ artist_admin' = artist_admin /\ auditors' = auditors
    BY <2>1 DEF UpdateArtist, AddArtist, SetStatus, SetMeta, DelArtist
  <2>3. DOMAIN artists' \subseteq People /\ artists' \in [DOMAIN artists' -> Artist]
    <3>1. CASE UpdateArtist(s, a, t, c, l)
      BY <3>1 DEF UpdateArtist, ArtistTypeOK, Artist
    <3>2. ASSUME NEW st \in Statuses, AddArtist(s, a, t, c, st)
          PROVE  DOMAIN artists' \subseteq People /\ artists' \in [DOMAIN artists' -> Artist]
      <4>1. NewArtist(t, c, st) \in Artist
        BY ArtistAssumption DEF ArtistAssumption, NewArtist, Artist
      <4> QED
        BY <3>2, <4>1 DEF AddArtist, Put, ArtistTypeOK
    <3>3. ASSUME NEW st \in Statuses, NEW v \in BOOLEAN, SetStatus(s, a, st, v)
          PROVE  DOMAIN artists' \subseteq People /\ artists' \in [DOMAIN artists' -> Artist]
      BY <3>3 DEF SetStatus, ArtistTypeOK, Artist
    <3>4. ASSUME NEW k \in {"bio", "country"}, SetMeta(s, a, k, t)
          PROVE  DOMAIN artists' \subseteq People /\ artists' \in [DOMAIN artists' -> Artist]
      BY <3>4 DEF SetMeta, ArtistTypeOK, Artist
    <3>5. CASE DelArtist(s, a)
      BY <3>5 DEF DelArtist, Drop, ArtistTypeOK
    <3> QED
      BY <2>1, <3>1, <3>2, <3>3, <3>4, <3>5
  <2> QED
    BY <1>1, <2>2, <2>3 DEF ArtistTypeOK
<1>5. CASE UNCHANGED artistVars
  BY <1>5 DEF artistVars, ArtistTypeOK
<1> QED
  BY <1>3, <1>4, <1>5 DEF ArtistNext

\* An empty register is well formed.
LEMMA ArtistInitially == ArtistInit => ArtistTypeOK
BY ArtistAssumption DEF ArtistInit, ArtistTypeOK, EmptyTable, Signers, ArtistAssumption

\* Every row of the register is well formed (artist.cisum).
THEOREM ArtistTypes == ArtistSpec => []ArtistTypeOK
BY ArtistInitially, ArtistTypesKept, PTL DEF ArtistSpec

\* An artist that is not staff when it signs edits no row but its own, and
\* moves nobody's standing: no row, no status and no verification (every action
\* of artist.cisum).
THEOREM ArtistsEditTheirRow == ArtistSpec => OwnRowOnly
<1>1. ASSUME ArtistTypeOK, [ArtistNext]_artistVars, ~ edit'.staff, artistVars' # artistVars
      PROVE  StandingKept /\ OthersKept
  <2>1. ASSUME NEW s, SignedBy(s)
        PROVE  edit'.signer = s /\ ~ IsStaff(s) /\ ~ IsAdmin(s) /\ s # ARTIST
    BY <1>1, <2>1 DEF SignedBy, IsStaff, IsAdmin
  <2>2. ~ Staffing
    BY <2>1 DEF Staffing, AddAuditor, DelAuditor, SetArtistAdmin, InitArtists
  <2>3. PICK s \in Signers, a \in People, t \in Texts, c \in Texts, l \in Levels :
          \/ UpdateArtist(s, a, t, c, l)
          \/ \E st \in Statuses :
               \/ AddArtist(s, a, t, c, st)
               \/ \E v \in BOOLEAN : SetStatus(s, a, st, v)
          \/ \E k \in {"bio", "country"} : SetMeta(s, a, k, t)
          \/ DelArtist(s, a)
    BY <1>1, <2>2 DEF Editing, ArtistNext
  <2>4. \/ UpdateArtist(s, a, t, c, l)
        \/ \E k \in {"bio", "country"} : SetMeta(s, a, k, t)
    BY <2>1, <2>3 DEF AddArtist, SetStatus, DelArtist, MayDelete
  <2>5. s = a /\ edit'.signer = s /\ a \in DOMAIN artists
    BY <2>1, <2>4 DEF UpdateArtist, SetMeta, MayEdit
  <2>6. /\ DOMAIN artists' = DOMAIN artists
        /\ \A x \in DOMAIN artists \ {a} : artists'[x] = artists[x]
    BY <2>4, <1>1 DEF UpdateArtist, SetMeta, ArtistTypeOK
  <2>7. artists'[a].status = artists[a].status /\ artists'[a].verified = artists[a].verified
    <3>1. artists[a] \in Artist /\ artists \in [DOMAIN artists -> Artist]
      BY <1>1, <2>5 DEF ArtistTypeOK
    <3> QED
      BY <3>1, <2>4, <2>5 DEF UpdateArtist, SetMeta, Artist
  <2> QED
    BY <2>5, <2>6, <2>7 DEF StandingKept, OthersKept, Kept
<1>2. ArtistTypeOK /\ [ArtistNext]_artistVars => [~ edit'.staff => StandingKept /\ OthersKept]_artistVars
  BY <1>1
<1> QED
  BY <1>2, ArtistTypes, PTL DEF ArtistSpec, OwnRowOnly

-----------------------------------------------------------------------------
\* With both contracts in one system, as they are model-checked, no step of one
\* breaks a table of the other.
THEOREM RightsTypes == MCSpec => []RightsTypeOK
<1>1. MCInit => AuthInv /\ ArtistTypeOK
  BY AuthInitially, ArtistInitially DEF MCInit
<1>2. AuthInv /\ ArtistTypeOK /\ [MCNext]_mcVars => AuthInv' /\ ArtistTypeOK'
  <2>1. [MCNext]_mcVars => [AuthNext]_authVars /\ [ArtistNext]_artistVars
    BY DEF MCNext, mcVars
  <2> QED
    BY <2>1, AuthPreserved, ArtistTypesKept
<1>3. AuthInv /\ ArtistTypeOK => RightsTypeOK
  BY AuthInvTypes DEF RightsTypeOK
<1> QED
  BY <1>1, <1>2, <1>3, PTL DEF MCSpec
=============================================================================
