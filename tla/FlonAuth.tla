------------------------------ MODULE FlonAuth ------------------------------
(***************************************************************************)
(* flon.auth: who may do what on the platform.  Three tables, each with    *)
(* its own id counter: the roles, the roles users hold, the permissions    *)
(* roles carry.  The 64-bit hash prefix that keys a permission is the      *)
(* permission itself here.                                                 *)
(***************************************************************************)
EXTENDS EosTable, FiniteSets, Functions

CONSTANTS
  Users,        \* the accounts that sign or are named
  Trustees,     \* the accounts that init, setadmin and addallowlist name
  AUTH,         \* the account flon.auth is deployed to
  Roles,        \* role names
  Perms,        \* permission strings
  RoleManage,   \* "roleManage": may edit roles and their permissions
  UserManage,   \* "userManage": may grant and revoke roles
  MaxId,        \* bound: the rows a table may ever be given
  NoUser        \* the empty account name

ASSUME AuthAssumption ==
  /\ AUTH \in Users /\ NoUser \notin Users /\ Trustees \subseteq Users
  /\ {RoleManage, UserManage} \subseteq Perms
  /\ IsFiniteSet(Perms)
  /\ MaxId \in Nat

VARIABLES
  admin,             \* NoUser until init
  allowlist,         \* accounts every change is allowed to
  roles,             \* id -> role name
  userroles,         \* id -> [user, role]
  roleperms,         \* id -> [role, perm]
  last_role_id,
  last_userrole_id,
  last_roleperm_id,
  change             \* history: who made the last table change, by which right

global == <<admin, allowlist>>
roleTbl == <<roles, last_role_id>>
userTbl == <<userroles, last_userrole_id>>
permTbl == <<roleperms, last_roleperm_id>>
authVars == <<global, roleTbl, userTbl, permTbl, change>>

Grant == [user : Users, role : Roles]
RolePerm == [role : Roles, perm : Perms]

\* Every row is well formed and was numbered by its table's counter.
AuthTypeOK ==
  /\ admin \in Users \cup {NoUser} /\ allowlist \subseteq Users
  /\ {last_role_id, last_userrole_id, last_roleperm_id} \subseteq Nat
  /\ DOMAIN roles \subseteq 1..last_role_id
  /\ DOMAIN userroles \subseteq 1..last_userrole_id
  /\ DOMAIN roleperms \subseteq 1..last_roleperm_id
  /\ roles \in [DOMAIN roles -> Roles]
  /\ userroles \in [DOMAIN userroles -> Grant]
  /\ roleperms \in [DOMAIN roleperms -> RolePerm]
  /\ change \in Users \cup {NoUser}

AuthInit ==
  /\ admin = NoUser /\ allowlist = {}
  /\ roles = EmptyTable /\ userroles = EmptyTable /\ roleperms = EmptyTable
  /\ last_role_id = 0 /\ last_userrole_id = 0 /\ last_roleperm_id = 0
  /\ change = NoUser

-----------------------------------------------------------------------------
(***************************************************************************)
(* Look-ups.                                                               *)
(***************************************************************************)

RoleExists(role) == \E i \in DOMAIN roles : roles[i] = role

\* The rows that give the role to the user; mutant: none is ever found.
NoRows(user, role) == {}
GrantRows(user, role) ==
  {i \in DOMAIN userroles : userroles[i] = [user |-> user, role |-> role]}
HasUserRole(user, role) == GrantRows(user, role) # {}

PermRows(role, perms) ==
  {i \in DOMAIN roleperms : roleperms[i].role = role /\ roleperms[i].perm \in perms}

\* checkrole: some role of the user carries the permission.
CheckRole(user, perm) ==
  \E i \in DOMAIN userroles :
     userroles[i].user = user /\ PermRows(userroles[i].role, {perm}) # {}

\* The accounts that need no role.
Trusted(user) == user \in {AUTH, admin} \cup allowlist

(***************************************************************************)
(* require_manage_perm of a change.  A submitter that is not trusted is    *)
(* checked by an inline action: it runs when the tables already show the   *)
(* change, and undoes the transaction if it fails.  Mutant: the tables are *)
(* looked up before the change.                                            *)
(***************************************************************************)
CheckedFirst(signer, submitter, perm) ==
  \/ signer = AUTH
  \/ signer = submitter /\ (Trusted(submitter) \/ CheckRole(submitter, perm))
RequireManagePerm(signer, submitter, perm) ==
  \/ signer = AUTH
  \/ signer = submitter /\ (Trusted(submitter) \/ CheckRole(submitter, perm)')

\* Every change of the tables is signed and recorded.
By(signer) == change' = signer

\* The number the next row gets; mutant: the counter is not advanced.
SameId(last) == last
NextId(last) == last + 1

-----------------------------------------------------------------------------
(***************************************************************************)
(* Trusted accounts.                                                       *)
(***************************************************************************)

\* init may be called again; it is signed by flon.auth and checks no account.
Init(new_admin) ==
  /\ admin' = new_admin
  /\ UNCHANGED <<allowlist, roleTbl, userTbl, permTbl, change>>

SetAdmin(signer, new_admin) ==
  /\ signer = admin
  /\ admin' = new_admin
  /\ UNCHANGED <<allowlist, roleTbl, userTbl, permTbl, change>>

AddAllowlist(signer, acct) ==
  /\ signer = admin
  /\ allowlist' = allowlist \cup {acct}
  /\ UNCHANGED <<admin, roleTbl, userTbl, permTbl, change>>

DelAllowlist(signer, acct) ==
  /\ signer = admin
  /\ acct \in allowlist
  /\ allowlist' = allowlist \ {acct}
  /\ UNCHANGED <<admin, roleTbl, userTbl, permTbl, change>>

-----------------------------------------------------------------------------
(***************************************************************************)
(* Roles and their permissions.                                            *)
(***************************************************************************)

\* A role that exists only gets its description and date rewritten.
AddRole(signer, submitter, role) ==
  /\ IF RoleExists(role)
       THEN UNCHANGED roleTbl
       ELSE /\ last_role_id < MaxId
            /\ last_role_id' = NextId(last_role_id)
            /\ roles' = Put(roles, NextId(last_role_id), role)
  /\ By(signer)
  /\ UNCHANGED <<global, userTbl, permTbl>>
  /\ RequireManagePerm(signer, submitter, RoleManage)

\* The permissions that go with the role; mutant: they stay.
LeftBehind(role) == {}
CarriedBy(role) == PermRows(role, Perms)

\* A role nobody has created is deleted silently.
DelRole(signer, submitter, role) ==
  /\ IF RoleExists(role)
       THEN /\ \A i \in DOMAIN userroles : userroles[i].role # role
            /\ \E i \in DOMAIN roles : roles[i] = role /\ roles' = Drop(roles, i)
            /\ roleperms' = Restrict(roleperms, DOMAIN roleperms \ CarriedBy(role))
       ELSE UNCHANGED <<roles, roleperms>>
  /\ By(signer)
  /\ UNCHANGED <<global, last_role_id, userTbl, last_roleperm_id>>
  /\ RequireManagePerm(signer, submitter, RoleManage)

\* Numbered in the order of the set: some order of its members.
AddRolePerm(signer, submitter, role, perms) ==
  LET ids == last_roleperm_id + 1 .. last_roleperm_id + Cardinality(perms)
  IN
  /\ perms # {}
  /\ RoleExists(role)
  /\ PermRows(role, perms) = {}
  /\ last_roleperm_id + Cardinality(perms) <= MaxId
  /\ \E order \in [ids -> perms] :
       /\ \A i, j \in ids : order[i] = order[j] => i = j
       /\ roleperms' =
            PutAll(roleperms, [i \in ids |-> [role |-> role, perm |-> order[i]]])
  /\ last_roleperm_id' = last_roleperm_id + Cardinality(perms)
  /\ By(signer)
  /\ UNCHANGED <<global, roleTbl, userTbl>>
  /\ RequireManagePerm(signer, submitter, RoleManage)

\* A permission the role does not carry is skipped.
DelRolePerm(signer, submitter, role, perms) ==
  /\ perms # {}
  /\ roleperms' = Restrict(roleperms, DOMAIN roleperms \ PermRows(role, perms))
  /\ By(signer)
  /\ UNCHANGED <<global, roleTbl, userTbl, last_roleperm_id>>
  /\ RequireManagePerm(signer, submitter, RoleManage)

-----------------------------------------------------------------------------
(***************************************************************************)
(* Holders of roles.                                                       *)
(***************************************************************************)

GrantRole(signer, granter, user, role) ==
  /\ RoleExists(role)
  /\ IF HasUserRole(user, role)
       THEN UNCHANGED userTbl
       ELSE /\ last_userrole_id < MaxId
            /\ last_userrole_id' = NextId(last_userrole_id)
            /\ userroles' = Put(userroles, NextId(last_userrole_id),
                                [user |-> user, role |-> role])
  /\ By(signer)
  /\ UNCHANGED <<global, roleTbl, permTbl>>
  /\ RequireManagePerm(signer, granter, UserManage)

\* The first row the index finds is erased.
RevokeRole(signer, granter, user, role) ==
  /\ \E i \in GrantRows(user, role) : userroles' = Drop(userroles, i)
  /\ By(signer)
  /\ UNCHANGED <<global, roleTbl, last_userrole_id, permTbl>>
  /\ RequireManagePerm(signer, granter, UserManage)

-----------------------------------------------------------------------------
Configure ==
  \/ \E a \in Trustees : Init(a)
  \/ \E s \in Users, a \in Trustees : SetAdmin(s, a) \/ AddAllowlist(s, a) \/ DelAllowlist(s, a)

ManageRoles ==
  \E s, m \in Users, r \in Roles :
    \/ AddRole(s, m, r)
    \/ DelRole(s, m, r)
    \/ \E ps \in SUBSET Perms : AddRolePerm(s, m, r, ps) \/ DelRolePerm(s, m, r, ps)

ManageUsers ==
  \E s, m, u \in Users, r \in Roles : GrantRole(s, m, u, r) \/ RevokeRole(s, m, u, r)

AuthNext == Configure \/ ManageRoles \/ ManageUsers

AuthSpec == AuthInit /\ [][AuthNext]_authVars

-----------------------------------------------------------------------------
(***************************************************************************)
(* Properties.                                                             *)
(***************************************************************************)

\* No grant and no permission names a role that does not exist, so a role
\* created later under an old name starts with no holder and no permission
\* (delrole keeps three tables consistent; none of the others looks).
NoDanglingGrants ==
  /\ \A i \in DOMAIN userroles : RoleExists(userroles[i].role)
  /\ \A i \in DOMAIN roleperms : RoleExists(roleperms[i].role)

\* A role, a grant and a permission have one row each: erasing the row that
\* the index finds takes the whole right away (revokerole, delroleperm).
OneRowPerRight ==
  /\ IsInjective(roles) /\ IsInjective(userroles) /\ IsInjective(roleperms)

Managers == {u \in Users : \E p \in {RoleManage, UserManage} : CheckRole(u, p)}

\* Role holders cannot leave the platform without any manager: only a trusted
\* account can remove the last one (the inline checkrole of a change sees the
\* tables the change leaves).
ManagersRemain ==
  [][Managers # {} /\ Managers' = {} => Trusted(change')]_authVars
=============================================================================
