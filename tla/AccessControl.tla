----------------------------- MODULE AccessControl -----------------------------
(***************************************************************************)
(* `AccessControl` with `AccessControlEnumerable`                          *)
(* (contracts/src/access/control) as examples/access-control composes      *)
(* them: the public calls check the caller and go through the extension,   *)
(* which keeps a set of members for each role beside the roles themselves. *)
(***************************************************************************)
EXTENDS Integers, Sequences

CONSTANTS
  Accounts,            \* who may call or be granted a role
  Roles,               \* the role identifiers
  DEFAULT_ADMIN_ROLE,  \* the admin of a role that was given no other
  Admin                \* the account the constructor makes an admin

ASSUME AccessControlAssumption ==
  DEFAULT_ADMIN_ROLE \in Roles /\ Admin \in Accounts

VARIABLES
  has_role,     \* [role][account], of roles
  admin_role,   \* [role], of roles
  role_members  \* [role] an EnumerableSet

vars == <<has_role, admin_role, role_members>>

Set == INSTANCE Structs
         WITH SetElements <- Accounts,
              Indices <- {}, W <- 1,                          \* not used
              MaxKey <- 0, Values <- {FALSE}, ZeroValue <- FALSE  \* not used

(* The constructor of the example grants the admin its role.                *)
Init ==
  /\ has_role = [r \in Roles |-> [a \in Accounts |->
                   r = DEFAULT_ADMIN_ROLE /\ a = Admin]]
  /\ admin_role = [r \in Roles |-> DEFAULT_ADMIN_ROLE]
  /\ role_members = [r \in Roles |->
                       IF r = DEFAULT_ADMIN_ROLE
                         THEN Set!Add(Set!EmptyStore, Admin)
                         ELSE Set!EmptyStore]

-----------------------------------------------------------------------------
(* `only_role(get_role_admin(role))`                                        *)
IsAdminOf(caller, role) == has_role[admin_role[role]][caller]

(* The component's `_grant_role` and `_revoke_role`; each tells its caller   *)
(* whether the role has changed.                                            *)
SetRole(role, account, held) ==
  has_role' = [has_role EXCEPT ![role][account] = held]

(* The extension's `_grant_role` and `_revoke_role`: the set of members is  *)
(* touched only when the role was.                                          *)
Grant(role, account) ==
  /\ SetRole(role, account, TRUE)
  /\ role_members' = IF has_role[role][account]
                       THEN role_members
                       ELSE [role_members EXCEPT ![role] = Set!Add(@, account)]
  /\ UNCHANGED admin_role

Revoke(role, account) ==
  /\ SetRole(role, account, FALSE)
  /\ role_members' = IF has_role[role][account]
                       THEN [role_members EXCEPT ![role] = Set!Remove(@, account)]
                       ELSE role_members
  /\ UNCHANGED admin_role

(* IAccessControl                                                           *)
GrantRoleBySuperAdmin(caller, role, account) ==  \* mutant: the default admin may
  /\ IsAdminOf(caller, role) \/ has_role[DEFAULT_ADMIN_ROLE][caller]
  /\ Grant(role, account)

GrantRole(caller, role, account) ==
  /\ IsAdminOf(caller, role)
  /\ Grant(role, account)

RevokeRole(caller, role, account) ==
  /\ IsAdminOf(caller, role)
  /\ Revoke(role, account)

RenounceRole(caller, role, confirmation) ==
  /\ caller = confirmation
  /\ Revoke(role, confirmation)

(* `_set_role_admin`, called by the embedding contract                      *)
SetRoleAdmin(role, new_admin_role) ==
  /\ admin_role' = [admin_role EXCEPT ![role] = new_admin_role]
  /\ UNCHANGED <<has_role, role_members>>

PublicCall(caller) ==
  \E role \in Roles, account \in Accounts :
    \/ GrantRole(caller, role, account)
    \/ RevokeRole(caller, role, account)
    \/ RenounceRole(caller, role, account)

Next ==
  \/ \E caller \in Accounts : PublicCall(caller)
  \/ \E role, new_admin_role \in Roles : SetRoleAdmin(role, new_admin_role)

Spec == Init /\ [][Next]_vars

-----------------------------------------------------------------------------
TypeOK ==
  /\ has_role \in [Roles -> [Accounts -> BOOLEAN]]
  /\ admin_role \in [Roles -> Roles]
  /\ role_members \in [Roles -> Set!Stores]

Holders(role) == {a \in Accounts : has_role[role][a]}

(* The extension enumerates exactly the accounts that have the role, each   *)
(* once, although it is a second record of the same fact; and a caller that *)
(* reads the members slice by slice gets each of them once, also with       *)
(* bounds past the end.                                                     *)
MembersAreHolders ==
  /\ TypeOK
  /\ \A role \in Roles :
       LET set == role_members[role]
       IN  /\ Set!IsCoherent(set)
           /\ Set!SlicesMeet(set)
           /\ {set.values[i] : i \in DOMAIN set.values} = Holders(role)

(* A set of roles that is its own administration and that nobody holds, for *)
(* instance the default admin role once its last holder has renounced it,   *)
(* is dead: no call of anybody brings a holder back, whatever other roles   *)
(* the accounts have.  Only the contract's own code can, by                 *)
(* `_set_role_admin`.                                                       *)
IsDead(roles) ==
  \A role \in roles : admin_role[role] \in roles /\ Holders(role) = {}

(* No public call revives a set of roles that is dead.                      *)
DeadRolesStayDead ==
  [][ (\E caller \in Accounts : PublicCall(caller)) =>
        \A roles \in SUBSET Roles : IsDead(roles) => IsDead(roles)' ]_vars
=============================================================================
