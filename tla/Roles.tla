-------------------------------- MODULE Roles --------------------------------
(***************************************************************************)
(* Roles, the groups they are given to and the scopes they stand for       *)
(* (roles.service.ts), and the token of a user who is a member of some of  *)
(* the groups (getUserPrivileges of auth.service.ts).  Nothing here is     *)
(* done twice at once but by two requests; only the creation of the rows   *)
(* of an update is a transaction.                                          *)
(*                                                                         *)
(* A request in flight is a record whose pc names the database call it is  *)
(* about to make.  Table Scope never changes.                              *)
(***************************************************************************)
EXTENDS Naturals, FiniteSets

CONSTANTS
  Roles,      \* role ids, each handed out once
  Names,      \* names of roles, which two roles may share
  Spellings,  \* of each name those that are the same but for case, itself included
  Groups,     \* groups there are at first
  Scopes,     \* table Scope
  Requests,   \* slots for requests in flight
  None        \* no value or no row

ASSUME RolesAssumption ==
  /\ IsFiniteSet(Roles)
  /\ None \notin Roles \cup Names \cup Groups
  /\ Spellings \in [Names -> SUBSET Names]
  /\ \A n \in Names : n \in Spellings[n]

VARIABLES
  name,       \* table Role: the name of each, None without a row
  unused,     \* the ids not handed out yet
  groups,     \* table Group
  member,     \* the groups that the user is a member of
  groupRoles, \* table GroupRoles
  roleScopes, \* table RoleScopes
  req         \* requests in flight

vars == <<name, unused, groups, member, groupRoles, roleScopes, req>>
database == <<name, unused, groups, member, groupRoles, roleScopes>>

Exists(p) == name[p] # None
Named(names) == {p \in Roles : name[p] \in names}
RolesOf(g) == {p \in Roles : <<p, g>> \in groupRoles}
GroupsOf(p) == {g \in Groups : <<p, g>> \in groupRoles}
ScopesOf(p) == {s \in Scopes : <<p, s>> \in roleScopes}

\* What a token of the user is made from, and what it should say.
RolesOfUser == UNION {RolesOf(g) : g \in member}
Privileges == UNION {ScopesOf(p) : p \in RolesOfUser}

Idle == [pc |-> "idle", role |-> None, group |-> None, names |-> {},
         groups |-> {}, roles |-> {}, scopes |-> {}, stale |-> FALSE]

PCs == {"idle", "add_role", "add_find", "add_create", "rs_delete", "rs_create",
        "gr_delete", "gr_find", "gr_create", "rev_delete", "del_scopes", "del_role",
        "grp_members", "grp_roles", "grp_delete", "tok_roles", "tok_scopes", "tok_sign"}

Request == [pc : PCs, role : Roles \cup {None}, group : Groups \cup {None},
            names : SUBSET Names, groups : SUBSET Groups, roles : SUBSET Roles,
            scopes : SUBSET Scopes, stale : BOOLEAN]

TypeOK ==
  /\ name \in [Roles -> Names \cup {None}]
  /\ unused \subseteq Roles
  /\ groups \subseteq Groups
  /\ member \subseteq Groups
  /\ groupRoles \subseteq Roles \X Groups
  /\ roleScopes \subseteq Roles \X Scopes
  /\ req \in [Requests -> Request]

Init ==
  /\ name = [p \in Roles |-> None]
  /\ unused = Roles
  /\ groups = Groups
  /\ member = {}
  /\ groupRoles = {}
  /\ roleScopes = {}
  /\ req = [r \in Requests |-> Idle]

----------------------------------------------------------------------------
(* How a step of request r ends.  The history field stale of the others    *)
(* records that what they have read, and still act on, has changed.        *)

Become(r, next) == req' = [req EXCEPT ![r] = next]
Reply(r) == Become(r, Idle)

Changed(before, after) == (before \ after) \cup (after \ before)
GroupRolesChanged == Changed(groupRoles, groupRoles')
RoleScopesChanged == Changed(roleScopes, roleScopes')

Overtaken(q) ==
  \/ /\ q.pc \in {"add_find", "add_create", "rev_delete", "gr_create", "rs_create"}
     /\ name' # name
  \/ /\ q.pc \in {"add_create", "gr_find", "gr_create", "grp_delete"}
     /\ \E p \in Roles : <<p, q.group>> \in GroupRolesChanged
  \/ /\ q.pc \in {"rs_create", "del_role"}
     /\ \E s \in Scopes : <<q.role, s>> \in RoleScopesChanged
  \/ /\ q.pc \in {"del_scopes", "del_role"}
     /\ \E g \in Groups : <<q.role, g>> \in GroupRolesChanged
  \/ /\ q.pc \in {"add_role", "add_find", "add_create", "gr_delete", "gr_find", "gr_create"}
     /\ groups' # groups
  \/ /\ q.pc \in {"grp_roles", "grp_delete", "tok_roles", "tok_scopes", "tok_sign"}
     /\ member' # member
  \/ /\ q.pc \in {"tok_scopes", "tok_sign"}
     /\ RolesOfUser' # RolesOfUser
  \/ /\ q.pc = "tok_sign"
     /\ Privileges' # Privileges

\* The last conjunct of an action that changes tables.
Commit(r, next) ==
  req' = [p \in Requests |->
            IF p = r THEN next
            ELSE [req[p] EXCEPT !.stale = @ \/ Overtaken(req[p])]]

----------------------------------------------------------------------------
(* Roles of a group                                                        *)

CreateRole(r, p, n) ==
  /\ req[r] = Idle
  /\ p \in unused
  /\ name' = [name EXCEPT ![p] = n]
  /\ unused' = unused \ {p}
  /\ UNCHANGED <<groups, member, groupRoles, roleScopes>>
  /\ Commit(r, Idle)

AddGroupRole(r, g, n) ==
  /\ req[r] = Idle
  /\ g \in groups
  /\ Become(r, [Idle EXCEPT !.pc = "add_role", !.group = g, !.names = Spellings[n]])
  /\ UNCHANGED database

\* findFirst: any of the roles of that name, whatever its case; "Role not found"
\* without one.
FindRole(r, p) ==
  /\ req[r].pc = "add_role"
  /\ p \in Named(req[r].names)
  /\ Become(r, [req[r] EXCEPT !.pc = "add_find", !.role = p])
  /\ UNCHANGED database

FindGroupRole(r) ==
  LET q == req[r] IN
  /\ q.pc = "add_find"
  /\ IF <<q.role, q.group>> \in groupRoles
       THEN Reply(r)        \* "This group has already been allocated to this role"
       ELSE Become(r, [q EXCEPT !.pc = "add_create"])
  /\ UNCHANGED database

\* Fails when the row is there by now, or what it is to connect is not.
CreateGroupRole(r) ==
  LET q == req[r] IN
  /\ q.pc = "add_create"
  /\ Exists(q.role) /\ q.group \in groups
  /\ <<q.role, q.group>> \notin groupRoles
  /\ groupRoles' = groupRoles \cup {<<q.role, q.group>>}
  /\ UNCHANGED <<name, unused, groups, member, roleScopes>>
  /\ Commit(r, Idle)

UpdateGroupRoles(r, g, names) ==
  /\ req[r] = Idle
  /\ g \in groups
  /\ Become(r, [Idle EXCEPT !.pc = "gr_delete", !.group = g, !.names = names])
  /\ UNCHANGED database

\* Mutant: the roles the group had are kept.
KeepGroupRoles(r) ==
  /\ req[r].pc = "gr_delete"
  /\ Become(r, [req[r] EXCEPT !.pc = "gr_find"])
  /\ UNCHANGED database

DeleteGroupRoles(r) ==
  LET q == req[r] IN
  /\ q.pc = "gr_delete"
  /\ groupRoles' = groupRoles \ (Roles \X {q.group})
  /\ UNCHANGED <<name, unused, groups, member, roleScopes>>
  /\ Commit(r, [q EXCEPT !.pc = "gr_find"])

\* The roles of the names asked for, case and all, that there are.
FindRoles(r) ==
  LET q == req[r] IN
  /\ q.pc = "gr_find"
  /\ Become(r, [q EXCEPT !.pc = "gr_create", !.roles = Named(q.names)])
  /\ UNCHANGED database

\* One transaction: all rows are created, or none.
CreateGroupRoles(r) ==
  LET q == req[r] IN
  /\ q.pc = "gr_create"
  /\ \A p \in q.roles : Exists(p) /\ <<p, q.group>> \notin groupRoles
  /\ q.group \in groups
  /\ groupRoles' = groupRoles \cup (q.roles \X {q.group})
  /\ UNCHANGED <<name, unused, groups, member, roleScopes>>
  /\ Commit(r, Idle)

\* deleteGroupRole: any of the roles of that name, whatever its case...
DeleteGroupRole(r, g, n, p) ==
  /\ req[r] = Idle
  /\ p \in Named(Spellings[n])
  /\ Become(r, [Idle EXCEPT !.pc = "rev_delete", !.group = g, !.names = Spellings[n], !.role = p])
  /\ UNCHANGED database

\* Mutant: another role of the group goes.
DeleteOtherGroupRole(r) ==
  LET q == req[r] IN
  /\ q.pc = "rev_delete"
  /\ groupRoles' = groupRoles \ ((Roles \ {q.role}) \X {q.group})
  /\ UNCHANGED <<name, unused, groups, member, roleScopes>>
  /\ Commit(r, Idle)

\* ... is taken from the group, when the group has it.
DeleteRowOfGroupRole(r) ==
  LET q == req[r] IN
  /\ q.pc = "rev_delete"
  /\ groupRoles' = groupRoles \ {<<q.role, q.group>>}
  /\ UNCHANGED <<name, unused, groups, member, roleScopes>>
  /\ Commit(r, Idle)

----------------------------------------------------------------------------
(* Scopes of a role, and the end of a role                                 *)

UpdateRoleScopes(r, p, scopes) ==
  /\ req[r] = Idle
  /\ Exists(p)
  /\ Become(r, [Idle EXCEPT !.pc = "rs_delete", !.role = p, !.scopes = scopes])
  /\ UNCHANGED database

DeleteRoleScopes(r) ==
  LET q == req[r] IN
  /\ q.pc = "rs_delete"
  /\ roleScopes' = roleScopes \ ({q.role} \X Scopes)
  /\ UNCHANGED <<name, unused, groups, member, groupRoles>>
  /\ Commit(r, [q EXCEPT !.pc = "rs_create"])

CreateRoleScopes(r) ==
  LET q == req[r] IN
  /\ q.pc = "rs_create"
  /\ Exists(q.role) \/ q.scopes = {}
  /\ \A s \in q.scopes : <<q.role, s>> \notin roleScopes
  /\ roleScopes' = roleScopes \cup ({q.role} \X q.scopes)
  /\ UNCHANGED <<name, unused, groups, member, groupRoles>>
  /\ Commit(r, Idle)

\* Mutant: the scopes of the role are forgotten.
DeleteRoleNotItsScopes(r, p) ==
  /\ req[r] = Idle
  /\ groupRoles' = groupRoles \ ({p} \X Groups)
  /\ UNCHANGED <<name, unused, groups, member, roleScopes>>
  /\ Commit(r, [Idle EXCEPT !.pc = "del_role", !.role = p])

\* deleteRole looks for nothing: its first call deletes.
DeleteRole(r, p) ==
  /\ req[r] = Idle
  /\ groupRoles' = groupRoles \ ({p} \X Groups)
  /\ UNCHANGED <<name, unused, groups, member, roleScopes>>
  /\ Commit(r, [Idle EXCEPT !.pc = "del_scopes", !.role = p])

DeleteScopesOfRole(r) ==
  LET q == req[r] IN
  /\ q.pc = "del_scopes"
  /\ roleScopes' = roleScopes \ ({q.role} \X Scopes)
  /\ UNCHANGED <<name, unused, groups, member, groupRoles>>
  /\ Commit(r, [q EXCEPT !.pc = "del_role"])

\* Rows that need the role keep it.
DeleteRoleRow(r) ==
  LET q == req[r] IN
  /\ q.pc = "del_role"
  /\ Exists(q.role)
  /\ ScopesOf(q.role) = {} /\ GroupsOf(q.role) = {}
  /\ name' = [name EXCEPT ![q.role] = None]
  /\ UNCHANGED <<unused, groups, member, groupRoles, roleScopes>>
  /\ Commit(r, Idle)

----------------------------------------------------------------------------
(* deleteGroup of groups.service.ts, and the memberships of the user       *)

DeleteGroup(r, g) ==
  /\ req[r] = Idle
  /\ g \in groups
  /\ Become(r, [Idle EXCEPT !.pc = "grp_members", !.group = g])
  /\ UNCHANGED database

DeleteGroupMembers(r) ==
  /\ req[r].pc = "grp_members"
  /\ member' = member \ {req[r].group}
  /\ UNCHANGED <<name, unused, groups, groupRoles, roleScopes>>
  /\ Commit(r, [req[r] EXCEPT !.pc = "grp_roles"])

DeleteRolesOfGroup(r) ==
  /\ req[r].pc = "grp_roles"
  /\ groupRoles' = groupRoles \ (Roles \X {req[r].group})
  /\ UNCHANGED <<name, unused, groups, member, roleScopes>>
  /\ Commit(r, [req[r] EXCEPT !.pc = "grp_delete"])

DeleteGroupRow(r) ==
  LET g == req[r].group IN
  /\ req[r].pc = "grp_delete"
  /\ g \in groups
  /\ g \notin member /\ RolesOf(g) = {}
  /\ groups' = groups \ {g}
  /\ UNCHANGED <<name, unused, member, groupRoles, roleScopes>>
  /\ Commit(r, Idle)

\* One call of a handler that Memberships models as a whole.
ChangeMembership(r, g) ==
  /\ req[r] = Idle
  /\ g \in groups
  /\ member' = IF g \in member THEN member \ {g} ELSE member \cup {g}
  /\ UNCHANGED <<name, unused, groups, groupRoles, roleScopes>>
  /\ Commit(r, Idle)

----------------------------------------------------------------------------
(* getUserPrivileges, when a token is made for the user: its groups, then  *)
(* their roles, then the scopes of these.                                  *)

MakeToken(r) ==
  /\ req[r] = Idle
  /\ Become(r, [Idle EXCEPT !.pc = "tok_roles", !.groups = member])
  /\ UNCHANGED database

ReadRoles(r) ==
  LET q == req[r] IN
  /\ q.pc = "tok_roles"
  /\ Become(r, [q EXCEPT !.pc = "tok_scopes", !.roles = UNION {RolesOf(g) : g \in q.groups}])
  /\ UNCHANGED database

\* Mutant: the scopes of every role are read.
ReadAllScopes(r) ==
  /\ req[r].pc = "tok_scopes"
  /\ Become(r, [req[r] EXCEPT !.pc = "tok_sign", !.scopes = UNION {ScopesOf(p) : p \in Roles}])
  /\ UNCHANGED database

ReadScopes(r) ==
  LET q == req[r] IN
  /\ q.pc = "tok_scopes"
  /\ Become(r, [q EXCEPT !.pc = "tok_sign", !.scopes = UNION {ScopesOf(p) : p \in q.roles}])
  /\ UNCHANGED database

SignToken(r) ==
  /\ req[r].pc = "tok_sign"
  /\ Reply(r)
  /\ UNCHANGED database

\* A call fails, for a reason named above or another, or the process stops.
Abort(r) ==
  /\ req[r] # Idle
  /\ Reply(r)
  /\ UNCHANGED database

----------------------------------------------------------------------------
Arrive(r) ==
  \/ \E p \in Roles, n \in Names : CreateRole(r, p, n)
  \/ \E g \in Groups, n \in Names : AddGroupRole(r, g, n)
  \/ \E g \in Groups, names \in SUBSET Names : UpdateGroupRoles(r, g, names)
  \/ \E g \in Groups, n \in Names, p \in Roles : DeleteGroupRole(r, g, n, p)
  \/ \E p \in Roles, scopes \in SUBSET Scopes : UpdateRoleScopes(r, p, scopes)
  \/ \E p \in Roles : DeleteRole(r, p)
  \/ \E g \in Groups : DeleteGroup(r, g) \/ ChangeMembership(r, g)
  \/ MakeToken(r)

Resume(r) ==
  \/ \E p \in Roles : FindRole(r, p)
  \/ FindGroupRole(r) \/ CreateGroupRole(r)
  \/ DeleteGroupRoles(r) \/ FindRoles(r) \/ CreateGroupRoles(r)
  \/ DeleteRowOfGroupRole(r)
  \/ DeleteRoleScopes(r) \/ CreateRoleScopes(r)
  \/ DeleteScopesOfRole(r) \/ DeleteRoleRow(r)
  \/ DeleteGroupMembers(r) \/ DeleteRolesOfGroup(r) \/ DeleteGroupRow(r)
  \/ ReadRoles(r) \/ ReadScopes(r) \/ SignToken(r)

Next == \E r \in Requests : Arrive(r) \/ Resume(r) \/ Abort(r)

Spec == Init /\ [][Next]_vars

----------------------------------------------------------------------------
(* Properties                                                              *)

\* What each call of a request is made with.
ParametersFit(q) ==
  /\ q.pc \in {"add_find", "add_create", "rev_delete", "rs_delete", "rs_create",
               "del_scopes", "del_role"} => q.role \in Roles
  /\ q.pc \in {"add_role", "add_find", "add_create", "gr_delete", "gr_find", "gr_create",
               "rev_delete", "grp_members", "grp_roles", "grp_delete"} => q.group \in Groups

\* The foreign keys of the tables.
KeysHold ==
  /\ \A row \in groupRoles : Exists(row[1]) /\ row[2] \in groups
  /\ \A row \in roleScopes : Exists(row[1])
  /\ member \subseteq groups

\* What a request has read, or emptied, is still so.
ReadsHold(q) ==
  /\ q.pc \in {"add_find", "add_create", "rev_delete"} => name[q.role] \in q.names
  /\ q.pc = "add_create" => q.role \notin RolesOf(q.group)
  /\ q.pc \in {"add_role", "add_find", "add_create", "gr_delete", "gr_find", "gr_create"} =>
       q.group \in groups
  /\ q.pc \in {"gr_find", "gr_create"} => RolesOf(q.group) = {}
  /\ q.pc = "gr_create" => q.roles = Named(q.names)
  /\ q.pc = "rs_create" => ScopesOf(q.role) = {}
  /\ q.pc \in {"del_scopes", "del_role"} => GroupsOf(q.role) = {}
  /\ q.pc = "del_role" => ScopesOf(q.role) = {}
  /\ q.pc \in {"grp_roles", "grp_delete"} => q.group \notin member
  /\ q.pc = "grp_delete" => RolesOf(q.group) = {}
  /\ q.pc \in {"tok_roles", "tok_scopes"} => q.groups = member
  /\ q.pc = "tok_scopes" => q.roles = RolesOfUser

\* The invariant that the properties rest on: no row survives the role or
\* the group that it is about, and a request that nobody overtook acts on
\* what is still so; deleteRole and deleteGroup (roles.service.ts,
\* groups.service.ts) then find nothing in the way of their last call.
RolesInv ==
  /\ TypeOK
  /\ KeysHold
  /\ \A r \in Requests : ParametersFit(req[r]) /\ (req[r].stale \/ ReadsHold(req[r]))

\* updateGroupRoles and updateRoleScopes (roles.service.ts) leave the group
\* with the roles, and the role with the scopes, of the request and no other,
\* though they delete and create in calls apart; unless the rows, or the roles
\* of these names, were changed by another between these calls.
UpdatesLeaveWhatWasAsked ==
  [][\A r \in Requests :
       LET q == req[r] IN
       ~q.stale =>
         /\ \A g \in Groups :
              CreateGroupRoles(r) /\ g = q.group => RolesOf(g)' = Named(q.names)
         /\ \A p \in Roles :
              CreateRoleScopes(r) /\ p = q.role => ScopesOf(p)' = q.scopes]_vars

\* When deleteGroupRole (roles.service.ts) has replied, the group has no role
\* of that name, whatever its case, any more; unless two roles share the name,
\* which the schema allows and findFirst hides, or names changed since it looked.
RevokedIsGone ==
  [][\A r \in Requests, g \in Groups :
       LET q == req[r] IN
       DeleteRowOfGroupRole(r) /\ g = q.group =>
         \/ q.stale
         \/ Cardinality(Named(q.names)) > 1
         \/ RolesOf(g)' \cap Named(q.names) = {}]_vars

\* The scopes that a token is signed with (getUserPrivileges in
\* auth.service.ts) are those of the roles of the groups that the user is a
\* member of, all of them at one moment: a scope taken from the user before
\* the token was asked for is not in it.  Three reads make them, so a change
\* in between excuses it.
TokenIsCurrent ==
  \A r \in Requests :
    req[r].pc = "tok_sign" => req[r].stale \/ req[r].scopes = Privileges
=============================================================================
