---------------------------- MODULE Memberships ----------------------------
(***************************************************************************)
(* Groups, their members and owners, and the HTTP handlers that change     *)
(* them: memberships.service.ts, groups.service.ts, the membership part of *)
(* users.service.ts deleteUser, and of auth.service.ts register,           *)
(* verifyEmail and merge.                                                  *)
(*                                                                         *)
(* One Node process serves all requests, so a handler runs alone between   *)
(* two awaits and every Prisma call is one atomic database operation.  A   *)
(* request in flight is a record whose pc names the call it is about to    *)
(* make and whose other fields are the handler's local variables.  No      *)
(* handler opens a transaction across two of its calls.                    *)
(***************************************************************************)
EXTENDS Naturals

CONSTANTS
  Users,      \* user ids
  Groups,     \* group ids; drawn at random, so a deleted id may come back
  Requests,   \* slots for requests in flight
  Roles,      \* the MembershipRole enum
  AutoJoin,   \* the groups created with autoJoinDomain
  MaxRows,    \* bound: membership rows the database ever creates
  None        \* undefined, or no value

ASSUME MembershipsAssumption ==
  /\ {"OWNER", "MEMBER"} \subseteq Roles
  /\ AutoJoin \subseteq Groups
  /\ MaxRows \in Nat
  /\ None \notin Users \cup Groups \cup Roles \cup Requests

VARIABLES
  users,      \* rows of table User
  groups,     \* rows of table Group
  domain,     \* the Domain row of each group, if any
  row,        \* table Membership, by id
  nextId,     \* the id its autoincrement hands out next
  req         \* requests in flight

vars == <<users, groups, domain, row, nextId, req>>

Ids == 1..MaxRows
NoId == 0
NoRow == [group |-> None, user |-> None, role |-> None]

Idle == [pc |-> "idle", group |-> None, user |-> None, base |-> None, id |-> NoId,
         role |-> None, ids |-> {}, joins |-> {}, stale |-> FALSE]

\* Points at which a request is about to act on what it has read of its group.
Checked == {"del_recheck", "del_write", "upd_write", "add_create"}

PCs == Checked \cup
       {"idle", "del_list", "upd_count", "add_find", "add_update", "grp_members",
        "grp_delete", "usr_members", "usr_delete", "join_find", "join_write",
        "mrg_find", "mrg_move"}

Row == [group : Groups, user : Users, role : Roles] \cup {NoRow}

Request == [pc : PCs, group : Groups \cup {None}, user : Users \cup {None},
            base : Users \cup {None}, id : Ids \cup {NoId}, role : Roles \cup {None},
            ids : SUBSET Ids, joins : SUBSET Groups, stale : BOOLEAN]

TypeOK ==
  /\ users \subseteq Users
  /\ groups \subseteq Groups
  /\ domain \in [Groups -> {"none", "unverified", "verified"}]
  /\ row \in [Ids -> Row]
  /\ nextId \in 1..(MaxRows + 1)
  /\ req \in [Requests -> Request]

----------------------------------------------------------------------------
(* What the queries of the handlers return. *)

RowsOf(g) == {i \in Ids : row[i].group = g}
OwnersOf(g) == {i \in RowsOf(g) : row[i].role = "OWNER"}
RowsOfUser(u) == {i \in Ids : row[i].user = u}
RowsOfPair(u, g) == RowsOf(g) \cap RowsOfUser(u)
Exists(i) == row[i] # NoRow

\* memberships.length === 1
HasOneElement(S) == \E i \in S : S = {i}

----------------------------------------------------------------------------
(* How a step of request r ends: with an answer, at the next await, or     *)
(* with a write to table Membership.  The history field stale of the other *)
(* requests records that the group changed between the read they judged    *)
(* and the write they are about to make.                                   *)

Become(r, next) == req' = [req EXCEPT ![r] = next]
Reply(r) == Become(r, Idle)

Changed(table, g) ==
  \E i \in Ids : row[i] # table[i] /\ g \in {row[i].group, table[i].group}

Overtaken(r, table) == req[r].pc \in Checked /\ Changed(table, req[r].group)

Commit(r, table, next) ==
  /\ row' = table
  /\ req' = [q \in Requests |->
               IF q = r THEN next
               ELSE [req[q] EXCEPT !.stale = @ \/ Overtaken(q, table)]]

\* prisma.membership.create on a table with a free id
Insert(u, g, role) == [row EXCEPT ![nextId] = [group |-> g, user |-> u, role |-> role]]
SetRole(i, role) == IF role = None THEN row ELSE [row EXCEPT ![i].role = role]
Remove(S) == [i \in Ids |-> IF i \in S THEN NoRow ELSE row[i]]

database == <<users, groups, domain, row, nextId>>

----------------------------------------------------------------------------
Init ==
  /\ users = {}
  /\ groups = {}
  /\ domain = [g \in Groups |-> "none"]
  /\ row = [i \in Ids |-> NoRow]
  /\ nextId = 1
  /\ req = [r \in Requests |-> Idle]

(* register: the user, with its email, in one nested create. *)
Register(u) ==
  /\ u \notin users
  /\ users' = users \cup {u}
  /\ UNCHANGED <<groups, domain, row, nextId, req>>

(* createUserMembership: the group and the OWNER row of its creator in one *)
(* nested create; the id is checked against table User, never Group, and a *)
(* taken id makes the create fail.                                         *)
CreateUserMembership(u, g) ==
  /\ u \in users
  /\ g \notin groups
  /\ nextId \in Ids
  /\ groups' = groups \cup {g}
  /\ Commit(None, Insert(u, g, "OWNER"), Idle)
  /\ nextId' = nextId + 1
  /\ UNCHANGED <<users, domain>>

(* Domains: a Domain row makes its group undeletable, a verified one of an *)
(* AutoJoin group makes verifyEmail join the user to it.                   *)
CreateDomain(g) ==
  /\ g \in groups
  /\ domain[g] = "none"
  /\ domain' = [domain EXCEPT ![g] = "unverified"]
  /\ UNCHANGED <<users, groups, row, nextId, req>>

VerifyDomain(g) ==
  /\ domain[g] = "unverified"
  /\ domain' = [domain EXCEPT ![g] = "verified"]
  /\ UNCHANGED <<users, groups, row, nextId, req>>

DeleteDomain(g) ==
  /\ domain[g] # "none"
  /\ domain' = [domain EXCEPT ![g] = "none"]
  /\ UNCHANGED <<users, groups, row, nextId, req>>

----------------------------------------------------------------------------
(* deleteUserMembership and deleteGroupMembership: find the row, run       *)
(* verifyDeleteMembership, delete it.                                      *)

BeginDelete(r, i) ==
  /\ req[r] = Idle
  /\ Exists(i)
  /\ Become(r, [Idle EXCEPT !.pc = "del_list", !.id = i, !.group = row[i].group])
  /\ UNCHANGED database

DeleteUserMembership(r, u, i) == row[i].user = u /\ BeginDelete(r, i)

DeleteGroupMembership(r, g, i) == row[i].group = g /\ BeginDelete(r, i)

\* Mutant: the only member may be removed.
VerifyDeleteOfAnyMember(r) ==
  /\ req[r].pc = "del_list"
  /\ Become(r, [req[r] EXCEPT !.pc = "del_recheck", !.ids = OwnersOf(req[r].group)])
  /\ UNCHANGED database

(* verifyDeleteMembership: the list of the group's members... *)
VerifyDeleteMembership(r) ==
  LET q == req[r] IN
  /\ q.pc = "del_list"
  /\ IF HasOneElement(RowsOf(q.group))
       THEN Reply(r)                              \* CANNOT_DELETE_SOLE_MEMBER
       ELSE Become(r, [q EXCEPT !.pc = "del_recheck", !.ids = OwnersOf(q.group)])
  /\ UNCHANGED database

\* Mutant: the only owner may be removed.
RereadWithoutOwnerCheck(r) ==
  /\ req[r].pc = "del_recheck"
  /\ IF Exists(req[r].id) THEN Become(r, [req[r] EXCEPT !.pc = "del_write", !.ids = {}])
                          ELSE Reply(r)
  /\ UNCHANGED database

(* ... then the row again, judged against that list. *)
RereadMembership(r) ==
  LET q == req[r]
      soleOwner == row[q.id].role = "OWNER" /\ HasOneElement(q.ids)
  IN
  /\ q.pc = "del_recheck"
  /\ IF ~Exists(q.id) \/ soleOwner                \* CANNOT_DELETE_SOLE_OWNER
       THEN Reply(r)
       ELSE Become(r, [q EXCEPT !.pc = "del_write", !.ids = {}])
  /\ UNCHANGED database

(* membership.delete fails when the row is gone. *)
DeleteMembershipRow(r) ==
  LET q == req[r] IN
  /\ q.pc = "del_write"
  /\ IF Exists(q.id) THEN Commit(r, Remove({q.id}), Idle)
                     ELSE Reply(r) /\ UNCHANGED row
  /\ UNCHANGED <<users, groups, domain, nextId>>

----------------------------------------------------------------------------
(* updateGroupMembership; role is None when the body leaves it out, which  *)
(* an owner's update is refused for like a demotion.                       *)

UpdateGroupMembership(r, g, i, role) ==
  LET demotes == row[i].role = "OWNER" /\ role # "OWNER" IN
  /\ req[r] = Idle
  /\ row[i].group = g
  /\ Become(r, [Idle EXCEPT !.pc = IF demotes THEN "upd_count" ELSE "upd_write",
                            !.id = i, !.group = g, !.role = role])
  /\ UNCHANGED database

\* Mutant: the count takes in the owner that is demoted.
CountOwners(r) ==
  /\ req[r].pc = "upd_count"
  /\ IF OwnersOf(req[r].group) = {}
       THEN Reply(r)
       ELSE Become(r, [req[r] EXCEPT !.pc = "upd_write"])
  /\ UNCHANGED database

CountOtherOwners(r) ==
  LET q == req[r] IN
  /\ q.pc = "upd_count"
  /\ IF OwnersOf(q.group) \ {q.id} = {}
       THEN Reply(r)                              \* CANNOT_UPDATE_ROLE_SOLE_OWNER
       ELSE Become(r, [q EXCEPT !.pc = "upd_write"])
  /\ UNCHANGED database

WriteRole(r) ==
  LET q == req[r] IN
  /\ q.pc = "upd_write"
  /\ IF Exists(q.id) THEN Commit(r, SetRole(q.id, q.role), Idle)
                     ELSE Reply(r) /\ UNCHANGED row
  /\ UNCHANGED <<users, groups, domain, nextId>>

----------------------------------------------------------------------------
(* createGroupMembership: find the user by email, then a membership of it, *)
(* then give that row the role of the request or create a row.             *)

CreateGroupMembership(r, g, u, role) ==
  /\ req[r] = Idle
  /\ u \in users
  /\ Become(r, [Idle EXCEPT !.pc = "add_find", !.group = g, !.user = u, !.role = role])
  /\ UNCHANGED database

\* Mutant: a member is added without a look for the membership it has.
FindNoMembership(r) ==
  /\ req[r].pc = "add_find"
  /\ Become(r, [req[r] EXCEPT !.pc = "add_create"])
  /\ UNCHANGED database

FindMembership(r) ==
  LET q == req[r] IN
  /\ q.pc = "add_find"
  /\ \/ /\ RowsOfPair(q.user, q.group) = {}
        /\ Become(r, [q EXCEPT !.pc = "add_create"])
     \/ \E i \in RowsOfPair(q.user, q.group) :
           Become(r, [q EXCEPT !.pc = "add_update", !.id = i])
  /\ UNCHANGED database

OverwriteRole(r) ==
  LET q == req[r] IN
  /\ q.pc = "add_update"
  /\ IF Exists(q.id) THEN Commit(r, SetRole(q.id, q.role), Idle)
                     ELSE Reply(r) /\ UNCHANGED row
  /\ UNCHANGED <<users, groups, domain, nextId>>

\* membership.create, which throws when a row to connect to is gone (and, by the
\* bound, when there is no id left)
CreateRow(r, u, g, role, next) ==
  IF u \in users /\ g \in groups /\ nextId \in Ids
    THEN Commit(r, Insert(u, g, role), next) /\ nextId' = nextId + 1
    ELSE Reply(r) /\ UNCHANGED <<row, nextId>>

\* Mutant: a role left out of the body stays undefined.
AddMemberWithoutDefault(r) ==
  /\ req[r].pc = "add_create"
  /\ CreateRow(r, req[r].user, req[r].group, req[r].role, Idle)
  /\ UNCHANGED <<users, groups, domain>>

AddMember(r) ==
  LET q == req[r]
      role == IF q.role = None THEN "MEMBER" ELSE q.role
  IN
  /\ q.pc = "add_create"
  /\ CreateRow(r, q.user, q.group, role, Idle)
  /\ UNCHANGED <<users, groups, domain>>

----------------------------------------------------------------------------
(* deleteGroup: the memberships, then the group, which the database keeps  *)
(* while a membership or a domain still refers to it.                      *)

DeleteGroup(r, g) ==
  /\ req[r] = Idle
  /\ g \in groups
  /\ Become(r, [Idle EXCEPT !.pc = "grp_members", !.group = g])
  /\ UNCHANGED database

DeleteGroupMembers(r) ==
  LET q == req[r] IN
  /\ q.pc = "grp_members"
  /\ Commit(r, Remove(RowsOf(q.group)), [q EXCEPT !.pc = "grp_delete"])
  /\ UNCHANGED <<users, groups, domain, nextId>>

DeleteGroupRow(r) ==
  LET q == req[r] IN
  /\ q.pc = "grp_delete"
  /\ groups' = IF RowsOf(q.group) = {} /\ domain[q.group] = "none"
                 THEN groups \ {q.group} ELSE groups
  /\ Reply(r)
  /\ UNCHANGED <<users, domain, row, nextId>>

----------------------------------------------------------------------------
(* deleteUser, also what deleteInactiveUsers calls: memberships, the rows  *)
(* of seven other tables (not part of this module: here a user is found by *)
(* email while its row exists), then the user, which the database keeps    *)
(* while a membership still refers to it.                                  *)

DeleteUser(r, u) ==
  /\ req[r] = Idle
  /\ u \in users
  /\ Become(r, [Idle EXCEPT !.pc = "usr_members", !.user = u])
  /\ UNCHANGED database

DeleteUserMembers(r) ==
  LET q == req[r] IN
  /\ q.pc = "usr_members"
  /\ Commit(r, Remove(RowsOfUser(q.user)), [q EXCEPT !.pc = "usr_delete"])
  /\ UNCHANGED <<users, groups, domain, nextId>>

\* prisma.user.delete
RemoveUser(u) ==
  users' = IF RowsOfUser(u) = {} THEN users \ {u} ELSE users

DeleteUserRow(r) ==
  /\ req[r].pc = "usr_delete"
  /\ RemoveUser(req[r].user)
  /\ Reply(r)
  /\ UNCHANGED <<groups, domain, row, nextId>>

----------------------------------------------------------------------------
(* verifyEmail joins the user to each group that autojoins its domain; the *)
(* link stays valid, so it may run again.  A create that fails ends it.    *)

VerifyEmail(r, u) ==
  /\ req[r] = Idle
  /\ u \in users
  /\ Become(r, [Idle EXCEPT !.pc = "join_find", !.user = u])
  /\ UNCHANGED database

FindGroupsToJoin(r) ==
  LET q == req[r]
      toJoin == {g \in groups \cap AutoJoin : domain[g] = "verified"}
  IN
  /\ q.pc = "join_find"
  /\ IF toJoin = {} THEN Reply(r)
                    ELSE Become(r, [q EXCEPT !.pc = "join_write", !.joins = toJoin])
  /\ UNCHANGED database

JoinGroup(r, g) ==
  LET q == req[r]
      rest == q.joins \ {g}
      next == IF rest = {} THEN Idle ELSE [q EXCEPT !.joins = rest]
  IN
  /\ q.pc = "join_write"
  /\ g \in q.joins
  /\ CreateRow(r, q.user, g, "MEMBER", next)
  /\ UNCHANGED <<users, groups, domain>>

----------------------------------------------------------------------------
(* merge: move what the merged user owns to the base user, one row at a    *)
(* time, then delete the merged user.  An update that fails ends it.       *)

MergeUsers(r, base, other) ==
  /\ req[r] = Idle
  /\ base # other
  /\ {base, other} \subseteq users
  /\ Become(r, [Idle EXCEPT !.pc = "mrg_find", !.user = other, !.base = base])
  /\ UNCHANGED database

FindMembershipsToMove(r) ==
  LET q == req[r] IN
  /\ q.pc = "mrg_find"
  /\ IF q.base \in users
       THEN Become(r, [q EXCEPT !.pc = "mrg_move", !.ids = RowsOfUser(q.user)])
       ELSE Reply(r)
  /\ UNCHANGED database

MoveMembership(r, i) ==
  LET q == req[r] IN
  /\ q.pc = "mrg_move"
  /\ i \in q.ids
  /\ IF Exists(i) /\ q.base \in users
       THEN Commit(r, [row EXCEPT ![i].user = q.base], [q EXCEPT !.ids = @ \ {i}])
       ELSE Reply(r) /\ UNCHANGED row
  /\ UNCHANGED <<users, groups, domain, nextId>>

DeleteMergedUser(r) ==
  /\ req[r].pc = "mrg_move"
  /\ req[r].ids = {}
  /\ RemoveUser(req[r].user)
  /\ Reply(r)
  /\ UNCHANGED <<groups, domain, row, nextId>>

----------------------------------------------------------------------------
(* A call arrives... *)
Arrive(r) ==
  \/ \E i \in Ids : \/ \E u \in Users : DeleteUserMembership(r, u, i)
                    \/ \E g \in Groups : DeleteGroupMembership(r, g, i)
                    \/ \E g \in Groups, role \in Roles \cup {None} :
                          UpdateGroupMembership(r, g, i, role)
  \/ \E g \in Groups, u \in Users, role \in Roles \cup {None} :
        CreateGroupMembership(r, g, u, role)
  \/ \E g \in Groups : DeleteGroup(r, g)
  \/ \E u \in Users : DeleteUser(r, u) \/ VerifyEmail(r, u)
  \/ \E base, other \in Users : MergeUsers(r, base, other)

(* ... and resumes after each await. *)
Resume(r) ==
  \/ VerifyDeleteMembership(r) \/ RereadMembership(r) \/ DeleteMembershipRow(r)
  \/ CountOtherOwners(r) \/ WriteRole(r)
  \/ FindMembership(r) \/ OverwriteRole(r) \/ AddMember(r)
  \/ DeleteGroupMembers(r) \/ DeleteGroupRow(r)
  \/ DeleteUserMembers(r) \/ DeleteUserRow(r)
  \/ FindGroupsToJoin(r) \/ (\E g \in Groups : JoinGroup(r, g))
  \/ FindMembershipsToMove(r) \/ (\E i \in Ids : MoveMembership(r, i))
  \/ DeleteMergedUser(r)

(* ... unless a database error or a restart of the process ends it there: *)
(* what it wrote stays written, and nothing resumes it.                    *)
Abort(r) ==
  /\ req[r] # Idle
  /\ Reply(r)
  /\ UNCHANGED database

Next ==
  \/ \E u \in Users : Register(u)
  \/ \E u \in Users, g \in Groups : CreateUserMembership(u, g)
  \/ \E g \in Groups : CreateDomain(g) \/ VerifyDomain(g) \/ DeleteDomain(g)
  \/ \E r \in Requests : Arrive(r) \/ Resume(r) \/ Abort(r)

Spec == Init /\ [][Next]_vars

----------------------------------------------------------------------------
(* The request that takes a step; the others at most become stale. *)
Acts(r) == [req[r] EXCEPT !.stale = FALSE] # [req'[r] EXCEPT !.stale = FALSE]

(***************************************************************************)
(* Every row a foreign key names exists: memberships name live users and   *)
(* groups and domains live groups, although deleteUser, deleteGroup and    *)
(* merge work in steps that any insert may fall between.                   *)
(***************************************************************************)
NoDanglingRows ==
  /\ \A i \in Ids : Exists(i) => row[i].user \in users /\ row[i].group \in groups
  /\ \A g \in Groups : domain[g] # "none" => g \in groups

(* What the program knows of request r at each await: its parameters are   *)
(* what the route gave it, a membership id it holds is of its group or     *)
(* gone, and what it read of the group still holds unless it is stale.     *)
ParametersFit(r) ==
  LET q == req[r] IN
  /\ q.pc \in {"del_list", "del_recheck", "del_write", "upd_count", "upd_write"} =>
       /\ q.id \in Ids /\ q.id < nextId /\ q.group \in Groups
       /\ Exists(q.id) => row[q.id].group = q.group
  /\ q.pc \in {"add_find", "add_create"} => q.user \in Users /\ q.group \in Groups
  /\ q.pc = "add_update" => q.id \in Ids
  /\ q.pc \in {"grp_members", "grp_delete"} => q.group \in Groups
  /\ q.pc \in {"usr_members", "usr_delete", "join_find", "join_write"} => q.user \in Users
  /\ q.pc \in {"mrg_find", "mrg_move"} => q.user \in Users /\ q.base \in Users

ReadsHold(r) ==
  LET q == req[r] IN
  ~q.stale =>
    /\ q.pc = "del_recheck" => /\ q.ids = OwnersOf(q.group)
                               /\ ~HasOneElement(RowsOf(q.group))
    /\ q.pc = "del_write" => /\ ~HasOneElement(RowsOf(q.group))
                             /\ row[q.id].role = "OWNER" => ~HasOneElement(OwnersOf(q.group))
    /\ q.pc = "upd_write" /\ q.role # "OWNER" /\ row[q.id].role = "OWNER" =>
         OwnersOf(q.group) \ {q.id} # {}
    /\ q.pc = "add_create" => RowsOfPair(q.user, q.group) = {}

(***************************************************************************)
(* The inductive invariant behind the properties below: types, foreign     *)
(* keys, row ids never handed out twice, and at every await of a check-    *)
(* then-act handler (verifyDeleteMembership, updateGroupMembership,        *)
(* createGroupMembership) that what it read still holds unless overtaken.  *)
(***************************************************************************)
HandlerInv ==
  /\ TypeOK
  /\ NoDanglingRows
  /\ \A i \in Ids : i >= nextId => ~Exists(i)
  /\ \A r \in Requests : ParametersFit(r) /\ ReadsHold(r)

(***************************************************************************)
(* The last owner of a group leaves it (400010, 400017) only through the   *)
(* three writes that check nothing -- createGroupMembership on an existing *)
(* member, deleteGroup and deleteUser -- or through a handler whose check  *)
(* another request has overtaken: verifyDeleteMembership and the owner     *)
(* count of updateGroupMembership are otherwise sufficient.                *)
(***************************************************************************)
LastOwnerStays ==
  [][\A g \in groups \cap groups' :
       OwnersOf(g) # {} /\ OwnersOf(g)' = {} =>
         \E r \in Requests :
           /\ Acts(r)
           /\ \/ req[r].pc \in {"add_update", "grp_members", "usr_members"}
              \/ req[r].stale]_row

(***************************************************************************)
(* The last member of a group leaves it (CANNOT_DELETE_SOLE_MEMBER) only   *)
(* through deleteGroup, deleteUser or an overtaken membership delete.      *)
(***************************************************************************)
LastMemberStays ==
  [][\A g \in groups \cap groups' :
       RowsOf(g) # {} /\ RowsOf(g)' = {} =>
         \E r \in Requests :
           /\ Acts(r)
           /\ \/ req[r].pc \in {"grp_members", "usr_members"}
              \/ req[r].pc = "del_write" /\ req[r].stale]_row

Place(i) == <<row[i].user, row[i].group>>

(***************************************************************************)
(* A user gets a second membership of a group only from verifyEmail or     *)
(* merge, which do not look for one, or from a createGroupMembership that  *)
(* another request overtook between its findFirst and its create.          *)
(***************************************************************************)
OneMembershipPerGroup ==
  [][\A i \in Ids :
       row'[i] # NoRow /\ Place(i)' # Place(i) =>
         \A j \in Ids \ {i} :
           Exists(j) /\ Place(j)' = Place(i)' =>
             \E r \in Requests :
               /\ Acts(r)
               /\ \/ req[r].pc \in {"join_write", "mrg_move"}
                  \/ req[r].pc = "add_create" /\ req[r].stale]_row

(***************************************************************************)
(* What errors.constants.ts promises of the handlers themselves, at every  *)
(* interleaving: 400010 "Cannot remove the only owner" and 400017 "Cannot  *)
(* change the role of the only owner".                                     *)
(***************************************************************************)
KeepsAnOwner(pcs) ==
  \A r \in Requests, g \in Groups :
    Acts(r) /\ req[r].pc \in pcs /\ OwnersOf(g) # {} => OwnersOf(g)' # {}

OnlyOwnerNotRemoved == [][KeepsAnOwner({"del_write"})]_row
OnlyOwnerNotDemoted == [][KeepsAnOwner({"upd_write", "add_update"})]_row
=============================================================================
