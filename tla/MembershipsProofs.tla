------------------------- MODULE MembershipsProofs -------------------------
(* Type correctness of Memberships, its inductive invariant, and the three *)
(* action properties that say what the checks of the handlers are worth    *)
(* under interleaving, for any number of users, groups, requests and rows. *)
EXTENDS Memberships, TLAPS

LEMMA IdleType == Idle \in Request
  BY DEF Idle, Request, PCs, NoId

\* A table update keeps the type of the table.
LEMMA TableType ==
  ASSUME TypeOK
  PROVE  /\ \A S \in SUBSET Ids : Remove(S) \in [Ids -> Row]
         /\ \A i \in Ids, role \in Roles \cup {None} :
              Exists(i) => SetRole(i, role) \in [Ids -> Row]
         /\ \A u \in Users, g \in Groups, role \in Roles :
              nextId \in Ids => Insert(u, g, role) \in [Ids -> Row]
         /\ \A i \in Ids, u \in Users : Exists(i) => [row EXCEPT ![i].user = u] \in [Ids -> Row]
  BY MembershipsAssumption DEF TypeOK, Remove, SetRole, Insert, Row, NoRow, Exists

\* Commit keeps the types when its table and its next request have them.
LEMMA CommitType ==
  ASSUME TypeOK, NEW r, NEW table \in [Ids -> Row], NEW next \in Request,
         Commit(r, table, next)
  PROVE  row' \in [Ids -> Row] /\ req' \in [Requests -> Request]
<1>1. ASSUME NEW q \in Requests
      PROVE  [req[q] EXCEPT !.stale = @ \/ Overtaken(q, table)] \in Request
  <2>1. req[q] \in Request
    BY DEF TypeOK
  <2>2. \A s \in BOOLEAN : [req[q] EXCEPT !.stale = s] \in Request
    BY <2>1 DEF Request
  <2>3. (req[q].stale \/ Overtaken(q, table)) \in BOOLEAN
    OBVIOUS
  <2>. QED BY <2>1, <2>2, <2>3 DEF Request
<1>2. \A q \in Requests : req'[q] \in Request
  BY <1>1 DEF Commit
<1>. QED BY <1>2 DEF Commit

LEMMA BecomeType ==
  ASSUME TypeOK, NEW r \in Requests, NEW next \in Request, Become(r, next)
  PROVE  req' \in [Requests -> Request]
  BY DEF TypeOK, Become

(* A call that arrives changes no table and stores its parameters. *)
LEMMA ArriveType ==
  ASSUME TypeOK, NEW r \in Requests, Arrive(r)
  PROVE  req' \in [Requests -> Request] /\ UNCHANGED database
<1>1. ASSUME NEW i \in Ids, BeginDelete(r, i)
      PROVE  req' \in [Requests -> Request] /\ UNCHANGED database
  <2>1. row[i].group \in Groups
    BY <1>1 DEF BeginDelete, TypeOK, Row, Exists
  <2>2. [Idle EXCEPT !.pc = "del_list", !.id = i, !.group = row[i].group] \in Request
    BY <2>1 DEF Request, PCs, Checked, Idle
  <2>. QED BY <1>1, <2>2, BecomeType DEF BeginDelete
<1>2. ASSUME NEW i \in Ids, NEW g \in Groups, NEW role \in Roles \cup {None},
             UpdateGroupMembership(r, g, i, role)
      PROVE  req' \in [Requests -> Request] /\ UNCHANGED database
  <2>1. \A pc \in {"upd_count", "upd_write"} :
           [Idle EXCEPT !.pc = pc, !.id = i, !.group = g, !.role = role] \in Request
    BY DEF Request, PCs, Checked, Idle
  <2>. QED BY <1>2, <2>1, BecomeType DEF UpdateGroupMembership
<1>3. ASSUME NEW g \in Groups, NEW u \in Users, NEW role \in Roles \cup {None},
             CreateGroupMembership(r, g, u, role)
      PROVE  req' \in [Requests -> Request] /\ UNCHANGED database
  <2>1. [Idle EXCEPT !.pc = "add_find", !.group = g, !.user = u, !.role = role] \in Request
    BY DEF Request, PCs, Checked, Idle, NoId
  <2>. QED BY <1>3, <2>1, BecomeType DEF CreateGroupMembership
<1>4. ASSUME NEW g \in Groups, DeleteGroup(r, g)
      PROVE  req' \in [Requests -> Request] /\ UNCHANGED database
  <2>1. [Idle EXCEPT !.pc = "grp_members", !.group = g] \in Request
    BY DEF Request, PCs, Checked, Idle, NoId
  <2>. QED BY <1>4, <2>1, BecomeType DEF DeleteGroup
<1>5. ASSUME NEW u \in Users, DeleteUser(r, u) \/ VerifyEmail(r, u)
      PROVE  req' \in [Requests -> Request] /\ UNCHANGED database
  <2>1. \A pc \in {"usr_members", "join_find"} : [Idle EXCEPT !.pc = pc, !.user = u] \in Request
    BY DEF Request, PCs, Checked, Idle, NoId
  <2>. QED BY <1>5, <2>1, BecomeType DEF DeleteUser, VerifyEmail
<1>6. ASSUME NEW base \in Users, NEW other \in Users, MergeUsers(r, base, other)
      PROVE  req' \in [Requests -> Request] /\ UNCHANGED database
  <2>1. [Idle EXCEPT !.pc = "mrg_find", !.user = other, !.base = base] \in Request
    BY DEF Request, PCs, Checked, Idle, NoId
  <2>. QED BY <1>6, <2>1, BecomeType DEF MergeUsers
<1>. QED
  BY <1>1, <1>2, <1>3, <1>4, <1>5, <1>6
     DEF Arrive, DeleteUserMembership, DeleteGroupMembership

\* prisma.membership.create keeps the types and never reuses an id.
LEMMA CreateRowType ==
  ASSUME TypeOK, NEW r \in Requests, NEW u \in Users, NEW g \in Groups, NEW role \in Roles,
         NEW next \in Request, CreateRow(r, u, g, role, next)
  PROVE  /\ row' \in [Ids -> Row] /\ req' \in [Requests -> Request]
         /\ nextId' \in 1..(MaxRows + 1)
<1>1. CASE u \in users /\ g \in groups /\ nextId \in Ids
  <2>1. Insert(u, g, role) \in [Ids -> Row]
    BY <1>1, TableType
  <2>2. Commit(r, Insert(u, g, role), next) /\ nextId' = nextId + 1
    BY <1>1 DEF CreateRow
  <2>. QED BY <1>1, <2>1, <2>2, CommitType, MembershipsAssumption DEF Ids
<1>2. CASE ~(u \in users /\ g \in groups /\ nextId \in Ids)
  BY <1>2, BecomeType, IdleType DEF CreateRow, Reply, TypeOK
<1>. QED BY <1>1, <1>2

\* What a request that runs needs to keep its type.
LEMMA ResumeType ==
  ASSUME TypeOK, NEW r \in Requests, ParametersFit(r), Resume(r)
  PROVE  TypeOK'
<1>. DEFINE q == req[r]
<1>. q \in Request
  BY DEF TypeOK
<1>1. CASE VerifyDeleteMembership(r)
  <2>1. [q EXCEPT !.pc = "del_recheck", !.ids = OwnersOf(q.group)] \in Request
    BY DEF Request, PCs, Checked, OwnersOf, RowsOf
  <2>. QED BY <1>1, <2>1, BecomeType, IdleType
           DEF VerifyDeleteMembership, Reply, database, TypeOK
<1>2. CASE RereadMembership(r)
  <2>1. [q EXCEPT !.pc = "del_write", !.ids = {}] \in Request
    BY DEF Request, PCs, Checked
  <2>. QED BY <1>2, <2>1, BecomeType, IdleType DEF RereadMembership, Reply, database, TypeOK
<1>3. CASE DeleteMembershipRow(r)
  <2>1. Remove({q.id}) \in [Ids -> Row]
    BY TableType, <1>3 DEF ParametersFit, DeleteMembershipRow
  <2>. QED BY <1>3, <2>1, BecomeType, CommitType, IdleType
           DEF DeleteMembershipRow, Reply, TypeOK
<1>4. CASE CountOtherOwners(r)
  <2>1. [q EXCEPT !.pc = "upd_write"] \in Request
    BY DEF Request, PCs, Checked
  <2>. QED BY <1>4, <2>1, BecomeType, IdleType DEF CountOtherOwners, Reply, database, TypeOK
<1>5. CASE WriteRole(r) \/ OverwriteRole(r)
  <2>1. Exists(q.id) => SetRole(q.id, q.role) \in [Ids -> Row]
    BY TableType, <1>5 DEF ParametersFit, WriteRole, OverwriteRole, Request
  <2>. QED BY <1>5, <2>1, BecomeType, CommitType, IdleType
           DEF WriteRole, OverwriteRole, Reply, TypeOK
<1>6. CASE FindMembership(r)
  <2>1. [q EXCEPT !.pc = "add_create"] \in Request
    BY DEF Request, PCs, Checked
  <2>2. \A i \in Ids : [q EXCEPT !.pc = "add_update", !.id = i] \in Request
    BY DEF Request, PCs, Checked
  <2>. QED BY <1>6, <2>1, <2>2, BecomeType
           DEF FindMembership, RowsOfPair, RowsOf, database, TypeOK
<1>7. CASE AddMember(r)
  <2>1. (IF q.role = None THEN "MEMBER" ELSE q.role) \in Roles
    BY MembershipsAssumption DEF Request
  <2>2. q.user \in Users /\ q.group \in Groups
    BY <1>7 DEF ParametersFit, AddMember
  <2>. QED BY <1>7, <2>1, <2>2, CreateRowType, IdleType DEF AddMember, TypeOK
<1>8. CASE DeleteGroupMembers(r)
  <2>1. Remove(RowsOf(q.group)) \in [Ids -> Row]
    BY TableType DEF RowsOf
  <2>2. [q EXCEPT !.pc = "grp_delete"] \in Request
    BY DEF Request, PCs, Checked
  <2>. QED BY <1>8, <2>1, <2>2, CommitType DEF DeleteGroupMembers, TypeOK
<1>9. CASE DeleteGroupRow(r)
  BY <1>9, BecomeType, IdleType DEF DeleteGroupRow, Reply, TypeOK
<1>10. CASE DeleteUserMembers(r)
  <2>1. Remove(RowsOfUser(q.user)) \in [Ids -> Row]
    BY TableType DEF RowsOfUser
  <2>2. [q EXCEPT !.pc = "usr_delete"] \in Request
    BY DEF Request, PCs, Checked
  <2>. QED BY <1>10, <2>1, <2>2, CommitType DEF DeleteUserMembers, TypeOK
<1>11. CASE DeleteUserRow(r) \/ DeleteMergedUser(r)
  BY <1>11, BecomeType, IdleType DEF DeleteUserRow, DeleteMergedUser, RemoveUser, Reply, TypeOK
<1>12. CASE FindGroupsToJoin(r)
  <2>1. \A S \in SUBSET Groups : [q EXCEPT !.pc = "join_write", !.joins = S] \in Request
    BY DEF Request, PCs, Checked
  <2>. QED BY <1>12, <2>1, BecomeType, IdleType
           DEF FindGroupsToJoin, Reply, database, TypeOK
<1>13. ASSUME NEW g \in Groups, JoinGroup(r, g)
       PROVE  TypeOK'
  <2>1. [q EXCEPT !.joins = q.joins \ {g}] \in Request
    BY DEF Request
  <2>2. q.user \in Users
    BY <1>13 DEF ParametersFit, JoinGroup
  <2>3. PICK next \in Request : CreateRow(r, q.user, g, "MEMBER", next)
    BY <1>13, <2>1, IdleType DEF JoinGroup
  <2>. QED BY <1>13, <2>2, <2>3, CreateRowType, MembershipsAssumption DEF JoinGroup, TypeOK
<1>14. CASE FindMembershipsToMove(r)
  <2>1. [q EXCEPT !.pc = "mrg_move", !.ids = RowsOfUser(q.user)] \in Request
    BY DEF Request, PCs, Checked, RowsOfUser
  <2>. QED BY <1>14, <2>1, BecomeType, IdleType
           DEF FindMembershipsToMove, Reply, database, TypeOK
<1>15. ASSUME NEW i \in Ids, MoveMembership(r, i)
       PROVE  TypeOK'
  <2>1. [q EXCEPT !.ids = @ \ {i}] \in Request
    BY DEF Request
  <2>2. Exists(i) => [row EXCEPT ![i].user = q.base] \in [Ids -> Row]
    BY <1>15, TableType DEF ParametersFit, MoveMembership
  <2>. QED BY <1>15, <2>1, <2>2, BecomeType, CommitType, IdleType
           DEF MoveMembership, Reply, TypeOK
<1>. QED
  BY <1>1, <1>2, <1>3, <1>4, <1>5, <1>6, <1>7, <1>8, <1>9, <1>10, <1>11, <1>12, <1>13,
     <1>14, <1>15 DEF Resume

----------------------------------------------------------------------------
(* What any step does to the table and to the requests that do not act. *)

RowsKeepGroup ==
  /\ nextId <= nextId'
  /\ \A i \in Ids : i < nextId /\ Exists(i)' => Exists(i) /\ row'[i].group = row[i].group
  /\ \A i \in Ids : i >= nextId' => ~Exists(i)'

Waits(q) == req'[q] = [req[q] EXCEPT !.stale = @ \/ Overtaken(q, row')]

Fits(r) == ParametersFit(r) /\ ReadsHold(r)

LEMMA IdleFits ==
  ASSUME NEW r \in Requests, req'[r] = Idle
  PROVE  Fits(r)'
  BY DEF Fits, ParametersFit, ReadsHold, Idle

\* A group that did not change answers every query as before.
LEMMA UnchangedGroup ==
  ASSUME TypeOK, TypeOK', NEW g \in Groups, ~Changed(row', g)
  PROVE  /\ RowsOf(g)' = RowsOf(g)
         /\ OwnersOf(g)' = OwnersOf(g)
         /\ \A u : RowsOfPair(u, g)' = RowsOfPair(u, g)
         /\ \A i \in Ids : row[i].group = g \/ row'[i].group = g => row'[i] = row[i]
<1>1. \A i \in Ids : row[i].group = g \/ row'[i].group = g => row'[i] = row[i]
  BY DEF Changed
<1>. QED BY <1>1 DEF RowsOf, OwnersOf, RowsOfPair, RowsOfUser

\* What a waiting request knows survives the step of another one.
LEMMA OthersFit ==
  ASSUME HandlerInv, TypeOK', RowsKeepGroup, NEW q \in Requests, Waits(q)
  PROVE  Fits(q)'
<1>. req[q] \in Request /\ TypeOK /\ ParametersFit(q) /\ ReadsHold(q)
  BY DEF HandlerInv, TypeOK
<1>1. /\ req'[q].pc = req[q].pc /\ req'[q].group = req[q].group
      /\ req'[q].user = req[q].user /\ req'[q].base = req[q].base
      /\ req'[q].id = req[q].id /\ req'[q].role = req[q].role
      /\ req'[q].ids = req[q].ids
      /\ req'[q].stale = (req[q].stale \/ Overtaken(q, row'))
  BY DEF Waits, Request
<1>2. ParametersFit(q)'
  BY <1>1, MembershipsAssumption DEF ParametersFit, RowsKeepGroup, TypeOK, Ids
<1>3. ASSUME ~req'[q].stale, req[q].pc \in Checked
      PROVE  /\ ~req[q].stale
             /\ req[q].group \in Groups
             /\ ~Changed(row', req[q].group)
  BY <1>1, <1>3 DEF Overtaken, ParametersFit, Checked
<1>4. ASSUME NEW i, row'[i].role = "OWNER"
      PROVE  Exists(i)'
  BY <1>4, MembershipsAssumption DEF Exists, NoRow
<1>5. ASSUME ~req'[q].stale, req[q].pc \in Checked, NEW g, g = req[q].group
      PROVE  /\ req[q].pc = "del_recheck" =>
                  req[q].ids = OwnersOf(g)' /\ ~HasOneElement(RowsOf(g)')
             /\ req[q].pc = "del_write" =>
                  /\ ~HasOneElement(RowsOf(g)')
                  /\ row'[req[q].id].role = "OWNER" => ~HasOneElement(OwnersOf(g)')
             /\ req[q].pc = "upd_write" /\ req[q].role # "OWNER"
                /\ row'[req[q].id].role = "OWNER" => OwnersOf(g)' \ {req[q].id} # {}
             /\ req[q].pc = "add_create" => RowsOfPair(req[q].user, g)' = {}
  <2>1. /\ RowsOf(g)' = RowsOf(g)
        /\ OwnersOf(g)' = OwnersOf(g)
        /\ \A u : RowsOfPair(u, g)' = RowsOfPair(u, g)
    BY <1>3, <1>5, UnchangedGroup
  <2>2. ASSUME req[q].pc \in {"del_write", "upd_write"}, row'[req[q].id].role = "OWNER"
        PROVE  row[req[q].id].role = "OWNER"
    <3>1. req[q].id \in Ids /\ row'[req[q].id].group = g
      BY <1>1, <1>2, <1>4, <1>5, <2>2 DEF ParametersFit
    <3>2. row'[req[q].id] = row[req[q].id]
      BY <3>1, <1>3, <1>5, UnchangedGroup
    <3>. QED BY <3>2, <2>2
  <2>3. \A u : u = req[q].user => RowsOfPair(u, g)' = RowsOfPair(u, g)
    BY <2>1
  <2>4. CASE req[q].pc = "del_recheck"
    BY <2>1, <2>4, <1>3, <1>5 DEF ReadsHold
  <2>5. CASE req[q].pc = "del_write"
    BY <2>1, <2>2, <2>5, <1>3, <1>5 DEF ReadsHold
  <2>6. CASE req[q].pc = "upd_write"
    BY <2>1, <2>2, <2>6, <1>3, <1>5 DEF ReadsHold
  <2>7. CASE req[q].pc = "add_create"
    BY <2>1, <2>7, <1>1, <1>3, <1>5 DEF ReadsHold, RowsOfPair, RowsOf, RowsOfUser
  <2>. QED BY <2>4, <2>5, <2>6, <2>7, <1>5 DEF Checked
<1>6. ReadsHold(q)'
  BY <1>1, <1>3, <1>5 DEF ReadsHold, HasOneElement, Checked, RowsOf, OwnersOf, RowsOfPair, RowsOfUser
<1>. QED BY <1>2, <1>6 DEF Fits

LEMMA CommitWaits ==
  ASSUME NEW r, NEW table, NEW next, Commit(r, table, next)
  PROVE  /\ row' = table
         /\ \A q \in Requests \ {r} : Waits(q)
         /\ r \in Requests => req'[r] = next
  BY DEF Commit, Waits

LEMMA BecomeWaits ==
  ASSUME TypeOK, NEW r \in Requests, NEW next, Become(r, next), row' = row
  PROVE  /\ \A q \in Requests \ {r} : Waits(q)
         /\ req'[r] = next
<1>1. ASSUME NEW q \in Requests
      PROVE  req[q] = [req[q] EXCEPT !.stale = @ \/ Overtaken(q, row')]
  <2>1. req[q] \in Request
    BY DEF TypeOK
  <2>2. ~Overtaken(q, row')
    BY DEF Overtaken, Changed
  <2>3. (req[q].stale \/ Overtaken(q, row')) = req[q].stale
    BY <2>1, <2>2 DEF Request
  <2>. QED BY <2>1, <2>3 DEF Request
<1>. QED BY <1>1 DEF Become, Waits, TypeOK

\* The three ways the table changes, and the one in which it does not.
LEMMA RowsKept ==
  ASSUME HandlerInv, UNCHANGED <<row, nextId>>
  PROVE  RowsKeepGroup
  BY DEF HandlerInv, RowsKeepGroup, TypeOK, Exists

LEMMA RowsRemoved ==
  ASSUME HandlerInv, NEW S \in SUBSET Ids, row' = Remove(S), nextId' = nextId
  PROVE  RowsKeepGroup
  BY DEF HandlerInv, RowsKeepGroup, TypeOK, Exists, Remove

LEMMA RowsInserted ==
  ASSUME HandlerInv, NEW u, NEW g, NEW role, nextId \in Ids, row' = Insert(u, g, role),
         nextId' = nextId + 1
  PROVE  /\ RowsKeepGroup
         /\ \A i \in Ids : i # nextId => row'[i] = row[i]
         /\ row'[nextId] = [group |-> g, user |-> u, role |-> role]
<1>1. /\ \A i \in Ids : i # nextId => row'[i] = row[i]
      /\ row'[nextId] = [group |-> g, user |-> u, role |-> role]
  BY DEF HandlerInv, TypeOK, Insert
<1>. QED BY <1>1, MembershipsAssumption DEF HandlerInv, RowsKeepGroup, TypeOK, Exists, Ids

\* An update of a row that exists changes its role, or its user in a merge.
LEMMA RowsUpdated ==
  ASSUME HandlerInv, NEW i \in Ids, Exists(i), nextId' = nextId, row' \in [Ids -> Row],
         \A j \in Ids : j # i => row'[j] = row[j],
         row'[i].group = row[i].group
  PROVE  RowsKeepGroup
  BY DEF HandlerInv, RowsKeepGroup, TypeOK, Exists

\* Inserting a row that connects to an existing user and group, or failing to.
LEMMA CreateRowStep ==
  ASSUME HandlerInv, NEW r \in Requests, NEW u \in Users, NEW g \in Groups,
         NEW role \in Roles, NEW next, CreateRow(r, u, g, role, next),
         UNCHANGED <<users, groups, domain>>
  PROVE  /\ RowsKeepGroup
         /\ NoDanglingRows'
         /\ \A q \in Requests \ {r} : Waits(q)
         /\ req'[r] \in {Idle, next}
<1>1. CASE u \in users /\ g \in groups /\ nextId \in Ids
  <2>1. Commit(r, Insert(u, g, role), next) /\ nextId' = nextId + 1
    BY <1>1 DEF CreateRow
  <2>2. row' = Insert(u, g, role)
    BY <2>1, CommitWaits
  <2>3. /\ RowsKeepGroup
        /\ \A i \in Ids : i # nextId => row'[i] = row[i]
        /\ row'[nextId] = [group |-> g, user |-> u, role |-> role]
    BY <1>1, <2>1, <2>2, RowsInserted
  <2>4. NoDanglingRows'
    BY <2>3, <1>1 DEF HandlerInv, NoDanglingRows, Exists
  <2>. QED BY <2>1, <2>3, <2>4, CommitWaits
<1>2. CASE ~(u \in users /\ g \in groups /\ nextId \in Ids)
  <2>1. Become(r, Idle) /\ UNCHANGED <<row, nextId>>
    BY <1>2 DEF CreateRow, Reply
  <2>. QED BY <2>1, BecomeWaits, RowsKept DEF HandlerInv, NoDanglingRows, Exists
<1>. QED BY <1>1, <1>2

----------------------------------------------------------------------------
(* Every step of a request keeps the invariant. *)

Keeps(r) ==
  /\ RowsKeepGroup
  /\ NoDanglingRows'
  /\ \A q \in Requests \ {r} : Waits(q)
  /\ Fits(r)'

\* A step that only moves the request on.
LEMMA BecomeKeeps ==
  ASSUME HandlerInv, NEW r \in Requests, NEW next, Become(r, next),
         UNCHANGED <<domain, row, nextId>>, groups \subseteq groups', users \subseteq users',
         req'[r] = next => Fits(r)'
  PROVE  Keeps(r)
  BY BecomeWaits, RowsKept DEF HandlerInv, Keeps, NoDanglingRows, Exists

LEMMA ReplyKeeps ==
  ASSUME HandlerInv, NEW r \in Requests, Reply(r), UNCHANGED database
  PROVE  Keeps(r)
  BY BecomeKeeps, IdleFits DEF Reply, database

LEMMA ArriveKeeps ==
  ASSUME HandlerInv, NEW r \in Requests, Arrive(r), TypeOK'
  PROVE  Keeps(r)
<1>. TypeOK
  BY DEF HandlerInv
<1>1. ASSUME NEW i \in Ids, BeginDelete(r, i)
      PROVE  Keeps(r)
  <2>1. row[i].group \in Groups /\ i < nextId
    BY <1>1 DEF BeginDelete, HandlerInv, TypeOK, Row, Exists, Ids
  <2>2. ASSUME req'[r] = [Idle EXCEPT !.pc = "del_list", !.id = i, !.group = row[i].group]
        PROVE  Fits(r)'
    BY <1>1, <2>1, <2>2
       DEF BeginDelete, database, Fits, ParametersFit, ReadsHold, Idle, Exists
  <2>. QED BY <1>1, <2>2, BecomeKeeps DEF BeginDelete, database
<1>2. ASSUME NEW i \in Ids, NEW g \in Groups, NEW role \in Roles \cup {None},
             UpdateGroupMembership(r, g, i, role)
      PROVE  Keeps(r)
  <2>1. Exists(i) /\ i < nextId
    BY <1>2, MembershipsAssumption
       DEF UpdateGroupMembership, HandlerInv, TypeOK, Exists, NoRow, Ids
  <2>2. ASSUME NEW pc \in {"upd_count", "upd_write"},
               pc = "upd_write" => ~(row[i].role = "OWNER" /\ role # "OWNER"),
               req'[r] = [Idle EXCEPT !.pc = pc, !.id = i, !.group = g, !.role = role]
        PROVE  Fits(r)'
    BY <1>2, <2>1, <2>2
       DEF UpdateGroupMembership, database, Fits, ParametersFit, ReadsHold, Idle, Exists
  <2>. QED BY <1>2, <2>2, BecomeKeeps DEF UpdateGroupMembership, database
<1>3. ASSUME NEW g \in Groups, NEW u \in Users, NEW role \in Roles \cup {None},
             CreateGroupMembership(r, g, u, role)
      PROVE  Keeps(r)
  BY <1>3, BecomeKeeps, ZenonT(40)
     DEF CreateGroupMembership, database, Fits, ParametersFit, ReadsHold, Idle
<1>4. ASSUME NEW g \in Groups, DeleteGroup(r, g)
      PROVE  Keeps(r)
  BY <1>4, BecomeKeeps DEF DeleteGroup, database, Fits, ParametersFit, ReadsHold, Idle
<1>5. ASSUME NEW u \in Users, DeleteUser(r, u) \/ VerifyEmail(r, u)
      PROVE  Keeps(r)
  BY <1>5, BecomeKeeps, ZenonT(40)
     DEF DeleteUser, VerifyEmail, database, Fits, ParametersFit, ReadsHold, Idle
<1>6. ASSUME NEW base \in Users, NEW other \in Users, MergeUsers(r, base, other)
      PROVE  Keeps(r)
  BY <1>6, BecomeKeeps, ZenonT(40) DEF MergeUsers, database, Fits, ParametersFit, ReadsHold, Idle
<1>. QED
  BY <1>1, <1>2, <1>3, <1>4, <1>5, <1>6
     DEF Arrive, DeleteUserMembership, DeleteGroupMembership

\* The checks of a membership delete, and its write.
LEMMA DeleteKeeps ==
  ASSUME HandlerInv, NEW r \in Requests, TypeOK',
         VerifyDeleteMembership(r) \/ RereadMembership(r) \/ DeleteMembershipRow(r)
  PROVE  Keeps(r)
<1>. DEFINE q == req[r]
<1>. q \in Request /\ ParametersFit(r) /\ ReadsHold(r) /\ TypeOK
  BY DEF HandlerInv, TypeOK
<1>1. CASE VerifyDeleteMembership(r)
  <2>1. CASE HasOneElement(RowsOf(q.group))
    BY <1>1, <2>1, ReplyKeeps DEF VerifyDeleteMembership
  <2>2. CASE ~HasOneElement(RowsOf(q.group))
    <3>1. Become(r, [q EXCEPT !.pc = "del_recheck", !.ids = OwnersOf(q.group)])
          /\ q.pc = "del_list" /\ UNCHANGED database
      BY <1>1, <2>2 DEF VerifyDeleteMembership
    <3>2. ASSUME req'[r] = [q EXCEPT !.pc = "del_recheck", !.ids = OwnersOf(q.group)]
          PROVE  Fits(r)'
      <4>1. /\ req'[r].pc = "del_recheck" /\ req'[r].ids = OwnersOf(q.group)
            /\ req'[r].group = q.group /\ req'[r].id = q.id
        BY <3>2 DEF Request
      <4>. QED BY <4>1, <3>1, <2>2 DEF Fits, ParametersFit, ReadsHold, database, Exists, OwnersOf, RowsOf, HasOneElement
    <3>. QED BY <3>1, <3>2, BecomeKeeps DEF database
  <2>. QED BY <2>1, <2>2
<1>2. CASE RereadMembership(r)
  <2>. DEFINE soleOwner == row[q.id].role = "OWNER" /\ HasOneElement(q.ids)
  <2>1. CASE ~Exists(q.id) \/ soleOwner
    BY <1>2, <2>1, ReplyKeeps DEF RereadMembership
  <2>2. CASE ~(~Exists(q.id) \/ soleOwner)
    <3>1. Become(r, [q EXCEPT !.pc = "del_write", !.ids = {}])
          /\ q.pc = "del_recheck" /\ UNCHANGED database
      BY <1>2, <2>2 DEF RereadMembership
    <3>2. ASSUME req'[r] = [q EXCEPT !.pc = "del_write", !.ids = {}]
          PROVE  Fits(r)'
      <4>1. /\ req'[r].pc = "del_write" /\ req'[r].stale = q.stale
            /\ req'[r].group = q.group /\ req'[r].id = q.id
        BY <3>2 DEF Request
      <4>. QED BY <4>1, <3>1, <2>2 DEF Fits, ParametersFit, ReadsHold, database, Exists, OwnersOf, RowsOf, HasOneElement
    <3>. QED BY <3>1, <3>2, BecomeKeeps DEF database
  <2>. QED BY <2>1, <2>2
<1>3. CASE DeleteMembershipRow(r)
  <2>1. CASE Exists(q.id)
    <3>1. Commit(r, Remove({q.id}), Idle) /\ q.id \in Ids
          /\ UNCHANGED <<users, groups, domain, nextId>>
      BY <1>3, <2>1 DEF DeleteMembershipRow, ParametersFit
    <3>2. row' = Remove({q.id}) /\ req'[r] = Idle
      BY <3>1, CommitWaits
    <3>3. NoDanglingRows'
      BY <3>1, <3>2 DEF HandlerInv, NoDanglingRows, Exists, Remove
    <3>. QED BY <3>1, <3>2, <3>3, CommitWaits, RowsRemoved, IdleFits DEF Keeps
  <2>2. CASE ~Exists(q.id)
    BY <1>3, <2>2, ReplyKeeps DEF DeleteMembershipRow, database
  <2>. QED BY <2>1, <2>2
<1>. QED BY <1>1, <1>2, <1>3

\* The owner count of a role update, and the two writes of a role.
LEMMA UpdateKeeps ==
  ASSUME HandlerInv, NEW r \in Requests, TypeOK',
         CountOtherOwners(r) \/ WriteRole(r) \/ OverwriteRole(r)
  PROVE  Keeps(r)
<1>. DEFINE q == req[r]
<1>. q \in Request /\ ParametersFit(r) /\ ReadsHold(r) /\ TypeOK
  BY DEF HandlerInv, TypeOK
<1>1. CASE CountOtherOwners(r)
  <2>1. CASE OwnersOf(q.group) \ {q.id} = {}
    BY <1>1, <2>1, ReplyKeeps DEF CountOtherOwners
  <2>2. CASE OwnersOf(q.group) \ {q.id} # {}
    <3>1. Become(r, [q EXCEPT !.pc = "upd_write"]) /\ q.pc = "upd_count" /\ UNCHANGED database
      BY <1>1, <2>2 DEF CountOtherOwners
    <3>2. ASSUME req'[r] = [q EXCEPT !.pc = "upd_write"]
          PROVE  Fits(r)'
      <4>1. /\ req'[r].pc = "upd_write" /\ req'[r].group = q.group /\ req'[r].id = q.id
        BY <3>2 DEF Request
      <4>. QED BY <4>1, <3>1, <2>2 DEF Fits, ParametersFit, ReadsHold, database, Exists, OwnersOf, RowsOf
    <3>. QED BY <3>1, <3>2, BecomeKeeps DEF database
  <2>. QED BY <2>1, <2>2
<1>2. CASE WriteRole(r) \/ OverwriteRole(r)
  <2>1. CASE Exists(q.id)
    <3>1. Commit(r, SetRole(q.id, q.role), Idle) /\ q.id \in Ids
          /\ UNCHANGED <<users, groups, domain, nextId>>
      BY <1>2, <2>1 DEF WriteRole, OverwriteRole, ParametersFit
    <3>2. row' = SetRole(q.id, q.role) /\ req'[r] = Idle
      BY <3>1, CommitWaits
    <3>3. /\ \A j \in Ids : j # q.id => row'[j] = row[j]
          /\ row'[q.id].group = row[q.id].group /\ row'[q.id].user = row[q.id].user
      BY <3>1, <3>2, <2>1 DEF SetRole, TypeOK, Row, Exists
    <3>4. NoDanglingRows'
      BY <3>1, <3>3, <2>1 DEF HandlerInv, NoDanglingRows, Exists
    <3>5. RowsKeepGroup
      BY <3>1, <3>3, <2>1, RowsUpdated DEF TypeOK
    <3>. QED BY <3>1, <3>2, <3>4, <3>5, CommitWaits, IdleFits DEF Keeps
  <2>2. CASE ~Exists(q.id)
    BY <1>2, <2>2, ReplyKeeps DEF WriteRole, OverwriteRole, database
  <2>. QED BY <2>1, <2>2
<1>. QED BY <1>1, <1>2

\* Adding a member, by hand or by its verified email.
LEMMA AddKeeps ==
  ASSUME HandlerInv, NEW r \in Requests, TypeOK',
         \/ FindMembership(r) \/ AddMember(r)
         \/ FindGroupsToJoin(r) \/ (\E g \in Groups : JoinGroup(r, g))
  PROVE  Keeps(r)
<1>. DEFINE q == req[r]
<1>. q \in Request /\ ParametersFit(r) /\ ReadsHold(r) /\ TypeOK
  BY DEF HandlerInv, TypeOK
<1>1. CASE FindMembership(r)
  <2>1. ASSUME RowsOfPair(q.user, q.group) = {}, q.pc = "add_find", UNCHANGED row,
               req'[r] = [q EXCEPT !.pc = "add_create"]
        PROVE  Fits(r)'
    <3>1. /\ req'[r].pc = "add_create" /\ req'[r].group = q.group /\ req'[r].user = q.user
      BY <2>1 DEF Request
    <3>. QED BY <3>1, <2>1 DEF Fits, ParametersFit, ReadsHold, RowsOfPair, RowsOf, RowsOfUser
  <2>2. ASSUME NEW i \in Ids, req'[r] = [q EXCEPT !.pc = "add_update", !.id = i]
        PROVE  Fits(r)'
    <3>1. req'[r].pc = "add_update" /\ req'[r].id = i
      BY <2>2 DEF Request
    <3>. QED BY <3>1, <2>2 DEF Fits, ParametersFit, ReadsHold
  <2>. QED BY <1>1, <2>1, <2>2, BecomeKeeps
           DEF FindMembership, RowsOfPair, RowsOf, database
<1>2. CASE AddMember(r)
  <2>1. (IF q.role = None THEN "MEMBER" ELSE q.role) \in Roles
    BY MembershipsAssumption DEF Request
  <2>2. q.user \in Users /\ q.group \in Groups
    BY <1>2 DEF ParametersFit, AddMember
  <2>. QED BY <1>2, <2>1, <2>2, CreateRowStep, IdleFits DEF AddMember, Keeps
<1>3. CASE FindGroupsToJoin(r)
  <2>1. ASSUME NEW S, q.pc = "join_find", req'[r] = [q EXCEPT !.pc = "join_write", !.joins = S]
        PROVE  Fits(r)'
    <3>1. req'[r].pc = "join_write" /\ req'[r].user = q.user
      BY <2>1 DEF Request
    <3>. QED BY <3>1, <2>1 DEF Fits, ParametersFit, ReadsHold
  <2>. QED BY <1>3, <2>1, BecomeKeeps, ReplyKeeps DEF FindGroupsToJoin, database
<1>4. ASSUME NEW g \in Groups, JoinGroup(r, g)
      PROVE  Keeps(r)
  <2>1. q.pc = "join_write" /\ q.user \in Users
    BY <1>4 DEF ParametersFit, JoinGroup
  <2>2. PICK next \in {Idle, [q EXCEPT !.joins = q.joins \ {g}]} :
               CreateRow(r, q.user, g, "MEMBER", next)
    BY <1>4 DEF JoinGroup
  <2>3. RowsKeepGroup /\ NoDanglingRows' /\ (\A p \in Requests \ {r} : Waits(p))
        /\ req'[r] \in {Idle, next}
    BY <1>4, <2>1, <2>2, CreateRowStep, MembershipsAssumption DEF JoinGroup
  <2>4. ASSUME req'[r] = [q EXCEPT !.joins = q.joins \ {g}]
        PROVE  Fits(r)'
    <3>1. req'[r].pc = "join_write" /\ req'[r].user = q.user
      BY <2>1, <2>4 DEF Request
    <3>. QED BY <3>1, <2>1 DEF Fits, ParametersFit, ReadsHold
  <2>. QED BY <2>2, <2>3, <2>4, IdleFits DEF Keeps
<1>. QED BY <1>1, <1>2, <1>3, <1>4

\* deleteGroup and deleteUser.
LEMMA RemoveKeeps ==
  ASSUME HandlerInv, NEW r \in Requests, TypeOK',
         \/ DeleteGroupMembers(r) \/ DeleteGroupRow(r)
         \/ DeleteUserMembers(r) \/ DeleteUserRow(r)
  PROVE  Keeps(r)
<1>. DEFINE q == req[r]
<1>. q \in Request /\ ParametersFit(r) /\ TypeOK
  BY DEF HandlerInv, TypeOK
<1>1. ASSUME NEW S \in SUBSET Ids, NEW next, Commit(r, Remove(S), next),
             UNCHANGED <<users, groups, domain, nextId>>, req'[r] = next => Fits(r)'
      PROVE  Keeps(r)
  <2>1. row' = Remove(S) /\ req'[r] = next /\ \A p \in Requests \ {r} : Waits(p)
    BY <1>1, CommitWaits
  <2>2. NoDanglingRows'
    BY <1>1, <2>1 DEF HandlerInv, NoDanglingRows, Exists, Remove
  <2>. QED BY <1>1, <2>1, <2>2, RowsRemoved DEF Keeps
<1>2. CASE DeleteGroupMembers(r)
  <2>1. ASSUME req'[r] = [q EXCEPT !.pc = "grp_delete"]
        PROVE  Fits(r)'
    <3>1. req'[r].pc = "grp_delete" /\ req'[r].group = q.group
      BY <2>1 DEF Request
    <3>. QED BY <3>1, <1>2 DEF Fits, ParametersFit, ReadsHold, DeleteGroupMembers
  <2>2. RowsOf(q.group) \in SUBSET Ids
    BY DEF RowsOf
  <2>. QED BY <1>1, <1>2, <2>1, <2>2 DEF DeleteGroupMembers
<1>3. CASE DeleteGroupRow(r)
  <2>1. /\ \/ groups' = groups
           \/ /\ groups' = groups \ {q.group}
              /\ RowsOf(q.group) = {} /\ domain[q.group] = "none"
        /\ Become(r, Idle) /\ UNCHANGED <<users, domain, row, nextId>>
    BY <1>3 DEF DeleteGroupRow, Reply
  <2>2. NoDanglingRows'
    BY <2>1 DEF HandlerInv, NoDanglingRows, Exists, RowsOf
  <2>. QED BY <2>1, <2>2, BecomeWaits, RowsKept, IdleFits DEF Keeps
<1>4. CASE DeleteUserMembers(r)
  <2>1. ASSUME req'[r] = [q EXCEPT !.pc = "usr_delete"]
        PROVE  Fits(r)'
    <3>1. req'[r].pc = "usr_delete" /\ req'[r].user = q.user
      BY <2>1 DEF Request
    <3>. QED BY <3>1, <1>4 DEF Fits, ParametersFit, ReadsHold, DeleteUserMembers
  <2>2. RowsOfUser(q.user) \in SUBSET Ids
    BY DEF RowsOfUser
  <2>. QED BY <1>1, <1>4, <2>1, <2>2 DEF DeleteUserMembers
<1>5. CASE DeleteUserRow(r)
  <2>1. /\ \/ users' = users
           \/ users' = users \ {q.user} /\ RowsOfUser(q.user) = {}
        /\ Become(r, Idle) /\ UNCHANGED <<groups, domain, row, nextId>>
    BY <1>5 DEF DeleteUserRow, RemoveUser, Reply
  <2>2. NoDanglingRows'
    BY <2>1 DEF HandlerInv, NoDanglingRows, Exists, RowsOfUser
  <2>. QED BY <2>1, <2>2, BecomeWaits, RowsKept, IdleFits DEF Keeps
<1>. QED BY <1>2, <1>3, <1>4, <1>5

LEMMA MergeKeeps ==
  ASSUME HandlerInv, NEW r \in Requests, TypeOK',
         \/ FindMembershipsToMove(r) \/ (\E i \in Ids : MoveMembership(r, i))
         \/ DeleteMergedUser(r)
  PROVE  Keeps(r)
<1>. DEFINE q == req[r]
<1>. q \in Request /\ ParametersFit(r) /\ TypeOK
  BY DEF HandlerInv, TypeOK
<1>1. ASSUME NEW S, req'[r] = [q EXCEPT !.pc = "mrg_move", !.ids = S],
             q.pc \in {"mrg_find", "mrg_move"}
      PROVE  Fits(r)'
  <2>1. req'[r].pc = "mrg_move" /\ req'[r].user = q.user /\ req'[r].base = q.base
    BY <1>1 DEF Request
  <2>. QED BY <2>1, <1>1 DEF Fits, ParametersFit, ReadsHold
<1>2. CASE FindMembershipsToMove(r)
  BY <1>1, <1>2, BecomeKeeps, ReplyKeeps DEF FindMembershipsToMove, database
<1>3. ASSUME NEW i \in Ids, MoveMembership(r, i)
      PROVE  Keeps(r)
  <2>1. CASE Exists(i) /\ q.base \in users
    <3>1. Commit(r, [row EXCEPT ![i].user = q.base], [q EXCEPT !.ids = @ \ {i}])
          /\ q.pc = "mrg_move" /\ UNCHANGED <<users, groups, domain, nextId>>
      BY <1>3, <2>1 DEF MoveMembership
    <3>2. row' = [row EXCEPT ![i].user = q.base] /\ req'[r] = [q EXCEPT !.ids = @ \ {i}]
      BY <3>1, CommitWaits
    <3>3. /\ \A j \in Ids : j # i => row'[j] = row[j]
          /\ row'[i].group = row[i].group /\ row'[i].user = q.base
      BY <3>2, <2>1 DEF TypeOK, Row, Exists
    <3>4. NoDanglingRows'
      BY <3>1, <3>3, <2>1 DEF HandlerInv, NoDanglingRows, Exists
    <3>5. RowsKeepGroup
      BY <3>1, <3>3, <2>1, RowsUpdated DEF TypeOK
    <3>6. Fits(r)'
      <4>1. [q EXCEPT !.ids = @ \ {i}] = [q EXCEPT !.pc = "mrg_move", !.ids = q.ids \ {i}]
        BY <3>1 DEF Request
      <4>. QED BY <4>1, <3>1, <3>2, <1>1
    <3>. QED BY <3>1, <3>4, <3>5, <3>6, CommitWaits DEF Keeps
  <2>2. CASE ~(Exists(i) /\ q.base \in users)
    BY <1>3, <2>2, ReplyKeeps DEF MoveMembership, database
  <2>. QED BY <2>1, <2>2
<1>4. CASE DeleteMergedUser(r)
  <2>1. /\ \/ users' = users
           \/ users' = users \ {q.user} /\ RowsOfUser(q.user) = {}
        /\ Become(r, Idle) /\ UNCHANGED <<groups, domain, row, nextId>>
    BY <1>4 DEF DeleteMergedUser, RemoveUser, Reply
  <2>2. NoDanglingRows'
    BY <2>1 DEF HandlerInv, NoDanglingRows, Exists, RowsOfUser
  <2>. QED BY <2>1, <2>2, BecomeWaits, RowsKept, IdleFits DEF Keeps
<1>. QED BY <1>2, <1>3, <1>4

LEMMA CreateKeeps ==
  ASSUME HandlerInv, TypeOK', NEW u \in Users, NEW g \in Groups, CreateUserMembership(u, g)
  PROVE  RowsKeepGroup /\ NoDanglingRows' /\ \A q \in Requests : Waits(q)
<1>1. Commit(None, Insert(u, g, "OWNER"), Idle) /\ nextId \in Ids /\ nextId' = nextId + 1
      /\ u \in users /\ groups' = groups \cup {g} /\ UNCHANGED <<users, domain>>
  BY DEF CreateUserMembership
<1>2. None \notin Requests
  BY MembershipsAssumption
<1>3. row' = Insert(u, g, "OWNER") /\ \A q \in Requests : Waits(q)
  BY <1>1, <1>2, CommitWaits
<1>4. /\ RowsKeepGroup
      /\ \A i \in Ids : i # nextId => row'[i] = row[i]
      /\ row'[nextId] = [group |-> g, user |-> u, role |-> "OWNER"]
  BY <1>1, <1>3, RowsInserted
<1>5. NoDanglingRows'
  BY <1>1, <1>4 DEF HandlerInv, NoDanglingRows, Exists
<1>. QED BY <1>3, <1>4, <1>5

(***************************************************************************)
(* Types, foreign keys, unique row ids and the reads of every handler in   *)
(* flight are as HandlerInv says in every state the service reaches.       *)
(***************************************************************************)
THEOREM HandlersCorrect == Spec => []HandlerInv
<1>1. Init => HandlerInv
  <2>. SUFFICES ASSUME Init PROVE HandlerInv
    OBVIOUS
  <2>1. TypeOK
    BY IdleType, MembershipsAssumption DEF Init, TypeOK, Row
  <2>2. \A r \in Requests : ParametersFit(r) /\ ReadsHold(r)
    BY DEF Init, ParametersFit, ReadsHold, Idle
  <2>. QED BY <2>1, <2>2 DEF Init, HandlerInv, NoDanglingRows, Exists
<1>2. HandlerInv /\ [Next]_vars => HandlerInv'
  <2>. SUFFICES ASSUME HandlerInv, [Next]_vars PROVE HandlerInv'
    OBVIOUS
  <2>. TypeOK /\ \A r \in Requests : ParametersFit(r)
    BY DEF HandlerInv
  <2>1. ASSUME NEW r \in Requests, TypeOK', Keeps(r)
        PROVE  HandlerInv'
    BY <2>1, OthersFit DEF Keeps, HandlerInv, RowsKeepGroup, Fits
  <2>2. ASSUME TypeOK', RowsKeepGroup, NoDanglingRows', \A q \in Requests : Waits(q)
        PROVE  HandlerInv'
    BY <2>2, OthersFit DEF HandlerInv, RowsKeepGroup, Fits
  <2>3. ASSUME UNCHANGED <<row, nextId, req>>, TypeOK', NoDanglingRows'
        PROVE  HandlerInv'
    BY <2>3 DEF HandlerInv, ParametersFit, ReadsHold, Exists, RowsOf, OwnersOf, RowsOfPair,
                RowsOfUser, HasOneElement
  <2>4. CASE \E u \in Users : Register(u)
    BY <2>3, <2>4 DEF Register, TypeOK, HandlerInv, NoDanglingRows, Exists
  <2>5. ASSUME NEW u \in Users, NEW g \in Groups, CreateUserMembership(u, g)
        PROVE  HandlerInv'
    <3>1. Commit(None, Insert(u, g, "OWNER"), Idle) /\ nextId \in Ids
      BY <2>5 DEF CreateUserMembership
    <3>2. Insert(u, g, "OWNER") \in [Ids -> Row]
      BY <3>1, TableType, MembershipsAssumption
    <3>3. row' \in [Ids -> Row] /\ req' \in [Requests -> Request]
      BY <3>1, <3>2, CommitType, IdleType
    <3>4. TypeOK'
      BY <3>1, <3>3, <2>5, MembershipsAssumption DEF CreateUserMembership, TypeOK, Ids
    <3>. QED BY <3>4, <2>2, <2>5, CreateKeeps
  <2>6. CASE \E g \in Groups : CreateDomain(g) \/ VerifyDomain(g) \/ DeleteDomain(g)
    BY <2>3, <2>6
       DEF CreateDomain, VerifyDomain, DeleteDomain, TypeOK, HandlerInv, NoDanglingRows, Exists
  <2>7. ASSUME NEW r \in Requests, Arrive(r)
        PROVE  HandlerInv'
    <3>1. TypeOK'
      BY <2>7, ArriveType DEF TypeOK, database
    <3>. QED BY <3>1, <2>1, <2>7, ArriveKeeps
  <2>8. ASSUME NEW r \in Requests, Resume(r)
        PROVE  HandlerInv'
    <3>1. TypeOK'
      BY <2>8, ResumeType
    <3>2. Keeps(r)
      BY <3>1, <2>8, DeleteKeeps, UpdateKeeps, AddKeeps, RemoveKeeps, MergeKeeps DEF Resume
    <3>. QED BY <3>1, <3>2, <2>1
  <2>9. ASSUME NEW r \in Requests, Abort(r)
        PROVE  HandlerInv'
    <3>1. TypeOK'
      BY <2>9, BecomeType, IdleType DEF Abort, Reply, database, TypeOK
    <3>. QED BY <3>1, <2>1, <2>9, ReplyKeeps DEF Abort
  <2>10. CASE UNCHANGED vars
    BY <2>3, <2>10 DEF vars, HandlerInv, TypeOK, NoDanglingRows, Exists
  <2>. QED BY <2>4, <2>5, <2>6, <2>7, <2>8, <2>9, <2>10 DEF Next
<1>. QED BY <1>1, <1>2, PTL DEF Spec

(***************************************************************************)
(* Every variable keeps its type.                                          *)
(***************************************************************************)
THEOREM TypeCorrect == Spec => []TypeOK
<1>1. HandlerInv => TypeOK
  BY DEF HandlerInv
<1>. QED BY <1>1, HandlersCorrect, PTL

----------------------------------------------------------------------------
(* The action properties, from HandlerInv and the ways the table changes. *)

InsertsRow(u, g) ==
  /\ nextId \in Ids
  /\ \E role \in Roles : row' = Insert(u, g, role)

\* A step of a request writes table Membership at one of these points or not at all.
Writes(r) ==
  LET q == req[r] IN
  \/ q.pc = "del_write" /\ Exists(q.id) /\ row' = Remove({q.id})
  \/ q.pc \in {"upd_write", "add_update"} /\ Exists(q.id) /\ row' = SetRole(q.id, q.role)
  \/ q.pc \in {"grp_members", "usr_members"} /\ \E S \in SUBSET Ids : row' = Remove(S)
  \/ q.pc = "add_create" /\ InsertsRow(q.user, q.group)
  \/ q.pc = "join_write" /\ \E g \in Groups : InsertsRow(q.user, g)
  \/ /\ q.pc = "mrg_move"
     /\ \E i \in Ids : Exists(i) /\ row' = [row EXCEPT ![i].user = q.base]

LEMMA ActsIfMoved ==
  ASSUME TypeOK, NEW r \in Requests, req'[r] \in Request,
         \/ req'[r].pc # req[r].pc
         \/ req'[r].ids # req[r].ids
         \/ req'[r].joins # req[r].joins
  PROVE  Acts(r)
<1>. DEFINE before == [req[r] EXCEPT !.stale = FALSE]
            after == [req'[r] EXCEPT !.stale = FALSE]
<1>1. req[r] \in Request
  BY DEF TypeOK
<1>2. /\ before.pc = req[r].pc /\ before.ids = req[r].ids /\ before.joins = req[r].joins
      /\ after.pc = req'[r].pc /\ after.ids = req'[r].ids /\ after.joins = req'[r].joins
  BY <1>1 DEF Request
<1>3. before # after
  BY <1>2
<1>. QED BY <1>3 DEF Acts

LEMMA ResumeWrites ==
  ASSUME HandlerInv, NEW r \in Requests, Resume(r), row' # row
  PROVE  Writes(r) /\ Acts(r)
<1>. DEFINE q == req[r]
<1>. q \in Request /\ TypeOK /\ ParametersFit(r)
  BY DEF HandlerInv, TypeOK
<1>1. TypeOK'
  BY ResumeType
<1>2. req'[r] \in Request
  BY <1>1 DEF TypeOK
<1>3. ASSUME NEW pc, q.pc = pc, pc # "idle", NEW table, Commit(r, table, Idle)
      PROVE  Acts(r)
  BY <1>2, <1>3, CommitWaits, ActsIfMoved DEF Idle
<1>4. CASE DeleteMembershipRow(r)
  <2>1. q.pc = "del_write" /\ Exists(q.id) /\ Commit(r, Remove({q.id}), Idle)
    BY <1>4 DEF DeleteMembershipRow
  <2>2. row' = Remove({q.id})
    BY <2>1 DEF Commit
  <2>3. Acts(r)
    BY <1>3, <2>1
  <2>. QED BY <2>1, <2>2, <2>3 DEF Writes
<1>10. ASSUME q.pc \in {"upd_write", "add_update"}, Exists(q.id),
              Commit(r, SetRole(q.id, q.role), Idle)
       PROVE  Writes(r) /\ Acts(r)
  <2>1. row' = SetRole(q.id, q.role)
    BY <1>10 DEF Commit
  <2>2. Acts(r)
    BY <1>3, <1>10
  <2>. QED BY <1>10, <2>1, <2>2 DEF Writes
<1>11. CASE WriteRole(r)
  BY <1>10, <1>11 DEF WriteRole
<1>12. CASE OverwriteRole(r)
  BY <1>10, <1>12 DEF OverwriteRole
<1>5. CASE AddMember(r)
  <2>1. (IF q.role = None THEN "MEMBER" ELSE q.role) \in Roles
    BY MembershipsAssumption DEF Request
  <2>2. nextId \in Ids
        /\ Commit(r, Insert(q.user, q.group, IF q.role = None THEN "MEMBER" ELSE q.role), Idle)
    BY <1>5 DEF AddMember, CreateRow
  <2>3. row' = Insert(q.user, q.group, IF q.role = None THEN "MEMBER" ELSE q.role)
    BY <2>2 DEF Commit
  <2>. QED BY <1>3, <1>5, <2>1, <2>2, <2>3 DEF AddMember, Writes, InsertsRow
<1>6. CASE DeleteGroupMembers(r)
  <2>1. Commit(r, Remove(RowsOf(q.group)), [q EXCEPT !.pc = "grp_delete"])
        /\ q.pc = "grp_members"
    BY <1>6 DEF DeleteGroupMembers
  <2>2. req'[r].pc = "grp_delete" /\ row' = Remove(RowsOf(q.group))
    BY <2>1, CommitWaits DEF Request
  <2>. QED BY <1>2, <2>1, <2>2, ActsIfMoved DEF Writes, RowsOf
<1>7. CASE DeleteUserMembers(r)
  <2>1. Commit(r, Remove(RowsOfUser(q.user)), [q EXCEPT !.pc = "usr_delete"])
        /\ q.pc = "usr_members"
    BY <1>7 DEF DeleteUserMembers
  <2>2. req'[r].pc = "usr_delete" /\ row' = Remove(RowsOfUser(q.user))
    BY <2>1, CommitWaits DEF Request
  <2>. QED BY <1>2, <2>1, <2>2, ActsIfMoved DEF Writes, RowsOfUser
<1>8. ASSUME NEW g \in Groups, JoinGroup(r, g)
      PROVE  Writes(r) /\ Acts(r)
  <2>. DEFINE rest == q.joins \ {g}
              next == IF rest = {} THEN Idle ELSE [q EXCEPT !.joins = rest]
  <2>1. /\ q.pc = "join_write" /\ g \in q.joins /\ nextId \in Ids
        /\ Commit(r, Insert(q.user, g, "MEMBER"), next)
    BY <1>8 DEF JoinGroup, CreateRow
  <2>2. row' = Insert(q.user, g, "MEMBER") /\ req'[r] = next
    BY <2>1, CommitWaits DEF Commit
  <2>3. req'[r].pc # q.pc \/ req'[r].joins # q.joins
    BY <2>1, <2>2 DEF Idle, Request
  <2>4. Acts(r)
    BY <1>2, <2>3, ActsIfMoved
  <2>. QED
    BY <2>1, <2>2, <2>4, MembershipsAssumption DEF Writes, InsertsRow
<1>9. ASSUME NEW i \in Ids, MoveMembership(r, i)
      PROVE  Writes(r) /\ Acts(r)
  <2>1. /\ q.pc = "mrg_move" /\ i \in q.ids /\ Exists(i)
        /\ Commit(r, [row EXCEPT ![i].user = q.base], [q EXCEPT !.ids = @ \ {i}])
    BY <1>9 DEF MoveMembership
  <2>2. /\ row' = [row EXCEPT ![i].user = q.base]
        /\ req'[r] = [q EXCEPT !.ids = @ \ {i}]
    BY <2>1, CommitWaits DEF Commit
  <2>3. req'[r].ids # q.ids
    BY <2>1, <2>2 DEF Request
  <2>4. Acts(r)
    BY <1>2, <2>3, ActsIfMoved
  <2>. QED BY <2>1, <2>2, <2>4 DEF Writes
<1>. QED
  BY <1>4, <1>5, <1>6, <1>7, <1>8, <1>9, <1>11, <1>12
     DEF Resume, VerifyDeleteMembership, RereadMembership, CountOtherOwners, FindMembership,
         DeleteGroupRow, DeleteUserRow, FindGroupsToJoin, FindMembershipsToMove,
         DeleteMergedUser, database

\* Everything else that writes the table is the create of a group.
LEMMA NextWrites ==
  ASSUME HandlerInv, Next, row' # row
  PROVE  \/ \E r \in Requests : Writes(r) /\ Acts(r)
         \/ \E u \in Users, g \in Groups \ groups : InsertsRow(u, g)
<1>1. CASE \E r \in Requests : Resume(r)
  BY <1>1, ResumeWrites
<1>2. CASE \E u \in Users, g \in Groups : CreateUserMembership(u, g)
  BY <1>2, MembershipsAssumption DEF CreateUserMembership, Commit, InsertsRow
<1>3. ASSUME NEW r \in Requests, Arrive(r)
      PROVE  UNCHANGED row
  BY <1>3, ArriveType DEF HandlerInv, database
<1>. QED
  BY <1>1, <1>2, <1>3
     DEF Next, Register, CreateDomain, VerifyDomain, DeleteDomain, Abort, database

\* An insert takes a free row.
LEMMA InsertKeepsRows ==
  ASSUME TypeOK, NEW u \in Users, NEW g \in Groups, InsertsRow(u, g),
         \A i \in Ids : i >= nextId => ~Exists(i)
  PROVE  \A i \in Ids : Exists(i) => row'[i] = row[i]
<1>1. ~Exists(nextId)
  BY DEF InsertsRow, Ids, TypeOK
<1>. QED BY <1>1 DEF InsertsRow, Insert, TypeOK

(***************************************************************************)
(* A last owner is lost only to a write that checks nothing or one that    *)
(* was overtaken: each handler's check suffices when it runs alone.        *)
(***************************************************************************)
LEMMA LastOwnerStep ==
  ASSUME HandlerInv, Next, row' # row, NEW g \in groups,
         OwnersOf(g) # {}, OwnersOf(g)' = {}
  PROVE  \E r \in Requests :
           /\ Acts(r)
           /\ \/ req[r].pc \in {"add_update", "grp_members", "usr_members"}
              \/ req[r].stale
<1>. TypeOK /\ \A i \in Ids : i >= nextId => ~Exists(i)
  BY DEF HandlerInv
<1>1. PICK o \in Ids : row[o].group = g /\ row[o].role = "OWNER"
  BY DEF OwnersOf, RowsOf
<1>2. g \in Groups /\ g # None /\ Exists(o)
  BY <1>1, MembershipsAssumption DEF TypeOK, Exists, NoRow
<1>3. \A i \in Ids : ~(row'[i].group = g /\ row'[i].role = "OWNER")
  BY DEF OwnersOf, RowsOf
<1>4. row'[o] # row[o]
  BY <1>1, <1>3
<1>5. ASSUME NEW u \in Users, NEW h \in Groups, InsertsRow(u, h)
      PROVE  FALSE
  BY <1>2, <1>4, <1>5, InsertKeepsRows
<1>6. PICK r \in Requests : Writes(r) /\ Acts(r)
  BY <1>5, NextWrites
<1>. DEFINE q == req[r]
<1>7. q \in Request /\ ParametersFit(r) /\ ReadsHold(r)
  BY DEF HandlerInv, TypeOK
<1>8. CASE q.pc = "del_write" /\ Exists(q.id) /\ row' = Remove({q.id})
  <2>1. q.id = o
    BY <1>4, <1>8 DEF Remove, TypeOK
  <2>2. q.group = g
    BY <1>1, <1>2, <1>7, <1>8, <2>1 DEF ParametersFit
  <2>3. OwnersOf(g) = {o}
    BY <1>1, <1>3, <1>8, <2>1 DEF Remove, OwnersOf, RowsOf
  <2>4. q.stale
    BY <1>1, <1>7, <1>8, <2>1, <2>2, <2>3 DEF ReadsHold, HasOneElement
  <2>5. Acts(r)
    BY <1>6, <1>8
  <2>. QED BY <2>4, <2>5, Zenon
<1>9. CASE q.pc = "upd_write" /\ Exists(q.id) /\ row' = SetRole(q.id, q.role)
  <2>1. q.id = o
    BY <1>4, <1>9 DEF SetRole, TypeOK
  <2>2. q.role # None /\ row' = [row EXCEPT ![o].role = q.role]
    BY <1>4, <1>9, <2>1 DEF SetRole
  <2>3. q.group = g
    BY <1>1, <1>2, <1>7, <1>9, <2>1 DEF ParametersFit
  <2>4. row'[o].group = g /\ row'[o].role = q.role
    BY <1>1, <1>2, <2>2 DEF TypeOK, Row, Exists
  <2>5. OwnersOf(g) \ {o} = {}
    BY <1>3, <2>2 DEF OwnersOf, RowsOf, TypeOK
  <2>6. q.stale
    BY <1>1, <1>3, <1>7, <1>9, <2>1, <2>3, <2>4, <2>5 DEF ReadsHold
  <2>7. Acts(r)
    BY <1>6, <1>9
  <2>. QED BY <2>6, <2>7, Zenon
<1>10. CASE /\ q.pc = "mrg_move"
            /\ \E i \in Ids : Exists(i) /\ row' = [row EXCEPT ![i].user = q.base]
  BY <1>1, <1>2, <1>3, <1>10 DEF TypeOK, Row, Exists
<1>11. CASE q.pc \in {"add_update", "grp_members", "usr_members"}
  BY <1>6, <1>11
<1>12. CASE q.pc = "add_create" /\ InsertsRow(q.user, q.group)
  BY <1>5, <1>7, <1>12 DEF ParametersFit
<1>13. CASE q.pc = "join_write" /\ \E h \in Groups : InsertsRow(q.user, h)
  BY <1>5, <1>7, <1>13 DEF ParametersFit
<1>. QED
  <2>1. Writes(r)
    BY <1>6
  <2>. QED BY <2>1, <1>8, <1>9, <1>10, <1>11, <1>12, <1>13, ZenonT(30) DEF Writes

\* No group loses its last owner to a handler that checks and was not overtaken.
THEOREM OwnersKept == Spec => LastOwnerStays
<1>1. HandlerInv /\ [Next]_vars =>
        [\A g \in groups \cap groups' :
           OwnersOf(g) # {} /\ OwnersOf(g)' = {} =>
             \E r \in Requests :
               /\ Acts(r)
               /\ \/ req[r].pc \in {"add_update", "grp_members", "usr_members"}
                  \/ req[r].stale]_row
  BY LastOwnerStep DEF vars
<1>. QED BY <1>1, HandlersCorrect, PTL DEF Spec, LastOwnerStays


(***************************************************************************)
(* The last member likewise.                                               *)
(***************************************************************************)
LEMMA LastMemberStep ==
  ASSUME HandlerInv, Next, row' # row, NEW g \in groups,
         RowsOf(g) # {}, RowsOf(g)' = {}
  PROVE  \E r \in Requests :
           /\ Acts(r)
           /\ \/ req[r].pc \in {"grp_members", "usr_members"}
              \/ req[r].pc = "del_write" /\ req[r].stale
<1>. TypeOK /\ \A i \in Ids : i >= nextId => ~Exists(i)
  BY DEF HandlerInv
<1>1. PICK m \in Ids : row[m].group = g
  BY DEF RowsOf
<1>2. g \in Groups /\ g # None /\ Exists(m)
  BY <1>1, MembershipsAssumption DEF TypeOK, Exists, NoRow
<1>3. \A i \in Ids : row'[i].group # g
  BY DEF RowsOf
<1>4. row'[m] # row[m]
  BY <1>1, <1>3
<1>5. ASSUME NEW u \in Users, NEW h \in Groups, InsertsRow(u, h)
      PROVE  FALSE
  BY <1>2, <1>4, <1>5, InsertKeepsRows
<1>6. PICK r \in Requests : Writes(r) /\ Acts(r)
  BY <1>5, NextWrites
<1>. DEFINE q == req[r]
<1>7. q \in Request /\ ParametersFit(r) /\ ReadsHold(r)
  BY DEF HandlerInv, TypeOK
<1>8. CASE q.pc = "del_write" /\ Exists(q.id) /\ row' = Remove({q.id})
  <2>1. q.id = m
    BY <1>4, <1>8 DEF Remove, TypeOK
  <2>2. q.group = g
    BY <1>1, <1>2, <1>7, <1>8, <2>1 DEF ParametersFit
  <2>3. RowsOf(g) = {m}
    BY <1>1, <1>3, <1>8, <2>1 DEF Remove, RowsOf
  <2>4. q.stale
    BY <1>7, <1>8, <2>2, <2>3 DEF ReadsHold, HasOneElement
  <2>5. Acts(r)
    BY <1>6, <1>8
  <2>. QED BY <1>8, <2>4, <2>5, Zenon
<1>9. CASE q.pc \in {"upd_write", "add_update"} /\ row' = SetRole(q.id, q.role)
  BY <1>1, <1>2, <1>3, <1>9 DEF SetRole, TypeOK, Row, Exists
<1>10. CASE /\ q.pc = "mrg_move"
            /\ \E i \in Ids : Exists(i) /\ row' = [row EXCEPT ![i].user = q.base]
  BY <1>1, <1>2, <1>3, <1>10 DEF TypeOK, Row, Exists
<1>11. CASE q.pc \in {"grp_members", "usr_members"}
  BY <1>6, <1>11
<1>12. CASE q.pc = "add_create" /\ InsertsRow(q.user, q.group)
  BY <1>5, <1>7, <1>12 DEF ParametersFit
<1>13. CASE q.pc = "join_write" /\ \E h \in Groups : InsertsRow(q.user, h)
  BY <1>5, <1>7, <1>13 DEF ParametersFit
<1>. QED
  <2>1. Writes(r)
    BY <1>6
  <2>. QED
    BY <2>1, <1>8, <1>9, <1>10, <1>11, <1>12, <1>13, ZenonT(30) DEF Writes

\* Nor its last member.
THEOREM MembersKept == Spec => LastMemberStays
<1>1. HandlerInv /\ [Next]_vars =>
        [\A g \in groups \cap groups' :
           RowsOf(g) # {} /\ RowsOf(g)' = {} =>
             \E r \in Requests :
               /\ Acts(r)
               /\ \/ req[r].pc \in {"grp_members", "usr_members"}
                  \/ req[r].pc = "del_write" /\ req[r].stale]_row
  BY LastMemberStep DEF vars
<1>. QED BY <1>1, HandlersCorrect, PTL DEF Spec, LastMemberStays

(***************************************************************************)
(* A row comes to a place that another row holds only where the code does  *)
(* not look, or looked before the other row came.                          *)
(***************************************************************************)
LEMMA SecondRowStep ==
  ASSUME HandlerInv, Next, row' # row, NEW i \in Ids, NEW j \in Ids \ {i},
         row'[i] # NoRow, Place(i)' # Place(i),
         Exists(j), Place(j)' = Place(i)'
  PROVE  \E r \in Requests :
           /\ Acts(r)
           /\ \/ req[r].pc \in {"join_write", "mrg_move"}
              \/ req[r].pc = "add_create" /\ req[r].stale
<1>. /\ TypeOK /\ NoDanglingRows
     /\ \A k \in Ids : k >= nextId => ~Exists(k)
  BY DEF HandlerInv
<1>1. row'[i] # row[i]
  BY DEF Place
\* An insert moves no row but the one it adds, so row j was there before.
<1>2. ASSUME NEW u \in Users, NEW g \in Groups, InsertsRow(u, g)
      PROVE  row[j].user = u /\ row[j].group = g
  <2>1. \A k \in Ids : Exists(k) => row'[k] = row[k]
    BY <1>2, InsertKeepsRows
  <2>2. nextId = i
    BY <1>1, <1>2 DEF InsertsRow, Insert, TypeOK
  <2>3. row'[i].user = u /\ row'[i].group = g
    BY <1>2, <2>2 DEF InsertsRow, Insert, TypeOK
  <2>. QED BY <2>1, <2>3 DEF Place
<1>3. ASSUME NEW u \in Users, NEW g \in Groups \ groups, InsertsRow(u, g)
      PROVE  FALSE
  BY <1>2, <1>3 DEF NoDanglingRows
<1>4. PICK r \in Requests : Writes(r) /\ Acts(r)
  BY <1>3, NextWrites
<1>. DEFINE q == req[r]
<1>5. q \in Request /\ ParametersFit(r) /\ ReadsHold(r)
  BY DEF HandlerInv, TypeOK
<1>6. CASE \E S \in SUBSET Ids : row' = Remove(S)
  BY <1>1, <1>6 DEF Remove
<1>7. CASE row' = SetRole(q.id, q.role)
  <2>1. row'[i].user = row[i].user /\ row'[i].group = row[i].group
    BY <1>7 DEF SetRole, TypeOK, Row, NoRow
  <2>. QED BY <2>1 DEF Place
<1>8. CASE q.pc \in {"join_write", "mrg_move"}
  BY <1>4, <1>8
<1>9. CASE q.pc = "add_create" /\ InsertsRow(q.user, q.group)
  <2>1. q.user \in Users /\ q.group \in Groups
    BY <1>5, <1>9 DEF ParametersFit
  <2>2. j \in RowsOfPair(q.user, q.group)
    BY <1>2, <1>9, <2>1 DEF RowsOfPair, RowsOf, RowsOfUser
  <2>3. q.stale
    BY <1>5, <1>9, <2>2 DEF ReadsHold
  <2>. QED BY <1>4, <1>9, <2>3, Zenon
<1>. QED
  <2>1. Writes(r)
    BY <1>4
  <2>2. {q.id} \in SUBSET Ids \/ q.pc # "del_write"
    BY <1>5 DEF ParametersFit
  <2>. QED BY <2>1, <2>2, <1>6, <1>7, <1>8, <1>9, ZenonT(30) DEF Writes

\* No second membership of a user in a group but where the code does not look.
THEOREM OneRowPerPlace == Spec => OneMembershipPerGroup
<1>1. HandlerInv /\ [Next]_vars =>
        [\A i \in Ids :
           row'[i] # NoRow /\ Place(i)' # Place(i) =>
             \A j \in Ids \ {i} :
               Exists(j) /\ Place(j)' = Place(i)' =>
                 \E r \in Requests :
                   /\ Acts(r)
                   /\ \/ req[r].pc \in {"join_write", "mrg_move"}
                      \/ req[r].pc = "add_create" /\ req[r].stale]_row
  BY SecondRowStep DEF vars
<1>. QED BY <1>1, HandlersCorrect, PTL DEF Spec, OneMembershipPerGroup

----------------------------------------------------------------------------
(* Requests served one at a time: stale stands for nothing but races.      *)

\* Whatever happens while a request is in flight, this request does.
OneAtATime == \A r \in Requests : req[r] # Idle => Acts(r)

\* A request that is not stale, with other fields changed.
LEMMA FieldsLeaveStale ==
  ASSUME NEW q \in Request, ~q.stale
  PROVE  \A a, b, c, d :
           /\ ~[q EXCEPT !.pc = a].stale
           /\ ~[q EXCEPT !.ids = a].stale
           /\ ~[q EXCEPT !.joins = a].stale
           /\ ~[q EXCEPT !.pc = a, !.ids = b].stale
           /\ ~[q EXCEPT !.pc = a, !.id = b].stale
           /\ ~[q EXCEPT !.pc = a, !.joins = b].stale
           /\ ~[q EXCEPT !.pc = a, !.group = b].stale
           /\ ~[q EXCEPT !.pc = a, !.user = b].stale
           /\ ~[q EXCEPT !.pc = a, !.id = b, !.group = c].stale
           /\ ~[q EXCEPT !.pc = a, !.user = b, !.base = c].stale
           /\ ~[q EXCEPT !.pc = a, !.id = b, !.group = c, !.role = d].stale
           /\ ~[q EXCEPT !.pc = a, !.group = b, !.user = c, !.role = d].stale
  BY DEF Request

\* A request's own step does not make it stale.
LEMMA OwnStepIsFresh ==
  ASSUME TypeOK, NEW r \in Requests, Arrive(r) \/ Resume(r) \/ Abort(r), ~req[r].stale
  PROVE  ~req'[r].stale
<1>. DEFINE q == req[r]
<1>. q \in Request
  BY DEF TypeOK
<1>. Idle \in Request /\ ~Idle.stale
  BY IdleType DEF Idle
<1>1. ASSUME NEW next, Become(r, next), ~next.stale
      PROVE  ~req'[r].stale
  BY <1>1 DEF Become, TypeOK
<1>2. ASSUME NEW table, NEW next, Commit(r, table, next), ~next.stale
      PROVE  ~req'[r].stale
  BY <1>2 DEF Commit
<1>3. ASSUME Reply(r)
      PROVE  ~req'[r].stale
  BY <1>1, <1>3 DEF Reply
<1>4. CASE Arrive(r)
  <2>1. ASSUME NEW i \in Ids, BeginDelete(r, i)
        PROVE  ~req'[r].stale
    <3>1. ~[Idle EXCEPT !.pc = "del_list", !.id = i, !.group = row[i].group].stale
      BY FieldsLeaveStale
    <3>. QED BY <1>1, <2>1, <3>1 DEF BeginDelete
  <2>2. ASSUME NEW i \in Ids, NEW g \in Groups, NEW role \in Roles \cup {None},
               UpdateGroupMembership(r, g, i, role)
        PROVE  ~req'[r].stale
    <3>1. \A pc : ~[Idle EXCEPT !.pc = pc, !.id = i, !.group = g, !.role = role].stale
      BY FieldsLeaveStale
    <3>. QED BY <1>1, <2>2, <3>1 DEF UpdateGroupMembership
  <2>3. ASSUME NEW g \in Groups, NEW u \in Users, NEW role \in Roles \cup {None},
               CreateGroupMembership(r, g, u, role)
        PROVE  ~req'[r].stale
    BY <1>1, <2>3, FieldsLeaveStale DEF CreateGroupMembership
  <2>4. ASSUME NEW g \in Groups, DeleteGroup(r, g)
        PROVE  ~req'[r].stale
    BY <1>1, <2>4, FieldsLeaveStale DEF DeleteGroup
  <2>5. ASSUME NEW u \in Users, DeleteUser(r, u) \/ VerifyEmail(r, u)
        PROVE  ~req'[r].stale
    BY <1>1, <2>5, FieldsLeaveStale DEF DeleteUser, VerifyEmail
  <2>6. ASSUME NEW base \in Users, NEW other \in Users, MergeUsers(r, base, other)
        PROVE  ~req'[r].stale
    BY <1>1, <2>6, FieldsLeaveStale DEF MergeUsers
  <2>. QED
    BY <1>4, <2>1, <2>2, <2>3, <2>4, <2>5, <2>6
       DEF Arrive, DeleteUserMembership, DeleteGroupMembership
<1>5. CASE VerifyDeleteMembership(r)
  BY <1>1, <1>3, <1>5, FieldsLeaveStale DEF VerifyDeleteMembership
<1>6. CASE RereadMembership(r)
  BY <1>1, <1>3, <1>6, FieldsLeaveStale DEF RereadMembership
<1>7. CASE CountOtherOwners(r)
  BY <1>1, <1>3, <1>7, FieldsLeaveStale DEF CountOtherOwners
<1>8. CASE FindMembership(r)
  BY <1>1, <1>3, <1>8, FieldsLeaveStale DEF FindMembership
<1>9. CASE FindGroupsToJoin(r)
  BY <1>1, <1>3, <1>9, FieldsLeaveStale DEF FindGroupsToJoin
<1>10. CASE FindMembershipsToMove(r)
  BY <1>1, <1>3, <1>10, FieldsLeaveStale DEF FindMembershipsToMove
<1>11. CASE DeleteMembershipRow(r) \/ WriteRole(r) \/ OverwriteRole(r)
  BY <1>2, <1>3, <1>11 DEF DeleteMembershipRow, WriteRole, OverwriteRole
<1>12. CASE AddMember(r)
  BY <1>2, <1>3, <1>12 DEF AddMember, CreateRow
<1>13. CASE DeleteGroupMembers(r) \/ DeleteUserMembers(r)
  BY <1>2, <1>13, FieldsLeaveStale DEF DeleteGroupMembers, DeleteUserMembers
<1>14. ASSUME NEW g \in Groups, JoinGroup(r, g)
       PROVE  ~req'[r].stale
  <2>. DEFINE rest == q.joins \ {g}
              next == IF rest = {} THEN Idle ELSE [q EXCEPT !.joins = rest]
  <2>1. ~next.stale
    BY FieldsLeaveStale
  <2>. QED BY <1>2, <1>3, <1>14, <2>1 DEF JoinGroup, CreateRow
<1>15. ASSUME NEW i \in Ids, MoveMembership(r, i)
       PROVE  ~req'[r].stale
  BY <1>2, <1>3, <1>15, FieldsLeaveStale DEF MoveMembership
<1>16. CASE DeleteGroupRow(r) \/ DeleteUserRow(r) \/ DeleteMergedUser(r) \/ Abort(r)
  BY <1>3, <1>16 DEF DeleteGroupRow, DeleteUserRow, DeleteMergedUser, Abort
<1>. QED
  BY <1>4, <1>5, <1>6, <1>7, <1>8, <1>9, <1>10, <1>11, <1>12, <1>13, <1>14, <1>15, <1>16
     DEF Resume

\* A request that waits does not act, and becomes stale only in flight.
LEMMA WaitingRests ==
  ASSUME TypeOK, NEW q \in Requests, Waits(q)
  PROVE  /\ ~Acts(q)
         /\ req[q] = Idle /\ ~req[q].stale => ~req'[q].stale
<1>1. ~Acts(q)
  BY DEF Waits, Acts, TypeOK, Request
<1>2. ASSUME req[q] = Idle
      PROVE  ~Overtaken(q, row')
  BY <1>2 DEF Overtaken, Checked, Idle
<1>. QED BY <1>1, <1>2 DEF Waits, TypeOK, Request

LEMMA StepKeeps ==
  ASSUME HandlerInv, TypeOK', NEW r \in Requests, Arrive(r) \/ Resume(r) \/ Abort(r)
  PROVE  Keeps(r)
<1>1. Resume(r) => Keeps(r)
  BY DeleteKeeps, UpdateKeeps, AddKeeps, RemoveKeeps, MergeKeeps DEF Resume
<1>2. Abort(r) => Keeps(r)
  BY ReplyKeeps DEF Abort
<1>. QED BY <1>1, <1>2, ArriveKeeps

LEMMA OneAtATimeStep ==
  ASSUME HandlerInv, HandlerInv', [Next]_vars, [OneAtATime]_vars, \A r \in Requests : ~req[r].stale
  PROVE  \A r \in Requests : ~req'[r].stale
<1>. TypeOK /\ TypeOK'
  BY DEF HandlerInv
<1>1. CASE UNCHANGED req
  BY <1>1
<1>2. CASE OneAtATime /\ Next
  <2>1. ASSUME NEW u \in Users, NEW g \in Groups, CreateUserMembership(u, g)
        PROVE  \A q \in Requests : Waits(q)
    BY <2>1, CreateKeeps
  <2>2. ASSUME NEW r \in Requests, Arrive(r) \/ Resume(r) \/ Abort(r), NEW q \in Requests
        PROVE  ~req'[q].stale
    BY <1>2, <2>2, StepKeeps, OwnStepIsFresh, WaitingRests DEF Keeps, OneAtATime
  <2>. QED
    BY <1>2, <2>1, <2>2, WaitingRests
       DEF Next, OneAtATime, Register, CreateDomain, VerifyDomain, DeleteDomain
<1>. QED BY <1>1, <1>2 DEF vars

\* Of requests served one at a time none is ever stale.
THEOREM NoneIsOvertaken ==
  Spec /\ [][OneAtATime]_vars => [](\A r \in Requests : ~req[r].stale)
<1>1. Init => \A r \in Requests : ~req[r].stale
  BY DEF Init, Idle
<1>2. HandlerInv /\ HandlerInv' /\ [Next]_vars /\ [OneAtATime]_vars
        /\ (\A r \in Requests : ~req[r].stale) => (\A r \in Requests : ~req[r].stale)'
  BY OneAtATimeStep
<1>. QED BY <1>1, <1>2, HandlersCorrect, PTL DEF Spec

\* One request takes a step.
LEMMA OneActs ==
  ASSUME HandlerInv, HandlerInv', Next, NEW r \in Requests, Acts(r)
  PROVE  /\ Arrive(r) \/ Resume(r) \/ Abort(r)
         /\ \A p \in Requests : Acts(p) => p = r
<1>. TypeOK /\ TypeOK'
  BY DEF HandlerInv
<1>1. \A q \in Requests : Waits(q) => ~Acts(q)
  BY WaitingRests
<1>2. ASSUME NEW u \in Users, NEW g \in Groups, CreateUserMembership(u, g)
      PROVE  FALSE
  BY <1>1, <1>2, CreateKeeps
<1>3. ASSUME NEW p \in Requests, Arrive(p) \/ Resume(p) \/ Abort(p)
      PROVE  p = r /\ \A q \in Requests : Acts(q) => q = p
  <2>1. Keeps(p)
    BY <1>3, StepKeeps
  <2>. QED BY <1>1, <2>1 DEF Keeps
<1>4. req' # req
  BY DEF Acts
<1>. QED
  BY <1>2, <1>3, <1>4 DEF Next, Register, CreateDomain, VerifyDomain, DeleteDomain

LEMMA OwnersStayOneAtATime ==
  ASSUME HandlerInv, HandlerInv', [Next]_vars, row' # row, \A r \in Requests : ~req[r].stale
  PROVE  KeepsAnOwner({"del_write", "upd_write"})
<1>. SUFFICES ASSUME NEW r \in Requests, NEW g \in Groups, Acts(r),
                     req[r].pc \in {"del_write", "upd_write"},
                     OwnersOf(g) # {}, OwnersOf(g)' = {}
              PROVE  FALSE
  BY DEF KeepsAnOwner
<1>1. Next
  BY DEF vars
<1>2. g \in groups
  <2>1. PICK i \in Ids : row[i].group = g
    BY DEF OwnersOf, RowsOf
  <2>2. Exists(i)
    BY <2>1, MembershipsAssumption DEF Exists, NoRow
  <2>. QED BY <2>1, <2>2 DEF HandlerInv, NoDanglingRows
<1>3. PICK p \in Requests : /\ Acts(p)
                            /\ \/ req[p].pc \in {"add_update", "grp_members", "usr_members"}
                               \/ req[p].stale
  BY <1>1, <1>2, LastOwnerStep
<1>4. p = r
  BY <1>1, <1>3, OneActs
<1>. QED BY <1>3, <1>4

(***************************************************************************)
(* What errors.constants.ts says of the only owner (400010, and 400017 in  *)
(* the handler that checks it) holds of requests served one at a time: the *)
(* checks of verifyDeleteMembership and updateGroupMembership are right,   *)
(* and losing an owner to them, as TLC finds, needs two requests at once.  *)
(***************************************************************************)
THEOREM OwnersKeptOneAtATime ==
  Spec /\ [][OneAtATime]_vars => [][KeepsAnOwner({"del_write", "upd_write"})]_row
<1>1. HandlerInv /\ HandlerInv' /\ [Next]_vars /\ (\A r \in Requests : ~req[r].stale) =>
        [KeepsAnOwner({"del_write", "upd_write"})]_row
  BY OwnersStayOneAtATime
<1>. QED BY <1>1, NoneIsOvertaken, HandlersCorrect, PTL DEF Spec
=============================================================================
