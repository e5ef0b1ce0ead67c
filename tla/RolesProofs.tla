----------------------------- MODULE RolesProofs -----------------------------
(* The inductive invariant of Roles and its action properties, for any     *)
(* number of roles, names, groups, scopes and requests.                    *)
EXTENDS Roles, FiniteSetTheorems, TLAPS

\* The tokens about to be signed are part of what is kept.
ReadsHoldToo(q) == ReadsHold(q) /\ (q.pc = "tok_sign" => q.scopes = Privileges)

Fits(r) == ParametersFit(req[r]) /\ (req[r].stale \/ ReadsHoldToo(req[r]))

TablesFit ==
  /\ name \in [Roles -> Names \cup {None}]
  /\ unused \subseteq Roles
  /\ groups \subseteq Groups
  /\ member \subseteq Groups
  /\ groupRoles \subseteq Roles \X Groups
  /\ roleScopes \subseteq Roles \X Scopes
  /\ KeysHold

Inv == TablesFit /\ req \in [Requests -> Request] /\ \A r \in Requests : Fits(r)

LEMMA InvSplits == Inv <=> RolesInv /\ TokenIsCurrent
  BY DEF Inv, Fits, TablesFit, ReadsHoldToo, RolesInv, TypeOK, TokenIsCurrent

LEMMA IdleFits ==
  /\ Idle \in Request
  /\ \A r \in Requests : req'[r] = Idle => Fits(r)'
  BY DEF Idle, Request, PCs, Fits, ParametersFit, ReadsHoldToo, ReadsHold

\* What a waiting request knows survives the step of another one.
LEMMA OthersFit ==
  ASSUME Inv, NEW p \in Requests, TablesFit',
         req'[p] = [req[p] EXCEPT !.stale = @ \/ Overtaken(req[p])]
  PROVE  req'[p] \in Request /\ Fits(p)'
<1>. DEFINE q == req[p]
            o == Overtaken(q)
<1>. q \in Request /\ ParametersFit(q) /\ (q.stale \/ ReadsHoldToo(q))
  BY DEF Inv, Fits
<1>1. (q.stale \/ o) \in BOOLEAN
  OBVIOUS
<1>2. /\ req'[p].pc = q.pc /\ req'[p].role = q.role /\ req'[p].group = q.group
      /\ req'[p].names = q.names /\ req'[p].groups = q.groups
      /\ req'[p].roles = q.roles /\ req'[p].scopes = q.scopes
  BY DEF Request
<1>3. req'[p].stale = (q.stale \/ o)
  BY DEF Request
<1>4. req'[p] \in Request
  <2>1. \A s \in BOOLEAN : [q EXCEPT !.stale = s] \in Request
    BY DEF Request
  <2>. QED BY <1>1, <2>1
<1>5. ParametersFit(req[p])'
  BY <1>2 DEF ParametersFit
<1>6. ASSUME ~req'[p].stale
      PROVE  ~o /\ ReadsHoldToo(q)
  BY <1>3, <1>6
<1>7. ASSUME ~o, ReadsHoldToo(q)
      PROVE  ReadsHoldToo(req[p])'
  <2>1. q.pc \in {"add_find", "add_create", "rev_delete", "gr_create", "rs_create"} => name' = name
    BY <1>7 DEF Overtaken
  <2>2. q.pc \in {"add_create", "gr_find", "gr_create", "grp_delete"} =>
          RolesOf(q.group)' = RolesOf(q.group)
    BY <1>7 DEF Overtaken, GroupRolesChanged, Changed, RolesOf
  <2>3. q.pc \in {"rs_create", "del_role"} => ScopesOf(q.role)' = ScopesOf(q.role)
    BY <1>7 DEF Overtaken, RoleScopesChanged, Changed, ScopesOf
  <2>4. q.pc \in {"del_scopes", "del_role"} => GroupsOf(q.role)' = GroupsOf(q.role)
    BY <1>7 DEF Overtaken, GroupRolesChanged, Changed, GroupsOf
  <2>5. /\ q.pc \in {"add_role", "add_find", "add_create", "gr_delete", "gr_find", "gr_create"} =>
             groups' = groups
        /\ q.pc \in {"grp_roles", "grp_delete", "tok_roles", "tok_scopes", "tok_sign"} =>
             member' = member
        /\ q.pc \in {"tok_scopes", "tok_sign"} => RolesOfUser' = RolesOfUser
        /\ q.pc = "tok_sign" => Privileges' = Privileges
    BY <1>7 DEF Overtaken
  <2>6. q.pc = "add_create" => req'[p].role \notin RolesOf(req[p].group)'
    BY <1>2, <1>7, <2>2 DEF ReadsHoldToo, ReadsHold, RolesOf
  <2>7. q.pc \in {"gr_find", "gr_create", "grp_delete"} => RolesOf(req[p].group)' = {}
    BY <1>2, <1>7, <2>2 DEF ReadsHoldToo, ReadsHold, RolesOf
  <2>8. q.pc \in {"rs_create", "del_role"} => ScopesOf(req[p].role)' = {}
    BY <1>2, <1>7, <2>3 DEF ReadsHoldToo, ReadsHold, ScopesOf
  <2>9. q.pc \in {"del_scopes", "del_role"} => GroupsOf(req[p].role)' = {}
    BY <1>2, <1>7, <2>4 DEF ReadsHoldToo, ReadsHold, GroupsOf
  <2>10. q.pc = "gr_create" => req'[p].roles = Named(req[p].names)'
    BY <1>2, <1>7, <2>1 DEF ReadsHoldToo, ReadsHold, Named
  <2>. QED BY <1>2, <1>7, <2>1, <2>5, <2>6, <2>7, <2>8, <2>9, <2>10 DEF ReadsHoldToo, ReadsHold
<1>. QED BY <1>4, <1>5, <1>6, <1>7 DEF Fits

\* A step that writes: what the request that takes it has to show.
LEMMA CommitKeeps ==
  ASSUME Inv, NEW r \in Requests, NEW next \in Request, Commit(r, next), TablesFit', Fits(r)'
  PROVE  Inv'
<1>1. ASSUME NEW p \in Requests
      PROVE  req'[p] \in Request /\ Fits(p)'
  <2>1. CASE p = r
    BY <2>1 DEF Commit
  <2>2. CASE p # r
    BY <2>2, OthersFit DEF Commit
  <2>. QED BY <2>1, <2>2
<1>2. req' \in [Requests -> Request]
  BY <1>1 DEF Commit
<1>. QED BY <1>1, <1>2 DEF Inv

\* A step that writes nothing.
LEMMA BecomeKeeps ==
  ASSUME Inv, NEW r \in Requests, NEW next \in Request, Become(r, next), UNCHANGED database,
         Fits(r)'
  PROVE  Inv'
<1>. UNCHANGED <<name, unused, groups, member, groupRoles, roleScopes>>
  BY DEF database
<1>1. TablesFit'
  BY DEF Inv, TablesFit, KeysHold, Exists
<1>2. ASSUME NEW p \in Requests, p # r
      PROVE  req'[p] \in Request /\ Fits(p)'
  <2>1. req'[p] = req[p]
    BY <1>2 DEF Become
  <2>2. Fits(p) /\ req[p] \in Request
    BY DEF Inv
  <2>3. /\ RolesOf(req[p].group)' = RolesOf(req[p].group)
        /\ ScopesOf(req[p].role)' = ScopesOf(req[p].role)
        /\ GroupsOf(req[p].role)' = GroupsOf(req[p].role)
        /\ Named(req[p].names)' = Named(req[p].names)
        /\ RolesOfUser' = RolesOfUser /\ Privileges' = Privileges
    BY <2>1 DEF RolesOf, ScopesOf, GroupsOf, Named, RolesOfUser, Privileges
  <2>. QED BY <2>1, <2>2, <2>3 DEF Fits, ParametersFit, ReadsHoldToo, ReadsHold
<1>3. req' \in [Requests -> Request]
  BY <1>2 DEF Become, Inv
<1>. QED BY <1>1, <1>2, <1>3 DEF Inv

LEMMA ReplyKeeps ==
  ASSUME Inv, NEW r \in Requests, Reply(r), UNCHANGED database
  PROVE  Inv'
<1>1. req'[r] = Idle
  BY DEF Reply, Become, Inv
<1>. QED BY <1>1, IdleFits, BecomeKeeps DEF Reply

LEMMA CommitIdleKeeps ==
  ASSUME Inv, NEW r \in Requests, Commit(r, Idle), TablesFit'
  PROVE  Inv'
<1>1. req'[r] = Idle
  BY DEF Commit
<1>. QED BY <1>1, IdleFits, CommitKeeps

----------------------------------------------------------------------------

LEMMA ArriveKeeps ==
  ASSUME Inv, NEW r \in Requests, Arrive(r)
  PROVE  Inv'
<1>. req \in [Requests -> Request] /\ req[r] \in Request /\ Fits(r) /\ TablesFit
  BY DEF Inv
<1>1. ASSUME NEW p \in Roles, NEW n \in Names, CreateRole(r, p, n)
      PROVE  Inv'
  <2>1. TablesFit'
    BY <1>1, RolesAssumption DEF CreateRole, TablesFit, KeysHold, Exists
  <2>. QED BY <1>1, <2>1, CommitIdleKeeps DEF CreateRole
<1>2. ASSUME NEW g \in Groups, NEW n \in Names, AddGroupRole(r, g, n)
      PROVE  Inv'
  <2>. DEFINE next == [Idle EXCEPT !.pc = "add_role", !.group = g, !.names = Spellings[n]]
  <2>1. Become(r, next) /\ UNCHANGED database /\ g \in groups
    BY <1>2 DEF AddGroupRole
  <2>2. next \in Request
    BY <1>2, RolesAssumption DEF Request, PCs, Idle
  <2>3. req'[r] = next
    BY <2>1 DEF Become, Inv
  <2>4. req'[r].pc = "add_role" /\ req'[r].group = g
    BY <2>3 DEF Request, Idle
  <2>. HIDE DEF next
  <2>5. Fits(r)'
    BY <1>2, <2>1, <2>4 DEF Fits, ParametersFit, ReadsHoldToo, ReadsHold, database
  <2>. QED BY <2>1, <2>2, <2>5, BecomeKeeps
<1>3. ASSUME NEW g \in Groups, NEW names \in SUBSET Names, UpdateGroupRoles(r, g, names)
      PROVE  Inv'
  <2>. DEFINE next == [Idle EXCEPT !.pc = "gr_delete", !.group = g, !.names = names]
  <2>1. Become(r, next) /\ UNCHANGED database /\ g \in groups
    BY <1>3 DEF UpdateGroupRoles
  <2>2. next \in Request
    BY <1>3 DEF Request, PCs, Idle
  <2>3. req'[r] = next
    BY <2>1 DEF Become, Inv
  <2>4. req'[r].pc = "gr_delete" /\ req'[r].group = g
    BY <2>3 DEF Request, Idle
  <2>. HIDE DEF next
  <2>5. Fits(r)'
    BY <1>3, <2>1, <2>4 DEF Fits, ParametersFit, ReadsHoldToo, ReadsHold, database
  <2>. QED BY <2>1, <2>2, <2>5, BecomeKeeps
<1>4. ASSUME NEW g \in Groups, NEW n \in Names, NEW p \in Roles, DeleteGroupRole(r, g, n, p)
      PROVE  Inv'
  <2>. DEFINE next == [Idle EXCEPT !.pc = "rev_delete", !.group = g,
                              !.names = Spellings[n], !.role = p]
  <2>1. Become(r, next) /\ UNCHANGED database /\ p \in Named(Spellings[n])
    BY <1>4 DEF DeleteGroupRole
  <2>2. next \in Request
    BY <1>4, RolesAssumption DEF Request, PCs, Idle
  <2>3. req'[r] = next
    BY <2>1 DEF Become, Inv
  <2>4. /\ req'[r].pc = "rev_delete" /\ req'[r].group = g
        /\ req'[r].names = Spellings[n] /\ req'[r].role = p
    BY <2>3 DEF Request, Idle
  <2>. HIDE DEF next
  <2>5. Fits(r)'
    BY <1>4, <2>1, <2>4 DEF Fits, ParametersFit, ReadsHoldToo, ReadsHold, database, Named
  <2>. QED BY <2>1, <2>2, <2>5, BecomeKeeps
<1>5. ASSUME NEW p \in Roles, NEW scopes \in SUBSET Scopes, UpdateRoleScopes(r, p, scopes)
      PROVE  Inv'
  <2>. DEFINE next == [Idle EXCEPT !.pc = "rs_delete", !.role = p, !.scopes = scopes]
  <2>1. Become(r, next) /\ UNCHANGED database
    BY <1>5 DEF UpdateRoleScopes
  <2>2. next \in Request
    BY <1>5 DEF Request, PCs, Idle
  <2>3. req'[r] = next
    BY <2>1 DEF Become, Inv
  <2>4. req'[r].pc = "rs_delete" /\ req'[r].role = p
    BY <2>3 DEF Request, Idle
  <2>. HIDE DEF next
  <2>5. Fits(r)'
    BY <1>5, <2>1, <2>4 DEF Fits, ParametersFit, ReadsHoldToo, ReadsHold
  <2>. QED BY <2>1, <2>2, <2>5, BecomeKeeps
<1>6. ASSUME NEW p \in Roles, DeleteRole(r, p)
      PROVE  Inv'
  <2>. DEFINE next == [Idle EXCEPT !.pc = "del_scopes", !.role = p]
  <2>1. /\ Commit(r, next) /\ groupRoles' = groupRoles \ ({p} \X Groups)
        /\ UNCHANGED <<name, unused, groups, member, roleScopes>>
    BY <1>6 DEF DeleteRole
  <2>2. next \in Request
    BY DEF Request, PCs, Idle
  <2>3. req'[r] = next
    BY <2>1 DEF Commit
  <2>4. req'[r].pc = "del_scopes" /\ req'[r].role = p
    BY <2>3 DEF Idle
  <2>. HIDE DEF next
  <2>5. GroupsOf(req[r].role)' = {}
    BY <2>1, <2>4 DEF GroupsOf
  <2>6. Fits(r)'
    BY <2>4, <2>5 DEF Fits, ParametersFit, ReadsHoldToo, ReadsHold
  <2>7. TablesFit'
    BY <2>1 DEF TablesFit, KeysHold, Exists
  <2>. QED BY <2>1, <2>2, <2>6, <2>7, CommitKeeps
<1>7. ASSUME NEW g \in Groups, DeleteGroup(r, g)
      PROVE  Inv'
  <2>. DEFINE next == [Idle EXCEPT !.pc = "grp_members", !.group = g]
  <2>1. Become(r, next) /\ UNCHANGED database
    BY <1>7 DEF DeleteGroup
  <2>2. next \in Request
    BY <1>7 DEF Request, PCs, Idle
  <2>3. req'[r] = next
    BY <2>1 DEF Become, Inv
  <2>4. req'[r].pc = "grp_members" /\ req'[r].group = g
    BY <2>3 DEF Request, Idle
  <2>. HIDE DEF next
  <2>5. Fits(r)'
    BY <1>7, <2>1, <2>4 DEF Fits, ParametersFit, ReadsHoldToo, ReadsHold
  <2>. QED BY <2>1, <2>2, <2>5, BecomeKeeps
<1>8. ASSUME NEW g \in Groups, ChangeMembership(r, g)
      PROVE  Inv'
  <2>1. TablesFit'
    BY <1>8 DEF ChangeMembership, TablesFit, KeysHold, Exists
  <2>. QED BY <1>8, <2>1, CommitIdleKeeps DEF ChangeMembership
<1>9. CASE MakeToken(r)
  <2>. DEFINE next == [Idle EXCEPT !.pc = "tok_roles", !.groups = member]
  <2>1. Become(r, next) /\ UNCHANGED database
    BY <1>9 DEF MakeToken
  <2>2. next \in Request
    BY DEF Request, PCs, Idle, TablesFit
  <2>3. req'[r] = next
    BY <2>1 DEF Become, Inv
  <2>4. req'[r].pc = "tok_roles" /\ req'[r].groups = member
    BY <2>3 DEF Request, Idle
  <2>. HIDE DEF next
  <2>5. Fits(r)'
    BY <1>9, <2>1, <2>4 DEF Fits, ParametersFit, ReadsHoldToo, ReadsHold, database
  <2>. QED BY <2>1, <2>2, <2>5, BecomeKeeps
<1>. QED BY <1>1, <1>2, <1>3, <1>4, <1>5, <1>6, <1>7, <1>8, <1>9 DEF Arrive

LEMMA ReadersKeep ==
  ASSUME Inv, NEW r \in Requests,
         \/ \E p \in Roles : FindRole(r, p)
         \/ FindGroupRole(r) \/ FindRoles(r) \/ ReadRoles(r) \/ ReadScopes(r)
         \/ SignToken(r) \/ Abort(r)
  PROVE  Inv'
<1>. req \in [Requests -> Request] /\ req[r] \in Request /\ Fits(r) /\ TablesFit
  BY DEF Inv
<1>1. ASSUME NEW p \in Roles, FindRole(r, p)
      PROVE  Inv'
  <2>. DEFINE next == [req[r] EXCEPT !.pc = "add_find", !.role = p]
  <2>1. Become(r, next) /\ UNCHANGED database /\ req[r].pc = "add_role" /\ p \in Named(req[r].names)
    BY <1>1 DEF FindRole
  <2>2. next \in Request
    BY <1>1 DEF Request, PCs
  <2>3. req'[r] = next
    BY <2>1 DEF Become, Inv
  <2>4. /\ req'[r].pc = "add_find" /\ req'[r].stale = req[r].stale
        /\ req'[r].role = p
        /\ req'[r].group = req[r].group
        /\ req'[r].names = req[r].names
    BY <2>3 DEF Request
  <2>. HIDE DEF next
  <2>5. Fits(r)'
    BY <2>1, <2>4 DEF database, Fits, ParametersFit, ReadsHoldToo, ReadsHold, Named
  <2>. QED BY <2>1, <2>2, <2>5, BecomeKeeps
<1>2. CASE FindGroupRole(r)
  <2>. DEFINE next == [req[r] EXCEPT !.pc = "add_create"]
  <2>1. CASE <<req[r].role, req[r].group>> \in groupRoles
    BY <1>2, <2>1, ReplyKeeps DEF FindGroupRole
  <2>2. CASE <<req[r].role, req[r].group>> \notin groupRoles
    <3>1. Become(r, next) /\ UNCHANGED database /\ req[r].pc = "add_find"
      BY <1>2, <2>2 DEF FindGroupRole
    <3>2. next \in Request
      BY DEF Request, PCs
    <3>3. req'[r] = next
      BY <3>1 DEF Become, Inv
    <3>4. /\ req'[r].pc = "add_create" /\ req'[r].stale = req[r].stale
          /\ req'[r].role = req[r].role
          /\ req'[r].group = req[r].group
          /\ req'[r].names = req[r].names
      BY <3>3 DEF Request
    <3>. HIDE DEF next
    <3>5. req'[r].role \notin RolesOf(req[r].group)'
      BY <2>2, <3>1, <3>4 DEF RolesOf, database
    <3>6. Fits(r)'
      BY <3>1, <3>4, <3>5 DEF database, Fits, ParametersFit, ReadsHoldToo, ReadsHold
    <3>. QED BY <3>1, <3>2, <3>6, BecomeKeeps
  <2>. QED BY <2>1, <2>2
<1>3. CASE FindRoles(r)
  <2>. DEFINE next == [req[r] EXCEPT !.pc = "gr_create", !.roles = Named(req[r].names)]
  <2>1. Become(r, next) /\ UNCHANGED database /\ req[r].pc = "gr_find"
    BY <1>3 DEF FindRoles
  <2>2. next \in Request
    BY <1>3 DEF Request, PCs, Named
  <2>3. req'[r] = next
    BY <2>1 DEF Become, Inv
  <2>4. /\ req'[r].pc = "gr_create" /\ req'[r].stale = req[r].stale
        /\ req'[r].roles = Named(req[r].names)
        /\ req'[r].group = req[r].group
        /\ req'[r].names = req[r].names
    BY <2>3 DEF Request
  <2>. HIDE DEF next
  <2>5. /\ req[r].group \in groups /\ RolesOf(req[r].group) = {} =>
             req'[r].group \in groups' /\ RolesOf(req[r].group)' = {}
        /\ Named(req[r].names)' = req'[r].roles
    BY <2>1, <2>4 DEF database, RolesOf, Named
  <2>6. Fits(r)'
    BY <2>1, <2>4, <2>5 DEF database, Fits, ParametersFit, ReadsHoldToo, ReadsHold
  <2>. QED BY <2>1, <2>2, <2>6, BecomeKeeps
<1>4. CASE ReadRoles(r)
  <2>. DEFINE next == [req[r] EXCEPT !.pc = "tok_scopes",
                                    !.roles = UNION {RolesOf(g) : g \in req[r].groups}]
  <2>1. Become(r, next) /\ UNCHANGED database /\ req[r].pc = "tok_roles"
    BY <1>4 DEF ReadRoles
  <2>2. next \in Request
    <3>1. UNION {RolesOf(g) : g \in req[r].groups} \in SUBSET Roles
      BY DEF RolesOf
    <3>. QED BY <3>1 DEF Request, PCs
  <2>3. req'[r] = next
    BY <2>1 DEF Become, Inv
  <2>4. /\ req'[r].pc = "tok_scopes" /\ req'[r].stale = req[r].stale
        /\ req'[r].roles = UNION {RolesOf(g) : g \in req[r].groups}
        /\ req'[r].groups = req[r].groups
    BY <2>3 DEF Request
  <2>. HIDE DEF next
  <2>5. RolesOfUser' = UNION {RolesOf(g) : g \in member} /\ member' = member
    BY <2>1 DEF database, RolesOfUser, RolesOf
  <2>6. Fits(r)'
    BY <2>1, <2>4, <2>5 DEF database, Fits, ParametersFit, ReadsHoldToo, ReadsHold
  <2>. QED BY <2>1, <2>2, <2>6, BecomeKeeps
<1>5. CASE ReadScopes(r)
  <2>. DEFINE next == [req[r] EXCEPT !.pc = "tok_sign",
                                    !.scopes = UNION {ScopesOf(p) : p \in req[r].roles}]
  <2>1. Become(r, next) /\ UNCHANGED database /\ req[r].pc = "tok_scopes"
    BY <1>5 DEF ReadScopes
  <2>2. next \in Request
    <3>1. UNION {ScopesOf(p) : p \in req[r].roles} \in SUBSET Scopes
      BY DEF ScopesOf
    <3>. QED BY <3>1 DEF Request, PCs
  <2>3. req'[r] = next
    BY <2>1 DEF Become, Inv
  <2>4. /\ req'[r].pc = "tok_sign" /\ req'[r].stale = req[r].stale
        /\ req'[r].scopes = UNION {ScopesOf(p) : p \in req[r].roles}
    BY <2>3 DEF Request
  <2>. HIDE DEF next
  <2>5. Privileges' = UNION {ScopesOf(p) : p \in RolesOfUser}
    BY <2>1 DEF database, Privileges, RolesOfUser, RolesOf, ScopesOf
  <2>6. Fits(r)'
    BY <2>1, <2>4, <2>5 DEF database, Fits, ParametersFit, ReadsHoldToo, ReadsHold
  <2>. QED BY <2>1, <2>2, <2>6, BecomeKeeps
<1>6. CASE SignToken(r) \/ Abort(r)
  BY <1>6, ReplyKeeps DEF SignToken, Abort
<1>. QED BY <1>1, <1>2, <1>3, <1>4, <1>5, <1>6

LEMMA WritersKeep ==
  ASSUME Inv, NEW r \in Requests,
         \/ CreateGroupRole(r) \/ DeleteGroupRoles(r) \/ CreateGroupRoles(r)
         \/ DeleteRowOfGroupRole(r)
         \/ DeleteRoleScopes(r) \/ CreateRoleScopes(r)
         \/ DeleteScopesOfRole(r) \/ DeleteRoleRow(r)
         \/ DeleteGroupMembers(r) \/ DeleteRolesOfGroup(r)
         \/ DeleteGroupRow(r)
  PROVE  Inv'
<1>. req \in [Requests -> Request] /\ req[r] \in Request /\ Fits(r) /\ TablesFit
  BY DEF Inv
<1>1. CASE CreateGroupRole(r)
  <2>1. TablesFit'
    BY <1>1 DEF CreateGroupRole, TablesFit, KeysHold, Exists, Request,
       ParametersFit, Fits
  <2>. QED BY <1>1, <2>1, CommitIdleKeeps DEF CreateGroupRole
<1>2. CASE DeleteGroupRoles(r)
  <2>. DEFINE next == [req[r] EXCEPT !.pc = "gr_find"]
  <2>1. /\ Commit(r, next)
        /\ req[r].pc = "gr_delete" /\ groupRoles' = groupRoles \ (Roles \X {req[r].group})
        /\ UNCHANGED <<name, unused, groups, member, roleScopes>>
    BY <1>2 DEF DeleteGroupRoles
  <2>2. next \in Request
    BY DEF Request, PCs
  <2>3. req'[r] = next
    BY <2>1 DEF Commit
  <2>4. /\ req'[r].pc = "gr_find" /\ req'[r].stale = req[r].stale
        /\ req'[r].group = req[r].group
        /\ req'[r].names = req[r].names
    BY <2>3 DEF Request
  <2>. HIDE DEF next
  <2>5. RolesOf(req[r].group)' = {}
    BY <2>1, <2>4 DEF RolesOf
  <2>6. Fits(r)'
    BY <1>2, <2>1, <2>4, <2>5 DEF DeleteGroupRoles, Fits, ParametersFit, ReadsHoldToo, ReadsHold
  <2>7. TablesFit'
    BY <2>1 DEF TablesFit, KeysHold, Exists
  <2>. QED BY <2>1, <2>2, <2>6, <2>7, CommitKeeps
<1>3. CASE CreateGroupRoles(r)
  <2>1. TablesFit'
    BY <1>3 DEF CreateGroupRoles, TablesFit, KeysHold, Exists, Request,
       ParametersFit, Fits
  <2>. QED BY <1>3, <2>1, CommitIdleKeeps DEF CreateGroupRoles
<1>4. CASE DeleteRowOfGroupRole(r)
  <2>1. TablesFit'
    BY <1>4 DEF DeleteRowOfGroupRole, TablesFit, KeysHold, Exists, Request,
       ParametersFit, Fits
  <2>. QED BY <1>4, <2>1, CommitIdleKeeps DEF DeleteRowOfGroupRole
<1>5. CASE DeleteRoleScopes(r)
  <2>. DEFINE next == [req[r] EXCEPT !.pc = "rs_create"]
  <2>1. /\ Commit(r, next)
        /\ req[r].pc = "rs_delete" /\ roleScopes' = roleScopes \ ({req[r].role} \X Scopes)
        /\ UNCHANGED <<name, unused, groups, member, groupRoles>>
    BY <1>5 DEF DeleteRoleScopes
  <2>2. next \in Request
    BY DEF Request, PCs
  <2>3. req'[r] = next
    BY <2>1 DEF Commit
  <2>4. /\ req'[r].pc = "rs_create" /\ req'[r].stale = req[r].stale
        /\ req'[r].role = req[r].role
        /\ req'[r].scopes = req[r].scopes
    BY <2>3 DEF Request
  <2>. HIDE DEF next
  <2>5. ScopesOf(req[r].role)' = {}
    BY <2>1, <2>4 DEF ScopesOf
  <2>6. Fits(r)'
    BY <1>5, <2>1, <2>4, <2>5 DEF DeleteRoleScopes, Fits, ParametersFit, ReadsHoldToo, ReadsHold
  <2>7. TablesFit'
    BY <2>1 DEF TablesFit, KeysHold, Exists
  <2>. QED BY <2>1, <2>2, <2>6, <2>7, CommitKeeps
<1>6. CASE CreateRoleScopes(r)
  <2>1. TablesFit'
    BY <1>6 DEF CreateRoleScopes, TablesFit, KeysHold, Exists, Request,
       ParametersFit, Fits
  <2>. QED BY <1>6, <2>1, CommitIdleKeeps DEF CreateRoleScopes
<1>7. CASE DeleteScopesOfRole(r)
  <2>. DEFINE next == [req[r] EXCEPT !.pc = "del_role"]
  <2>1. /\ Commit(r, next)
        /\ req[r].pc = "del_scopes" /\ roleScopes' = roleScopes \ ({req[r].role} \X Scopes)
        /\ UNCHANGED <<name, unused, groups, member, groupRoles>>
    BY <1>7 DEF DeleteScopesOfRole
  <2>2. next \in Request
    BY DEF Request, PCs
  <2>3. req'[r] = next
    BY <2>1 DEF Commit
  <2>4. /\ req'[r].pc = "del_role" /\ req'[r].stale = req[r].stale
        /\ req'[r].role = req[r].role
    BY <2>3 DEF Request
  <2>. HIDE DEF next
  <2>5. ScopesOf(req[r].role)' = {} /\ GroupsOf(req[r].role)' = GroupsOf(req[r].role)
    BY <2>1, <2>4 DEF ScopesOf, GroupsOf
  <2>6. Fits(r)'
    BY <1>7, <2>1, <2>4, <2>5 DEF DeleteScopesOfRole, Fits, ParametersFit, ReadsHoldToo, ReadsHold
  <2>7. TablesFit'
    BY <2>1 DEF TablesFit, KeysHold, Exists
  <2>. QED BY <2>1, <2>2, <2>6, <2>7, CommitKeeps
<1>8. CASE DeleteRoleRow(r)
  <2>1. TablesFit'
    BY <1>8 DEF DeleteRoleRow, ScopesOf, GroupsOf, TablesFit, KeysHold, Exists, Request,
       ParametersFit, Fits
  <2>. QED BY <1>8, <2>1, CommitIdleKeeps DEF DeleteRoleRow, ScopesOf, GroupsOf
<1>9. CASE DeleteGroupMembers(r)
  <2>. DEFINE next == [req[r] EXCEPT !.pc = "grp_roles"]
  <2>1. /\ Commit(r, next)
        /\ req[r].pc = "grp_members" /\ member' = member \ {req[r].group}
        /\ UNCHANGED <<name, unused, groups, groupRoles, roleScopes>>
    BY <1>9 DEF DeleteGroupMembers
  <2>2. next \in Request
    BY DEF Request, PCs
  <2>3. req'[r] = next
    BY <2>1 DEF Commit
  <2>4. /\ req'[r].pc = "grp_roles" /\ req'[r].stale = req[r].stale
        /\ req'[r].group = req[r].group
    BY <2>3 DEF Request
  <2>. HIDE DEF next
  <2>6. Fits(r)'
    BY <1>9, <2>1, <2>4 DEF DeleteGroupMembers, Fits, ParametersFit, ReadsHoldToo, ReadsHold
  <2>7. TablesFit'
    BY <2>1 DEF TablesFit, KeysHold, Exists
  <2>. QED BY <2>1, <2>2, <2>6, <2>7, CommitKeeps
<1>10. CASE DeleteRolesOfGroup(r)
  <2>. DEFINE next == [req[r] EXCEPT !.pc = "grp_delete"]
  <2>1. /\ Commit(r, next)
        /\ req[r].pc = "grp_roles" /\ groupRoles' = groupRoles \ (Roles \X {req[r].group})
        /\ UNCHANGED <<name, unused, groups, member, roleScopes>>
    BY <1>10 DEF DeleteRolesOfGroup
  <2>2. next \in Request
    BY DEF Request, PCs
  <2>3. req'[r] = next
    BY <2>1 DEF Commit
  <2>4. /\ req'[r].pc = "grp_delete" /\ req'[r].stale = req[r].stale
        /\ req'[r].group = req[r].group
    BY <2>3 DEF Request
  <2>. HIDE DEF next
  <2>5. RolesOf(req[r].group)' = {}
    BY <2>1, <2>4 DEF RolesOf
  <2>6. Fits(r)'
    BY <1>10, <2>1, <2>4, <2>5 DEF DeleteRolesOfGroup, Fits, ParametersFit, ReadsHoldToo, ReadsHold
  <2>7. TablesFit'
    BY <2>1 DEF TablesFit, KeysHold, Exists
  <2>. QED BY <2>1, <2>2, <2>6, <2>7, CommitKeeps
<1>11. CASE DeleteGroupRow(r)
  <2>1. TablesFit'
    BY <1>11 DEF DeleteGroupRow, RolesOf, TablesFit, KeysHold, Exists, Request,
       ParametersFit, Fits
  <2>. QED BY <1>11, <2>1, CommitIdleKeeps DEF DeleteGroupRow, RolesOf
<1>. QED BY <1>1, <1>2, <1>3, <1>4, <1>5, <1>6, <1>7, <1>8, <1>9, <1>10, <1>11

LEMMA NextKeeps ==
  ASSUME Inv, [Next]_vars
  PROVE  Inv'
<1>1. CASE UNCHANGED vars
  <2>. UNCHANGED <<name, unused, groups, member, groupRoles, roleScopes, req>>
    BY <1>1 DEF vars
  <2>1. TablesFit'
    BY DEF Inv, TablesFit, KeysHold, Exists
  <2>2. ASSUME NEW p \in Requests
        PROVE  Fits(p)'
    <3>1. Fits(p) /\ req'[p] = req[p]
      BY DEF Inv
    <3>2. /\ RolesOf(req[p].group)' = RolesOf(req[p].group)
          /\ ScopesOf(req[p].role)' = ScopesOf(req[p].role)
          /\ GroupsOf(req[p].role)' = GroupsOf(req[p].role)
          /\ Named(req[p].names)' = Named(req[p].names)
          /\ RolesOfUser' = RolesOfUser /\ Privileges' = Privileges
      BY DEF RolesOf, ScopesOf, GroupsOf, Named, RolesOfUser, Privileges
    <3>. QED BY <3>1, <3>2 DEF Fits, ParametersFit, ReadsHoldToo, ReadsHold
  <2>. QED BY <2>1, <2>2 DEF Inv
<1>2. ASSUME NEW r \in Requests, Arrive(r) \/ Resume(r) \/ Abort(r)
      PROVE  Inv'
  BY <1>2, ArriveKeeps, ReadersKeep, WritersKeep DEF Resume
<1>. QED BY <1>1, <1>2 DEF Next

LEMMA InitFits == Init => Inv
<1>. SUFFICES ASSUME Init PROVE Inv
  OBVIOUS
<1>1. TablesFit
  BY DEF Init, TablesFit, KeysHold
<1>2. req \in [Requests -> Request] /\ \A r \in Requests : req[r] = Idle
  BY IdleFits DEF Init
<1>3. \A r \in Requests : Fits(r)
  BY <1>2 DEF Idle, Fits, ParametersFit, ReadsHoldToo, ReadsHold
<1>. QED BY <1>1, <1>2, <1>3 DEF Inv

LEMMA AlwaysInv == Spec => []Inv
  BY InitFits, NextKeeps, PTL DEF Spec

\* No row outlives its role or group, and what a request has read holds at
\* each of its calls unless it was overtaken (roles.service.ts).
THEOREM RolesCorrect == Spec => []RolesInv
<1>1. Inv => RolesInv
  BY InvSplits
<1>. QED BY <1>1, AlwaysInv, PTL

\* A token is signed with the privileges of one moment since it was asked for
\* (getUserPrivileges).
THEOREM TokensCorrect == Spec => []TokenIsCurrent
<1>1. Inv => TokenIsCurrent
  BY InvSplits
<1>. QED BY <1>1, AlwaysInv, PTL

----------------------------------------------------------------------------
\* updateGroupRoles and updateRoleScopes leave what was asked for.
LEMMA UpdateStep ==
  ASSUME Inv, NEW r \in Requests, ~req[r].stale
  PROVE  /\ \A g \in Groups :
              CreateGroupRoles(r) /\ g = req[r].group => RolesOf(g)' = Named(req[r].names)
         /\ \A p \in Roles :
              CreateRoleScopes(r) /\ p = req[r].role => ScopesOf(p)' = req[r].scopes
<1>. ReadsHold(req[r]) /\ req[r] \in Request
  BY DEF Inv, Fits, ReadsHoldToo
<1>1. ASSUME NEW g \in Groups, CreateGroupRoles(r), g = req[r].group
      PROVE  RolesOf(g)' = Named(req[r].names)
  <2>1. /\ req[r].roles = Named(req[r].names) /\ RolesOf(g) = {}
        /\ groupRoles' = groupRoles \cup (req[r].roles \X {g})
    BY <1>1 DEF CreateGroupRoles, ReadsHold
  <2>2. req[r].roles \subseteq Roles
    BY DEF Request
  <2>3. RolesOf(g)' = req[r].roles
    BY <2>1, <2>2 DEF RolesOf
  <2>. QED BY <2>1, <2>3
<1>2. ASSUME NEW p \in Roles, CreateRoleScopes(r), p = req[r].role
      PROVE  ScopesOf(p)' = req[r].scopes
  <2>1. /\ ScopesOf(p) = {} /\ req[r].scopes \subseteq Scopes
        /\ roleScopes' = roleScopes \cup ({p} \X req[r].scopes)
    BY <1>2 DEF CreateRoleScopes, ReadsHold, Request
  <2>. QED BY <2>1 DEF ScopesOf
<1>. QED BY <1>1, <1>2

\* A group is left with the roles, and a role with the scopes, that the last
\* update asked for, unless it was overtaken (updateGroupRoles, updateRoleScopes).
THEOREM UpdatesCorrect == Spec => UpdatesLeaveWhatWasAsked
<1>1. Inv /\ [Next]_vars =>
        [\A r \in Requests :
           LET q == req[r] IN
           ~q.stale =>
             /\ \A g \in Groups :
                  CreateGroupRoles(r) /\ g = q.group => RolesOf(g)' = Named(q.names)
             /\ \A p \in Roles :
                  CreateRoleScopes(r) /\ p = q.role => ScopesOf(p)' = q.scopes]_vars
  BY UpdateStep
<1>. QED BY <1>1, AlwaysInv, PTL DEF Spec, UpdatesLeaveWhatWasAsked

LEMMA RevokeStep ==
  ASSUME Inv, NEW r \in Requests, NEW g \in Groups, DeleteRowOfGroupRole(r), g = req[r].group,
         ~req[r].stale, ~(Cardinality(Named(req[r].names)) > 1)
  PROVE  RolesOf(g)' \cap Named(req[r].names) = {}
<1>. DEFINE named == Named(req[r].names)
<1>1. /\ req[r].role \in named
      /\ groupRoles' = groupRoles \ {<<req[r].role, g>>}
  BY DEF DeleteRowOfGroupRole, Inv, Fits, ReadsHoldToo, ReadsHold, ParametersFit, Named
<1>2. IsFiniteSet(named) /\ Cardinality(named) \in Nat
  <2>1. named \subseteq Roles
    BY DEF Named
  <2>. QED BY <2>1, RolesAssumption, FS_Subset, FS_CardinalityType
<1>3. ASSUME NEW p \in named, p # req[r].role
      PROVE  FALSE
  <2>1. {p, req[r].role} \subseteq named
    BY <1>1
  <2>2. Cardinality({p, req[r].role}) = 2
    <3>1. IsFiniteSet({req[r].role}) /\ Cardinality({req[r].role}) = 1
      BY FS_Singleton
    <3>2. Cardinality({req[r].role} \cup {p}) = Cardinality({req[r].role}) + 1
      BY <1>3, <3>1, FS_AddElement
    <3>3. {req[r].role} \cup {p} = {p, req[r].role}
      OBVIOUS
    <3>. QED BY <3>1, <3>2, <3>3
  <2>3. Cardinality({p, req[r].role}) <= Cardinality(named)
    BY <1>2, <2>1, FS_Subset
  <2>. QED BY <1>2, <2>2, <2>3
<1>4. req[r].role \notin RolesOf(g)'
  BY <1>1 DEF RolesOf
<1>. QED BY <1>1, <1>3, <1>4

\* A role taken from a group is gone, unless another shares its name or the
\* request was overtaken (deleteGroupRole).
THEOREM RevokedCorrect == Spec => RevokedIsGone
<1>1. Inv /\ [Next]_vars =>
        [\A r \in Requests, g \in Groups :
           LET q == req[r] IN
           DeleteRowOfGroupRole(r) /\ g = q.group =>
             \/ q.stale
             \/ Cardinality(Named(q.names)) > 1
             \/ RolesOf(g)' \cap Named(q.names) = {}]_vars
  BY RevokeStep
<1>. QED BY <1>1, AlwaysInv, PTL DEF Spec, RevokedIsGone

----------------------------------------------------------------------------
(* Requests served one at a time: stale stands for nothing but races.      *)

\* A request takes the step, and no other is in flight.
OneAtATime ==
  \E r \in Requests : /\ Arrive(r) \/ Resume(r) \/ Abort(r)
                      /\ \A p \in Requests \ {r} : req[p] = Idle

NoneStale == \A r \in Requests : ~req[r].stale

\* A request that is not stale, with other fields changed.
LEMMA FieldsLeaveStale ==
  ASSUME NEW q \in Request, ~q.stale
  PROVE  \A a, b, c, d :
           /\ ~[q EXCEPT !.pc = a].stale
           /\ ~[q EXCEPT !.pc = a, !.group = b].stale
           /\ ~[q EXCEPT !.pc = a, !.groups = b].stale
           /\ ~[q EXCEPT !.pc = a, !.role = b].stale
           /\ ~[q EXCEPT !.pc = a, !.roles = b].stale
           /\ ~[q EXCEPT !.pc = a, !.scopes = b].stale
           /\ ~[q EXCEPT !.pc = a, !.group = b, !.names = c].stale
           /\ ~[q EXCEPT !.pc = a, !.role = b, !.scopes = c].stale
           /\ ~[q EXCEPT !.pc = a, !.group = b, !.names = c, !.role = d].stale
  BY DEF Request

LEMMA BecomeIsFresh ==
  ASSUME Inv, NoneStale, NEW r \in Requests, NEW next, Become(r, next), ~next.stale
  PROVE  NoneStale'
  BY DEF Inv, NoneStale, Become

LEMMA CommitIsFresh ==
  ASSUME Inv, NoneStale, NEW r \in Requests, \A p \in Requests \ {r} : req[p] = Idle,
         NEW next, Commit(r, next), ~next.stale
  PROVE  NoneStale'
<1>1. ~Overtaken(Idle)
  BY DEF Overtaken, Idle
<1>2. ASSUME NEW p \in Requests \ {r}
      PROVE  ~req'[p].stale
  <2>1. req'[p].stale = (req[p].stale \/ Overtaken(req[p]))
    BY DEF Commit, Inv, Request
  <2>. QED BY <1>1, <2>1 DEF NoneStale
<1>. QED BY <1>2 DEF Commit, NoneStale

LEMMA ArriveIsFresh ==
  ASSUME Inv, NoneStale, NEW r \in Requests, \A p \in Requests \ {r} : req[p] = Idle, Arrive(r)
  PROVE  NoneStale'
<1>. Idle \in Request /\ ~Idle.stale
  BY IdleFits DEF Idle
<1>1. ASSUME NEW p \in Roles, NEW n \in Names, CreateRole(r, p, n)
      PROVE  NoneStale'
  BY <1>1, CommitIsFresh DEF CreateRole
<1>2. ASSUME NEW g \in Groups, NEW n \in Names, AddGroupRole(r, g, n)
      PROVE  NoneStale'
  BY <1>2, BecomeIsFresh, FieldsLeaveStale DEF AddGroupRole
<1>3. ASSUME NEW g \in Groups, NEW names \in SUBSET Names, UpdateGroupRoles(r, g, names)
      PROVE  NoneStale'
  BY <1>3, BecomeIsFresh, FieldsLeaveStale DEF UpdateGroupRoles
<1>4. ASSUME NEW g \in Groups, NEW n \in Names, NEW p \in Roles, DeleteGroupRole(r, g, n, p)
      PROVE  NoneStale'
  BY <1>4, BecomeIsFresh, FieldsLeaveStale DEF DeleteGroupRole
<1>5. ASSUME NEW p \in Roles, NEW scopes \in SUBSET Scopes, UpdateRoleScopes(r, p, scopes)
      PROVE  NoneStale'
  BY <1>5, BecomeIsFresh, FieldsLeaveStale DEF UpdateRoleScopes
<1>6. ASSUME NEW p \in Roles, DeleteRole(r, p)
      PROVE  NoneStale'
  BY <1>6, CommitIsFresh, FieldsLeaveStale DEF DeleteRole
<1>7. ASSUME NEW g \in Groups, DeleteGroup(r, g)
      PROVE  NoneStale'
  BY <1>7, BecomeIsFresh, FieldsLeaveStale DEF DeleteGroup
<1>8. ASSUME NEW g \in Groups, ChangeMembership(r, g)
      PROVE  NoneStale'
  BY <1>8, CommitIsFresh DEF ChangeMembership
<1>9. CASE MakeToken(r)
  BY <1>9, BecomeIsFresh, FieldsLeaveStale DEF MakeToken
<1>. QED BY <1>1, <1>2, <1>3, <1>4, <1>5, <1>6, <1>7, <1>8, <1>9 DEF Arrive

LEMMA ResumeIsFresh ==
  ASSUME Inv, NoneStale, NEW r \in Requests, \A p \in Requests \ {r} : req[p] = Idle, Resume(r)
  PROVE  NoneStale'
<1>. Idle \in Request /\ ~Idle.stale /\ req[r] \in Request /\ ~req[r].stale
  BY IdleFits DEF Idle, Inv, NoneStale
<1>1. ASSUME NEW p \in Roles, FindRole(r, p)
      PROVE  NoneStale'
  BY <1>1, BecomeIsFresh, FieldsLeaveStale DEF FindRole
<1>2. CASE FindGroupRole(r)
  BY <1>2, BecomeIsFresh, FieldsLeaveStale DEF FindGroupRole, Reply
<1>3. CASE FindRoles(r)
  BY <1>3, BecomeIsFresh, FieldsLeaveStale DEF FindRoles
<1>4. CASE ReadRoles(r)
  BY <1>4, BecomeIsFresh, FieldsLeaveStale DEF ReadRoles
<1>5. CASE ReadScopes(r)
  BY <1>5, BecomeIsFresh, FieldsLeaveStale DEF ReadScopes
<1>6. CASE SignToken(r)
  BY <1>6, BecomeIsFresh DEF SignToken, Reply
<1>7. CASE CreateGroupRole(r) \/ CreateGroupRoles(r) \/ DeleteRowOfGroupRole(r)
           \/ CreateRoleScopes(r) \/ DeleteRoleRow(r) \/ DeleteGroupRow(r)
  BY <1>7, CommitIsFresh
     DEF CreateGroupRole, CreateGroupRoles, DeleteRowOfGroupRole, CreateRoleScopes,
         DeleteRoleRow, DeleteGroupRow
<1>8. CASE DeleteGroupRoles(r) \/ DeleteRoleScopes(r) \/ DeleteScopesOfRole(r)
           \/ DeleteGroupMembers(r) \/ DeleteRolesOfGroup(r)
  BY <1>8, CommitIsFresh, FieldsLeaveStale
     DEF DeleteGroupRoles, DeleteRoleScopes, DeleteScopesOfRole, DeleteGroupMembers,
         DeleteRolesOfGroup
<1>. QED BY <1>1, <1>2, <1>3, <1>4, <1>5, <1>6, <1>7, <1>8 DEF Resume

\* Of requests served one at a time none is ever stale.
LEMMA NoneIsOvertaken == Spec /\ [][OneAtATime]_vars => []NoneStale
<1>1. Init => NoneStale
  BY DEF Init, NoneStale, Idle
<1>2. Inv /\ NoneStale /\ [OneAtATime]_vars => NoneStale'
  <2>1. ASSUME Inv, NoneStale, NEW r \in Requests, Abort(r)
        PROVE  NoneStale'
    BY <2>1, BecomeIsFresh DEF Abort, Reply, Idle
  <2>2. UNCHANGED vars /\ NoneStale => NoneStale'
    BY DEF vars, NoneStale
  <2>. QED BY <2>1, <2>2, ArriveIsFresh, ResumeIsFresh DEF OneAtATime
<1>. QED BY <1>1, <1>2, AlwaysInv, PTL DEF Spec


\* A token says what the user may do when it is signed, if requests are served
\* one at a time (getUserPrivileges).
THEOREM TokensCurrentOneAtATime ==
  Spec /\ [][OneAtATime]_vars =>
    [](\A r \in Requests : req[r].pc = "tok_sign" => req[r].scopes = Privileges)
<1>1. TokenIsCurrent /\ NoneStale =>
        \A r \in Requests : req[r].pc = "tok_sign" => req[r].scopes = Privileges
  BY DEF TokenIsCurrent, NoneStale
<1>. QED BY <1>1, TokensCorrect, NoneIsOvertaken, PTL

\* Each update of the roles of a group, or of the scopes of a role, leaves what
\* it was asked for, if requests are served one at a time (updateGroupRoles,
\* updateRoleScopes).
THEOREM UpdatesOneAtATime ==
  Spec /\ [][OneAtATime]_vars =>
    [][\A r \in Requests :
         /\ \A g \in Groups :
              CreateGroupRoles(r) /\ g = req[r].group => RolesOf(g)' = Named(req[r].names)
         /\ \A p \in Roles :
              CreateRoleScopes(r) /\ p = req[r].role => ScopesOf(p)' = req[r].scopes]_vars
<1>1. Inv /\ NoneStale /\ [Next]_vars =>
        [\A r \in Requests :
           /\ \A g \in Groups :
                CreateGroupRoles(r) /\ g = req[r].group => RolesOf(g)' = Named(req[r].names)
           /\ \A p \in Roles :
                CreateRoleScopes(r) /\ p = req[r].role => ScopesOf(p)' = req[r].scopes]_vars
  BY UpdateStep DEF NoneStale
<1>. QED BY <1>1, AlwaysInv, NoneIsOvertaken, PTL DEF Spec
=============================================================================
