------------------------------ MODULE Requests ------------------------------
(***************************************************************************)
(* What becomes of an HTTP request: StaartAuthGuard and StaartStrategy     *)
(* tell who calls, ScopesGuard whether the scopes of the caller admit the  *)
(* route, RateLimitInterceptor counts it, the handler runs and AuditLogger *)
(* records it.  A refused request changes nothing before the rate limit,   *)
(* and is left out.                                                        *)
(*                                                                         *)
(* Callers are of three classes, each with a limiter of its own (no state  *)
(* is common to two of them), and those of one behaviour are all of one:   *)
(* anybody on the public routes, one user with the access token that was   *)
(* last made for it, API keys of the groups and of the user.               *)
(***************************************************************************)
EXTENDS Routes, Naturals

CONSTANTS
  Groups,    \* all groups
  Parent,    \* the parent of each group, None at the top
  Joinable,  \* groups that the user's role may change in
  Keys,      \* what limiters tell callers apart by: the last part of the address
  Points,    \* of each class of callers: the points of a window
  Requests   \* slots for requests in flight

Roles == {"OWNER", "ADMIN", "MEMBER"}
Classes == {"public", "user", "api-key"}

ASSUME RequestsAssumption ==
  /\ None \notin Groups \cup Roles \cup getWebhookScopes
  /\ Parent \in [Groups -> Groups \cup {None}]
  /\ Joinable \subseteq Groups
  /\ Points \in [Classes -> Nat]

VARIABLES
  class,      \* the class of the callers
  sudo,       \* the user is a superadmin
  role,       \* the role of the user in each group, None without a membership
  token,      \* what the user's access token says, None when there is none
  spent,      \* the limiter of the class: points counted for each key, in this window
  let,        \* history: points let through, in this window
  guesses,    \* history: passwords and codes let through to be checked, in this window
  req         \* requests in flight

vars == <<class, sudo, role, token, spent, let, guesses, req>>
standing == <<sudo, role>>
window == <<spent, let, guesses>>

Subgroups(g) == {h \in Groups : Parent[h] = g}

\* Going down from group to subgroup comes to an end.  On a cycle the recursion of
\* the code has none, and no token is signed.
ASSUME ParentAssumption ==
  \A S \in SUBSET Groups : S # {} => \E g \in S : Subgroups(g) \cap S = {}

\* Mutant: the groups above it.
GroupsAbove[g \in Groups] ==
  IF Parent[g] = None THEN {} ELSE {Parent[g]} \cup GroupsAbove[Parent[g]]

\* What recursivelyGetSubgroupIds returns: it leaves out the children of children,
\* and goes on with the children of these.
SubgroupIds[g \in Groups] ==
  Subgroups(g) \cup UNION {UNION {SubgroupIds[k] : k \in Subgroups(h)} : h \in Subgroups(g)}

\* Mutant: the other direction.
SubgroupsOrAbove(g) == GroupsAbove[g]
SubgroupsReached(g) == SubgroupIds[g]

GroupScopes ==
  [r \in Roles |-> CASE r = "OWNER" -> groupOwnerScopes
                     [] r = "ADMIN" -> groupAdminScopes
                     [] r = "MEMBER" -> groupMemberScopes]

\* Handlers that compare a password (login, updateUser with a new one) or a code.
ChecksSecret(route) ==
  \/ route.on = "nobody" /\ route.what \in {"login", "totp"}
  \/ route.on = "user" /\ route.what \in {"write-info", "write-mfa-totp",
                                         "write-mfa-sms", "write-mfa-email"}

Admitted(routes, patterns) ==
  {route \in routes : \E pattern \in patterns : Matches(route, pattern)}

\* The routes of a group that a role in it admits.
RoutesOf == [r \in Roles |-> Admitted(ScopedRoutes, GroupScopes[r])]
Token == [all : BOOLEAN, rights : [Groups -> SUBSET Roles], privileges : SUBSET userScopes]

\* A request remembers the roles that admitted it, "*" for a superadmin; one that
\* makes a token remembers what it has read of the user.
Idle == [pc |-> "idle", key |-> None, route |-> None, by |-> {},
         sudo |-> FALSE, privileges |-> {}, held |-> [g \in Groups |-> None]]

Request == [pc : {"idle", "limit", "handle", "audit", "members", "sign"}, key : Keys \cup {None},
            route : PublicRoutes \cup ScopedRoutes \cup {None}, by : SUBSET (Roles \cup {"*"}),
            sudo : BOOLEAN, privileges : SUBSET userScopes,
            held : [Groups -> Roles \cup {None}]]

TypeOK ==
  /\ class \in Classes
  /\ sudo \in BOOLEAN
  /\ role \in [Groups -> Roles \cup {None}]
  /\ token \in Token \cup {None}
  /\ spent \in [Keys -> 0 .. Points[class] + 1]
  /\ let \in [Keys -> 0 .. Points[class]]
  /\ guesses \in [Keys -> 0 .. Points[class]]
  /\ req \in [Requests -> Request]

Init ==
  /\ class \in Classes
  /\ sudo = FALSE
  /\ role = [g \in Groups |-> None]
  /\ token = None
  /\ spent = [k \in Keys |-> 0]
  /\ let = spent
  /\ guesses = spent
  /\ req = [r \in Requests |-> Idle]

Become(r, next) == req' = [req EXCEPT ![r] = next]

----------------------------------------------------------------------------
(* The guards: they run at once.                                           *)

Arrive(r, k, route, by) ==
  /\ Become(r, [Idle EXCEPT !.pc = "limit", !.key = k, !.route = route, !.by = by])
  /\ UNCHANGED <<class, standing, token, window>>

ArrivePublic(r, k, route) ==
  /\ class = "public"
  /\ route \in PublicRoutes
  /\ Arrive(r, k, route, {})

\* A superadmin, or the user itself with a scope for the route; of another
\* user's routes the guard admits none.
ArriveOfUser(r, k, route) ==
  /\ class = "user"
  /\ token # None
  /\ \/ token.all
     \/ route = Reads("user", "generic", "")
     \/ \E pattern \in token.privileges : Matches(route, pattern)
  /\ Arrive(r, k, route, IF token.all THEN {"*"} ELSE {})

ArriveInGroup(r, k, route, g) ==
  /\ class = "user"
  /\ token # None
  /\ \E held \in token.rights[g] : route \in RoutesOf[held]
  /\ Arrive(r, k, route, token.rights[g])

\* An API key with a scope of those that its creation leaves (module ApiKeys).
ArriveOfApiKey(r, k, route, pattern) ==
  /\ class = "api-key"
  /\ Matches(route, pattern)
  /\ Arrive(r, k, route, {})

----------------------------------------------------------------------------
(* The rate limit: points are counted before they are compared, and those  *)
(* of a refused request stay counted.  Beyond the limit, how far is all    *)
(* the same.                                                               *)

Least(m, n) == IF m <= n THEN m ELSE n

Count(k, points) == [spent EXCEPT ![k] = Least(@ + points, Points[class] + 1)]

LetThrough(r) ==
  LET q == req[r] IN
  /\ let' = [let EXCEPT ![q.key] = @ + q.route.points]
  /\ guesses' = [guesses EXCEPT ![q.key] =
                   IF ChecksSecret(q.route) THEN @ + 1 ELSE @]
  /\ Become(r, [q EXCEPT !.pc = "handle"])

\* Mutant: compared before they are counted.
ConsumeLate(r) ==
  LET q == req[r] IN
  /\ q.pc = "limit"
  /\ spent' = Count(q.key, q.route.points)
  /\ IF spent[q.key] < Points[class]
       THEN LetThrough(r)
       ELSE Become(r, Idle) /\ UNCHANGED <<let, guesses>>
  /\ UNCHANGED <<class, standing, token>>

Consume(r) ==
  LET q == req[r] IN
  /\ q.pc = "limit"
  /\ spent' = Count(q.key, q.route.points)
  /\ IF spent[q.key] + q.route.points <= Points[class]
       THEN LetThrough(r)
       ELSE Become(r, Idle) /\ UNCHANGED <<let, guesses>>    \* 429
  /\ UNCHANGED <<class, standing, token>>

\* No address, or none that replace can be called on: 429 too.
NoAddress(r) ==
  /\ req[r].pc = "limit"
  /\ Become(r, Idle)
  /\ UNCHANGED <<class, standing, token, window>>

\* The window of a key ends: the limiter forgets it.
WindowEnds(k) ==
  /\ spent[k] > 0
  /\ spent' = [spent EXCEPT ![k] = 0]
  /\ let' = [let EXCEPT ![k] = 0]
  /\ guesses' = [guesses EXCEPT ![k] = 0]
  /\ UNCHANGED <<class, standing, token, req>>

----------------------------------------------------------------------------
(* The handler, the other modules' concern, and the audit log.             *)

Handle(r) ==
  /\ req[r].pc = "handle"
  /\ Become(r, IF req[r].route.event = None THEN Idle ELSE [req[r] EXCEPT !.pc = "audit"])
  /\ UNCHANGED <<class, standing, token, window>>

\* A handler that throws is not recorded.
HandlerFails(r) ==
  /\ req[r].pc = "handle"
  /\ Become(r, Idle)
  /\ UNCHANGED <<class, standing, token, window>>

\* The record is created (then module Webhooks goes on), or the error is logged.
Audit(r) ==
  /\ req[r].pc = "audit"
  /\ Become(r, Idle)
  /\ UNCHANGED <<class, standing, token, window>>

----------------------------------------------------------------------------
(* The user's standing changes, and access tokens are made from it.        *)

ChangeRole(g, new) ==
  /\ class = "user"
  /\ g \in Joinable
  /\ role[g] # new
  /\ role' = [role EXCEPT ![g] = new]
  /\ UNCHANGED <<class, sudo, token, window, req>>

ChangeUser ==
  /\ class = "user"
  /\ sudo' = ~sudo
  /\ UNCHANGED <<class, role, token, window, req>>

\* getUserScopes when a session begins or is refreshed: the user's row, and of
\* who is no superadmin the scopes of the roles given to its groups (module Roles
\* makes them)...
MakeToken(r, privileges) ==
  /\ class = "user"
  /\ req[r] = Idle
  /\ Become(r, IF sudo
                 THEN [Idle EXCEPT !.pc = "sign", !.sudo = TRUE]
                 ELSE [Idle EXCEPT !.pc = "members", !.privileges = privileges])
  /\ UNCHANGED <<class, standing, token, window>>

\* ... then its memberships...
ReadMemberships(r) ==
  /\ req[r].pc = "members"
  /\ Become(r, [req[r] EXCEPT !.pc = "sign", !.held = role])
  /\ UNCHANGED <<class, standing, token, window>>

\* ... then the subgroups of their groups, level by level.  The tree of groups stays
\* as it is here, so these calls and the signing are one step.  Roles may change
\* before it.
Rights(held) ==
  [g \in Groups |-> {held[a] : a \in {b \in Groups : /\ held[b] # None
                                                     /\ g = b \/ g \in SubgroupsReached(b)}}]

SignToken(r) ==
  LET q == req[r] IN
  /\ q.pc = "sign"
  /\ token' = [all |-> q.sudo, privileges |-> q.privileges,
               rights |-> IF q.sudo THEN [g \in Groups |-> {}] ELSE Rights(q.held)]
  /\ Become(r, Idle)
  /\ UNCHANGED <<class, standing, window>>

TokenExpires ==
  /\ token # None
  /\ token' = None
  /\ UNCHANGED <<class, standing, window, req>>

----------------------------------------------------------------------------
Guards(r) ==
  /\ req[r] = Idle
  /\ \E k \in Keys :
       \/ \E route \in PublicRoutes : ArrivePublic(r, k, route)
       \/ \E route \in ScopedRoutes : ArriveOfUser(r, k, route)
       \/ \E route \in ScopedRoutes, g \in Groups : ArriveInGroup(r, k, route, g)
       \/ \E route \in ScopedRoutes, pattern \in groupOwnerScopes \cup userScopes :
            ArriveOfApiKey(r, k, route, pattern)

Continue(r) ==
  \/ Consume(r) \/ NoAddress(r)
  \/ Handle(r) \/ HandlerFails(r) \/ Audit(r)
  \/ ReadMemberships(r) \/ SignToken(r)
  \/ \E privileges \in {{}, userScopes} : MakeToken(r, privileges)

Next ==
  \/ \E r \in Requests : Guards(r) \/ Continue(r)
  \/ \E k \in Keys : WindowEnds(k)
  \/ \E g \in Groups, new \in Roles \cup {None} : ChangeRole(g, new)
  \/ ChangeUser
  \/ TokenExpires

Spec == Init /\ [][Next]_vars

----------------------------------------------------------------------------
(* Properties                                                              *)

\* The limiter (rate-limit.interceptor.ts): in one window of a key, however
\* cheap and costly routes are mixed, the points of the requests whose
\* handlers run are all counted and within the limit.
RequestsInv ==
  /\ TypeOK
  /\ \A k \in Keys : let[k] <= spent[k] /\ let[k] <= Points[class]

\* So of who has not signed in no more than a tenth of the limit is let through to
\* be checked as a password or a code (the RateLimit decorators of
\* auth.controller.ts).
GuessesAreFew == class = "public" => \A k \in Keys : 10 * guesses[k] <= Points[class]

\* Of who has, or calls with an API key, that does not hold: PATCH of a user (updateUser
\* compares the current password) and the routes that turn a second factor on cost one
\* point.  MCRequests_AllGuessesAreFew.cfg shows it.
AllGuessesAreFew == \A k \in Keys : 10 * guesses[k] <= Points[class]

\* The tables (helpers/scopes.ts) against the decorators of all controllers:
\* "Members have readonly access", "Admins can do everything except deleting
\* the group or removing members".  Whoever has only these roles in a group
\* or above it gets no other handler of the group to run.
RolesKeepToTheirRoutes ==
  \A r \in Requests :
    LET q == req[r] IN
    q.pc \in {"handle", "audit"} /\ q.route.on = "group" /\ q.by # {} =>
      /\ q.by = {"MEMBER"} => ~q.route.changes
      /\ q.by \subseteq {"ADMIN", "MEMBER"} => q.route.what \notin {"delete", "delete-membership"}

\* Every handler whose scope names a group and that changes it, and does not throw,
\* goes to the audit log, under an event that a webhook can be created for (AuditLog
\* decorators of the controllers, getWebhookScopes of webhooks.service.ts).
ChangesAreAnnounced ==
  [][\A r \in Requests :
       Handle(r) /\ req[r].route.on = "group" /\ req[r].route.changes =>
         req'[r].pc = "audit" /\ req'[r].route.event \in getWebhookScopes]_vars

\* Handlers that change a group under a scope that names none: they give and revoke
\* the roles of a group (roles/group/:groupId), and a user makes a group or leaves
\* one (users/:userId/memberships).
ChangesGroupUnnamed(route) ==
  route \in {Writes("{userId}", "write-info", ""), Writes("user", "write-membership", "*"),
            Writes("user", "delete-membership", "{id}")}

\* Of these none goes to the audit log, though add-membership and delete-membership
\* are offered to webhooks: MCRequests_AllChangesAreAnnounced.cfg shows it.
AllChangesAreAnnounced ==
  [][\A r \in Requests :
       Handle(r) /\ ChangesGroupUnnamed(req[r].route) => req'[r].pc = "audit"]_vars

\* All groups below a group: they are in every set that has its subgroups and theirs.
Below(a) ==
  {g \in Groups : \A S \in SUBSET Groups :
     Subgroups(a) \subseteq S /\ (\A h \in S : Subgroups(h) \subseteq S) => g \in S}

\* What the token is made from has changed since it was read.
Outdated(q) == q.sudo # sudo \/ (~q.sudo /\ q.held # role)

\* Unless the user's memberships, or its being a superadmin, changed after they were
\* read and before the token was signed: a token gives no right in a group but by a
\* role that the user has in the group or in one above it (getUserScopes and
\* recursivelyGetSubgroupIds of auth.service.ts), each role is good for the group
\* itself and for its children, and only a superadmin's is good for everything.
RightsAreHeld ==
  [][token' # token /\ token' # None =>
       \E r \in Requests :
         /\ req[r].pc = "sign"
         /\ \/ Outdated(req[r])
            \/ /\ token'.all = sudo
               /\ \A g \in Groups :
                    /\ \A right \in token'.rights[g] :
                         \E a \in Groups : role[a] = right /\ (a = g \/ g \in Below(a))
                    /\ ~token'.all =>
                         \A a \in {g, Parent[g]} \ {None} :
                           role[a] # None => role[a] \in token'.rights[g]]_vars
=============================================================================
