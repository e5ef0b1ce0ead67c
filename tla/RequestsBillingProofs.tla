----------------------- MODULE RequestsBillingProofs -----------------------
(***************************************************************************)
(* What Requests keeps to: first of the tables of routes and scopes, which *)
(* no behaviour changes, then of the recursion over subgroups, then of the *)
(* behaviours, by an inductive invariant, for any groups, callers, limits  *)
(* and requests.  At the end, what Billing keeps to: the two have no state *)
(* in common, and stand in one module to be checked together.              *)
(***************************************************************************)
EXTENDS Requests, Billing, TLAPS

----------------------------------------------------------------------------
(* What the constructors of routes make.                                   *)

\* The routes with these fields: one.
Row(on, what, end, changes, points, event) ==
  [on : {on}, what : {what}, end : {end}, changes : {changes}, points : {points}, event : {event}]

LEMMA ReadsRow ==
  \A on, what, end : Reads(on, what, end) \in Row(on, what, end, FALSE, 1, None)
  BY DEF Reads, Row

LEMMA WritesRow ==
  ASSUME NEW on, NEW what, NEW end
  PROVE  Writes(on, what, end) \in Row(on, what, end, TRUE, 1, None)
<1>. DEFINE route == Reads(on, what, end)
<1>1. route \in Row(on, what, end, FALSE, 1, None)
  BY ReadsRow
<1>. HIDE DEF route
<1>2. [route EXCEPT !.changes = TRUE] \in Row(on, what, end, TRUE, 1, None)
  BY <1>1 DEF Row
<1>. QED BY <1>2 DEF Writes, route

LEMMA LoggedRow ==
  ASSUME NEW on, NEW what, NEW end, NEW changes, NEW points, NEW event, NEW new,
         NEW route \in Row(on, what, end, changes, points, event)
  PROVE  Logged(route, new) \in Row(on, what, end, changes, points, new)
  BY DEF Logged, Row

LEMMA CostsRow ==
  ASSUME NEW on, NEW what, NEW end, NEW changes, NEW points, NEW event, NEW new,
         NEW route \in Row(on, what, end, changes, points, event)
  PROVE  Costs(route, new) \in Row(on, what, end, changes, new, event)
  BY DEF Costs, Row

\* What handlers of a group that change something are asked for.
Changing ==
  {"write-info", "delete", "write-membership", "delete-membership", "write-api-key",
   "delete-api-key", "write-domain", "delete-domain", "write-webhook", "delete-webhook",
   "write-billing", "delete-billing", "write-source", "delete-source",
   "write-subscription", "delete-subscription"}

\* What scopes on a group are asked for, without an end and with one.
Plain ==
  {"read-info", "read-billing", "write-info", "delete", "write-billing", "delete-billing"}

Ended ==
  {"read-api-key", "read-api-key-logs", "read-audit-log", "read-domain", "read-membership",
   "read-invoice", "read-source", "read-subscription", "read-webhook",
   "write-api-key", "delete-api-key", "write-domain", "delete-domain", "write-membership",
   "delete-membership", "write-source", "delete-source", "write-subscription",
   "delete-subscription", "write-webhook", "delete-webhook"}

Asked(what, end) ==
  \/ what \in Plain /\ end = ""
  \/ what \in Ended /\ end \in {"*", "{id}"}

\* What the properties ask of a route, and that a scope on a group is one of these.
RouteFits(route) ==
  /\ route.points \in {1, 5, 10}
  /\ route.what \in {"login", "totp"} => route.points = 10
  /\ route.on = "group" /\ route.changes =>
       route.what \in Changing /\ route.event \in getWebhookScopes
  /\ route.on = "group" => Asked(route.what, route.end)

----------------------------------------------------------------------------
(* Each table of routes, controller by controller.                         *)

LEMMA ReadsFit ==
  ASSUME NEW on, NEW what, NEW end, what \notin {"login", "totp"},
         on = "group" => Asked(what, end)
  PROVE  RouteFits(Reads(on, what, end))
<1>. DEFINE route == Reads(on, what, end)
<1>1. route \in Row(on, what, end, FALSE, 1, None)
  BY ReadsRow
<1>. HIDE DEF route
<1>2. /\ route.on = on /\ route.what = what /\ route.end = end
      /\ route.points = 1 /\ route.changes = FALSE
  BY <1>1 DEF Row
<1>3. RouteFits(route)
  BY <1>2 DEF RouteFits
<1>. QED BY <1>3 DEF route

LEMMA LoggedReadsFit ==
  ASSUME NEW on, NEW what, NEW end, NEW event, what \notin {"login", "totp"},
         on = "group" => Asked(what, end)
  PROVE  RouteFits(Logged(Reads(on, what, end), event))
<1>. DEFINE route == Logged(Reads(on, what, end), event)
<1>1. route \in Row(on, what, end, FALSE, 1, event)
  BY ReadsRow, LoggedRow
<1>. HIDE DEF route
<1>2. /\ route.on = on /\ route.what = what /\ route.end = end
      /\ route.points = 1 /\ route.changes = FALSE
  BY <1>1 DEF Row
<1>3. RouteFits(route)
  BY <1>2 DEF RouteFits
<1>. QED BY <1>3 DEF route

LEMMA WritesFit ==
  ASSUME NEW on, NEW what, NEW end, on # "group", what \notin {"login", "totp"}
  PROVE  RouteFits(Writes(on, what, end))
<1>. DEFINE route == Writes(on, what, end)
<1>1. route \in Row(on, what, end, TRUE, 1, None)
  BY WritesRow
<1>. HIDE DEF route
<1>2. RouteFits(route)
  BY <1>1 DEF Row, RouteFits
<1>. QED BY <1>2 DEF route

LEMMA LoggedFit ==
  ASSUME NEW what \in Changing, NEW end, NEW event \in getWebhookScopes, Asked(what, end)
  PROVE  RouteFits(Logged(Writes("group", what, end), event))
<1>. DEFINE route == Logged(Writes("group", what, end), event)
<1>1. route \in Row("group", what, end, TRUE, 1, event)
  BY WritesRow, LoggedRow
<1>. HIDE DEF route
<1>2. what \notin {"login", "totp"}
  BY DEF Changing
<1>3. RouteFits(route)
  BY <1>1, <1>2 DEF Row, RouteFits
<1>. QED BY <1>3 DEF route

LEMMA CostsFit ==
  ASSUME NEW on, NEW what, NEW end, NEW points \in {5, 10}, on # "group",
         what \in {"login", "totp"} => points = 10
  PROVE  RouteFits(Costs(Writes(on, what, end), points))
<1>. DEFINE route == Costs(Writes(on, what, end), points)
<1>1. route \in Row(on, what, end, TRUE, points, None)
  BY WritesRow, CostsRow
<1>. HIDE DEF route
<1>2. RouteFits(route)
  BY <1>1 DEF Row, RouteFits
<1>. QED BY <1>2 DEF route

LEMMA PublicRoutesFit == \A route \in PublicRoutes : RouteFits(route)
<1>1. \A route \in SignInRoutes : RouteFits(route)
  BY CostsFit DEF SignInRoutes, Public
<1>2. \A route \in OtherAuthRoutes : RouteFits(route)
  BY CostsFit, WritesFit DEF OtherAuthRoutes, Public
<1>3. \A route \in StripeWebhookRoutes \cup MetaRoutes : RouteFits(route)
  BY WritesFit, ReadsFit DEF StripeWebhookRoutes, MetaRoutes, Public
<1>. QED BY <1>1, <1>2, <1>3 DEF PublicRoutes

LEMMA PublicIsNobodys == \A route \in PublicRoutes : route.on = "nobody"
<1>1. \A path, points : /\ Public(path).on = "nobody"
                        /\ Costs(Public(path), points).on = "nobody"
                        /\ Reads("nobody", path, "").on = "nobody"
  BY DEF Public, Costs, Writes, Reads
<1>. QED BY <1>1 DEF PublicRoutes, SignInRoutes, OtherAuthRoutes, StripeWebhookRoutes, MetaRoutes

LEMMA UserRoutesFit ==
  \A route \in UNION {UsersRoutes, EmailsRoutes, SessionsRoutes, ApprovedSubnetsRoutes, MfaRoutes,
                      UserMembershipsRoutes, UserApiKeysRoutes, UserAuditLogsRoutes} :
    RouteFits(route)
<1>1. \A route \in UsersRoutes \cup EmailsRoutes : RouteFits(route)
  BY ReadsFit, WritesFit, CostsFit DEF UsersRoutes, EmailsRoutes
<1>2. \A route \in SessionsRoutes \cup ApprovedSubnetsRoutes \cup MfaRoutes : RouteFits(route)
  BY ReadsFit, WritesFit DEF SessionsRoutes, ApprovedSubnetsRoutes, MfaRoutes
<1>3. \A route \in UserMembershipsRoutes \cup UserApiKeysRoutes \cup UserAuditLogsRoutes :
        RouteFits(route)
  BY ReadsFit, WritesFit DEF UserMembershipsRoutes, UserApiKeysRoutes, UserAuditLogsRoutes
<1>. QED BY <1>1, <1>2, <1>3

LEMMA AreAsked ==
  /\ \A what \in Plain : Asked(what, "")
  /\ \A what \in Ended : Asked(what, "*") /\ Asked(what, "{id}")
  BY DEF Asked

LEMMA GroupRoutesFit ==
  \A route \in UNION {GroupsRoutes, GroupMembershipsRoutes, GroupApiKeysRoutes, DomainsRoutes,
                      WebhooksRoutes, BillingRoutes, SourcesRoutes, SubscriptionsRoutes,
                      InvoicesRoutes, GroupAuditLogsRoutes} :
    RouteFits(route)
<1>1. \A route \in GroupsRoutes : RouteFits(route)
  BY AreAsked, ReadsFit, LoggedFit
     DEF GroupsRoutes, Plain, Ended, Changing, getWebhookScopes
<1>2. \A route \in GroupMembershipsRoutes : RouteFits(route)
  BY AreAsked, ReadsFit, LoggedFit
     DEF GroupMembershipsRoutes, Plain, Ended, Changing, getWebhookScopes
<1>3. \A route \in GroupApiKeysRoutes : RouteFits(route)
  BY AreAsked, ReadsFit, LoggedFit
     DEF GroupApiKeysRoutes, Plain, Ended, Changing, getWebhookScopes
<1>4. \A route \in DomainsRoutes : RouteFits(route)
  BY AreAsked, ReadsFit, LoggedFit
     DEF DomainsRoutes, Plain, Ended, Changing, getWebhookScopes
<1>5. \A route \in WebhooksRoutes : RouteFits(route)
  BY AreAsked, ReadsFit, LoggedFit
     DEF WebhooksRoutes, Plain, Ended, Changing, getWebhookScopes
<1>6. \A route \in BillingRoutes : RouteFits(route)
  BY AreAsked, ReadsFit, LoggedFit, LoggedReadsFit
     DEF BillingRoutes, Plain, Ended, Changing, getWebhookScopes
<1>7. \A route \in SourcesRoutes : RouteFits(route)
  BY AreAsked, ReadsFit, LoggedFit
     DEF SourcesRoutes, Plain, Ended, Changing, getWebhookScopes
<1>8. \A route \in SubscriptionsRoutes : RouteFits(route)
  BY AreAsked, ReadsFit, LoggedFit
     DEF SubscriptionsRoutes, Plain, Ended, Changing, getWebhookScopes
<1>9. \A route \in InvoicesRoutes \cup GroupAuditLogsRoutes : RouteFits(route)
  BY AreAsked, ReadsFit DEF InvoicesRoutes, GroupAuditLogsRoutes, Ended
<1>. QED BY <1>1, <1>2, <1>3, <1>4, <1>5, <1>6, <1>7, <1>8, <1>9

LEMMA OtherRoutesFit ==
  \A route \in UNION {RolesRoutes, ScopesRoutes, AuditLogsRoutes, MetricsRoutes} :
    RouteFits(route)
<1>1. \A route \in RolesRoutes : RouteFits(route)
  BY ReadsFit, WritesFit DEF RolesRoutes
<1>2. \A route \in ScopesRoutes \cup AuditLogsRoutes \cup MetricsRoutes : RouteFits(route)
  BY ReadsFit, WritesFit DEF ScopesRoutes, AuditLogsRoutes, MetricsRoutes
<1>. QED BY <1>1, <1>2

LEMMA RoutesFit == \A route \in PublicRoutes \cup ScopedRoutes : RouteFits(route)
  BY PublicRoutesFit, UserRoutesFit, GroupRoutesFit, OtherRoutesFit DEF ScopedRoutes

----------------------------------------------------------------------------
(* The tables of scopes.                                                   *)

\* What a member's patterns are for.
Readable ==
  {"read-api-key", "read-api-key-logs", "read-audit-log", "read-domain", "read-membership",
   "read-invoice", "read-source", "read-subscription", "read-webhook", "read-info",
   "read-billing"}

LEMMA PatternsMake ==
  ASSUME NEW on, NEW whats, NEW pattern \in AllOf(on, whats) \cup Only(on, whats)
  PROVE  pattern.on = on /\ pattern.what \in whats
<1>1. PICK what \in whats, end \in {"*", ""} : pattern = Pattern(on, what, end)
  BY DEF AllOf, Only
<1>. QED BY <1>1 DEF Pattern

LEMMA MemberPatterns ==
  \A pattern \in groupMemberScopes : pattern.on = "group" /\ pattern.what \in Readable
  BY PatternsMake DEF groupMemberScopes, Readable

LEMMA AdminPatterns ==
  \A pattern \in groupAdminScopes :
    /\ pattern.on = "group"
    /\ pattern.what \in Readable \cup (Changing \ {"delete", "delete-membership"})
  BY MemberPatterns, PatternsMake DEF groupAdminScopes, Changing

LEMMA RoutesByRole ==
  /\ RoutesOf["OWNER"] = Admitted(ScopedRoutes, groupOwnerScopes)
  /\ RoutesOf["ADMIN"] = Admitted(ScopedRoutes, groupAdminScopes)
  /\ RoutesOf["MEMBER"] = Admitted(ScopedRoutes, groupMemberScopes)
  BY DEF RoutesOf, Roles, GroupScopes

\* Every scope that is asked for on a group is in a table.
LEMMA PatternsMatch ==
  ASSUME NEW route, route.on = "group", Asked(route.what, route.end)
  PROVE  /\ \E pattern \in groupOwnerScopes : Matches(route, pattern)
         /\ route.what \notin {"delete", "delete-membership"} =>
              \E pattern \in groupAdminScopes : Matches(route, pattern)
<1>1. \A whats : \A what \in whats : /\ Pattern("group", what, "*") \in AllOf("group", whats)
                                   /\ Pattern("group", what, "") \in Only("group", whats)
  BY DEF AllOf, Only
<1>. DEFINE pattern == Pattern("group", route.what, IF route.end = "" THEN "" ELSE "*")
<1>2. Matches(route, pattern)
  BY DEF Matches, Pattern
<1>3. CASE route.what \in Plain /\ route.end = ""
  <2>1. pattern \in groupOwnerScopes
    BY <1>1, <1>3 DEF Plain, groupOwnerScopes, groupMemberScopes
  <2>2. route.what # "delete" => pattern \in groupAdminScopes
    BY <1>1, <1>3 DEF Plain, groupAdminScopes, groupMemberScopes
  <2>. HIDE DEF pattern
  <2>. QED BY <1>2, <2>1, <2>2
<1>4. CASE route.what \in Ended /\ route.end \in {"*", "{id}"}
  <2>1. pattern \in groupOwnerScopes
    BY <1>1, <1>4 DEF Ended, groupOwnerScopes, groupMemberScopes
  <2>2. route.what # "delete-membership" => pattern \in groupAdminScopes
    BY <1>1, <1>4 DEF Ended, groupAdminScopes, groupMemberScopes
  <2>. HIDE DEF pattern
  <2>. QED BY <1>2, <2>1, <2>2
<1>. QED BY <1>3, <1>4 DEF Asked

\* The routes that ask for a scope on a group.
OnGroup == {route \in ScopedRoutes : route.on = "group"}

LEMMA OwnersDoAll == RoutesOf["OWNER"] = OnGroup
<1>1. \A pattern \in groupOwnerScopes : pattern.on = "group"
  BY MemberPatterns, PatternsMake DEF groupOwnerScopes
<1>2. \A route \in RoutesOf["OWNER"] : route \in OnGroup
  BY <1>1, RoutesByRole DEF Admitted, Matches, OnGroup
<1>3. \A route \in OnGroup : route \in RoutesOf["OWNER"]
  BY RoutesByRole, RoutesFit, PatternsMatch DEF Admitted, OnGroup, RouteFits
<1>. QED BY <1>2, <1>3

LEMMA AdminsDoAllBut ==
  RoutesOf["ADMIN"] = {route \in OnGroup : route.what \notin {"delete", "delete-membership"}}
<1>1. ASSUME NEW route, NEW pattern \in groupAdminScopes, Matches(route, pattern)
      PROVE  route.on = "group" /\ route.what \notin {"delete", "delete-membership"}
  BY <1>1, AdminPatterns DEF Matches, Readable, Changing
<1>2. \A route \in RoutesOf["ADMIN"] :
        route \in OnGroup /\ route.what \notin {"delete", "delete-membership"}
  BY <1>1, RoutesByRole DEF Admitted, OnGroup
<1>3. \A route \in OnGroup :
        route.what \notin {"delete", "delete-membership"} => route \in RoutesOf["ADMIN"]
  BY RoutesByRole, RoutesFit, PatternsMatch DEF Admitted, OnGroup, RouteFits
<1>. QED BY <1>2, <1>3

LEMMA MembersRead ==
  \A route \in RoutesOf["MEMBER"] :
    /\ route \in OnGroup
    /\ ~route.changes
    /\ route.what \notin {"delete", "delete-membership"}
<1>1. Readable \cap Changing = {}
  BY DEF Readable, Changing
<1>2. ASSUME NEW route \in ScopedRoutes, NEW pattern \in groupMemberScopes,
             Matches(route, pattern)
      PROVE  route.on = "group" /\ route.what \in Readable
  BY <1>2, MemberPatterns DEF Matches, Readable
<1>3. Readable \cap {"delete", "delete-membership"} = {}
  BY DEF Readable
<1>. QED BY <1>1, <1>2, <1>3, RoutesByRole, RoutesFit DEF Admitted, RouteFits, OnGroup

\* The tables of helpers/scopes.ts against the decorators of all controllers,
\* without a behaviour: an owner has every route of a group, an admin all but
\* those that delete the group or remove a member, and a member none that
\* changes anything.
THEOREM TablesFitRoutes ==
  /\ RoutesOf["OWNER"] = OnGroup
  /\ RoutesOf["ADMIN"] = {route \in OnGroup : route.what \notin {"delete", "delete-membership"}}
  /\ RoutesOf["MEMBER"] \subseteq {route \in OnGroup : ~route.changes}
  BY OwnersDoAll, AdminsDoAllBut, MembersRead

----------------------------------------------------------------------------
(* The recursion over subgroups.  No induction is needed: an explicit set  *)
(* solves its equation, so a solution is chosen, and on groups without     *)
(* cycles two solutions differ nowhere.                                    *)

Grandchildren(g) == UNION {Subgroups(h) : h \in Subgroups(g)}

\* Closed under going down by two.
Skips(S) == \A h \in S : Grandchildren(h) \subseteq S

\* The groups below one by an odd number of steps: they are in every set with
\* its subgroups that is closed under going down by two.
OddBelow(a) ==
  {g \in Groups : \A S \in SUBSET Groups : Subgroups(a) \subseteq S /\ Skips(S) => g \in S}

LEMMA SubgroupsAreGroups ==
  \A g \in Groups : Subgroups(g) \subseteq Groups /\ Grandchildren(g) \subseteq Groups
  BY DEF Subgroups, Grandchildren

LEMMA OddBelowHas ==
  ASSUME NEW g \in Groups
  PROVE  Subgroups(g) \subseteq OddBelow(g) /\ Skips(OddBelow(g))
<1>1. Subgroups(g) \subseteq OddBelow(g)
  BY SubgroupsAreGroups DEF OddBelow
<1>2. ASSUME NEW h \in OddBelow(g), NEW k \in Grandchildren(h)
      PROVE  k \in OddBelow(g)
  <2>1. k \in Groups
    BY <1>2, SubgroupsAreGroups DEF OddBelow
  <2>2. ASSUME NEW S \in SUBSET Groups, Subgroups(g) \subseteq S, Skips(S)
        PROVE  k \in S
    BY <1>2, <2>2 DEF OddBelow, Skips
  <2>. QED BY <2>1, <2>2 DEF OddBelow
<1>. QED BY <1>1, <1>2 DEF Skips

LEMMA OddBelowLeast ==
  ASSUME NEW g \in Groups, NEW S \in SUBSET Groups, Subgroups(g) \subseteq S, Skips(S)
  PROVE  OddBelow(g) \subseteq S
  BY DEF OddBelow

\* What the recursion says of the value f that it gives to every group.
Solves(f) ==
  f = [g \in Groups |->
         Subgroups(g) \cup UNION {UNION {f[k] : k \in Subgroups(h)} : h \in Subgroups(g)}]

LEMMA OddBelowUnfolds ==
  ASSUME NEW g \in Groups
  PROVE  OddBelow(g) =
           Subgroups(g) \cup UNION {OddBelow(k) : k \in Grandchildren(g)}
<1>. DEFINE R == Subgroups(g) \cup UNION {OddBelow(k) : k \in Grandchildren(g)}
<1>1. ASSUME NEW k \in Grandchildren(g)
      PROVE  OddBelow(k) \subseteq OddBelow(g)
  <2>1. k \in Groups
    BY SubgroupsAreGroups
  <2>2. PICK h \in Subgroups(g) : k \in Subgroups(h)
    BY DEF Grandchildren
  <2>3. Subgroups(k) \subseteq Grandchildren(h)
    BY <2>2 DEF Grandchildren
  <2>4. Subgroups(k) \subseteq OddBelow(g)
    BY <2>2, <2>3, OddBelowHas DEF Skips
  <2>5. OddBelow(g) \in SUBSET Groups
    BY DEF OddBelow
  <2>. QED BY <2>1, <2>4, <2>5, OddBelowHas, OddBelowLeast
<1>2. R \in SUBSET Groups
  BY SubgroupsAreGroups DEF OddBelow
<1>3. Skips(R)
  <2>1. ASSUME NEW h \in Subgroups(g), NEW y \in Grandchildren(h)
        PROVE  y \in R
    <3>1. PICK k \in Subgroups(h) : y \in Subgroups(k)
      BY <2>1 DEF Grandchildren
    <3>2. k \in Grandchildren(g) /\ k \in Groups
      BY <2>1, <3>1, SubgroupsAreGroups DEF Grandchildren
    <3>3. y \in OddBelow(k)
      BY <3>1, <3>2, OddBelowHas
    <3>. QED BY <3>2, <3>3
  <2>2. ASSUME NEW k \in Grandchildren(g), NEW h \in OddBelow(k), NEW y \in Grandchildren(h)
        PROVE  y \in R
    <3>1. k \in Groups
      BY SubgroupsAreGroups
    <3>2. y \in OddBelow(k)
      BY <2>2, <3>1, OddBelowHas DEF Skips
    <3>. QED BY <3>2
  <2>. QED BY <2>1, <2>2 DEF Skips
<1>4. OddBelow(g) \subseteq R
  BY <1>2, <1>3, OddBelowLeast
<1>. QED BY <1>1, <1>4, OddBelowHas

LEMMA Unions ==
  ASSUME NEW f, NEW g \in Groups
  PROVE  UNION {UNION {f[k] : k \in Subgroups(h)} : h \in Subgroups(g)}
           = UNION {f[k] : k \in Grandchildren(g)}
  BY DEF Grandchildren

LEMMA OddBelowSolves == Solves([g \in Groups |-> OddBelow(g)])
<1>. DEFINE f == [g \in Groups |-> OddBelow(g)]
<1>1. ASSUME NEW g \in Groups
      PROVE  f[g] = Subgroups(g)
                      \cup UNION {UNION {f[k] : k \in Subgroups(h)} : h \in Subgroups(g)}
  <2>1. \A k \in Grandchildren(g) : f[k] = OddBelow(k)
    BY SubgroupsAreGroups
  <2>2. UNION {f[k] : k \in Grandchildren(g)} = UNION {OddBelow(k) : k \in Grandchildren(g)}
    BY <2>1
  <2>3. f[g] = Subgroups(g) \cup UNION {f[k] : k \in Grandchildren(g)}
    BY <2>2, OddBelowUnfolds
  <2>. HIDE DEF f
  <2>. QED BY <2>3, Unions
<1>. QED BY <1>1 DEF Solves

LEMMA SubgroupIdsSolve == Solves(SubgroupIds)
<1>1. SubgroupIds = CHOOSE f : Solves(f)
  BY DEF SubgroupIds, Solves
<1>2. \E f : Solves(f)
  BY OddBelowSolves
<1>. QED BY <1>1, <1>2

\* recursivelyGetSubgroupIds (auth.service.ts) returns the groups below by an
\* odd number of steps: all of these and no other, however groups without cycles nest.
THEOREM SubgroupIdsAreOdd == \A g \in Groups : SubgroupIds[g] = OddBelow(g)
<1>. DEFINE S == {g \in Groups : SubgroupIds[g] # OddBelow(g)}
            T == {h \in Groups : Subgroups(h) \cap S # {}}
<1>1. SUFFICES ASSUME S # {}
               PROVE  FALSE
  OBVIOUS
<1>2. PICK g \in S \cup T : Subgroups(g) \cap (S \cup T) = {}
  BY <1>1, ParentAssumption
<1>3. g \in S
  BY <1>2
<1>4. \A k \in Grandchildren(g) : SubgroupIds[k] = OddBelow(k)
  <2>1. \A h \in Subgroups(g) : h \in Groups /\ Subgroups(h) \cap S = {}
    BY <1>2, <1>3, SubgroupsAreGroups
  <2>. QED BY <2>1, SubgroupsAreGroups, <1>3 DEF Grandchildren
<1>5. SubgroupIds[g] = Subgroups(g) \cup UNION {SubgroupIds[k] : k \in Grandchildren(g)}
  BY <1>3, SubgroupIdsSolve, Unions DEF Solves
<1>6. SubgroupIds[g] = OddBelow(g)
  BY <1>3, <1>4, <1>5, OddBelowUnfolds
<1>. QED BY <1>3, <1>6

LEMMA SubgroupIdsBounds ==
  ASSUME NEW g \in Groups
  PROVE  Subgroups(g) \subseteq SubgroupIds[g] /\ SubgroupIds[g] \subseteq Below(g)
<1>1. Below(g) \in SUBSET Groups /\ Subgroups(g) \subseteq Below(g)
  BY SubgroupsAreGroups DEF Below
<1>2. \A h \in Below(g) : Subgroups(h) \subseteq Below(g)
  BY SubgroupsAreGroups DEF Below
<1>3. Skips(Below(g))
  BY <1>2 DEF Skips, Grandchildren
<1>. QED BY <1>1, <1>3, SubgroupIdsAreOdd, OddBelowHas, OddBelowLeast

LEMMA BelowUnfolds ==
  ASSUME NEW a \in Groups, NEW g \in Below(a)
  PROVE  g \in Subgroups(a) \/ \E h \in Subgroups(a) : g \in Below(h)
<1>. DEFINE S == {x \in Groups : x \in Subgroups(a) \/ \E h \in Subgroups(a) : x \in Below(h)}
<1>1. ASSUME NEW x \in S, NEW y \in Subgroups(x)
      PROVE  y \in S
  <2>1. y \in Groups
    BY <1>1, SubgroupsAreGroups
  <2>2. CASE x \in Subgroups(a)
    <3>1. y \in Below(x)
      BY <2>1, <1>1 DEF Below
    <3>. QED BY <2>1, <2>2, <3>1
  <2>3. ASSUME NEW h \in Subgroups(a), x \in Below(h)
        PROVE  y \in Below(h)
    BY <2>1, <1>1, <2>3 DEF Below
  <2>. QED BY <2>1, <2>2, <2>3
<1>2. Subgroups(a) \subseteq S
  BY SubgroupsAreGroups
<1>3. g \in S
  <2>. HIDE DEF S
  <2>1. S \in SUBSET Groups
    BY DEF S
  <2>2. \A h \in S : Subgroups(h) \subseteq S
    BY <1>1
  <2>. QED BY <1>2, <2>1, <2>2 DEF Below
<1>. QED BY <1>3

LEMMA NotBelowItself == \A g \in Groups : g \notin Below(g)
<1>. SUFFICES ASSUME NEW g \in Groups, g \in Below(g)
              PROVE  FALSE
  OBVIOUS
<1>. DEFINE C == {x \in Groups : x \in Below(g) /\ g \in Below(x)}
<1>1. PICK x \in C : Subgroups(x) \cap C = {}
  BY ParentAssumption
<1>2. PICK h \in Subgroups(x) : g = h \/ g \in Below(h)
  BY <1>1, BelowUnfolds
<1>3. h \in Below(g)
  BY <1>1, <1>2, SubgroupsAreGroups DEF Below
<1>4. h \in C
  BY <1>1, <1>2, <1>3, SubgroupsAreGroups
<1>. QED BY <1>1, <1>2, <1>4

\* So it leaves out the children of children, whatever else is below: an owner of
\* a group gets no scope from that in a group two levels down.
THEOREM GrandchildrenLeftOut == \A g \in Groups : Grandchildren(g) \cap SubgroupIds[g] = {}
<1>. SUFFICES ASSUME NEW g \in Groups
              PROVE  OddBelow(g) \subseteq OddBelow(g) \ Grandchildren(g)
  BY SubgroupIdsAreOdd
<1>. DEFINE S == OddBelow(g) \ Grandchildren(g)
<1>1. OddBelow(g) \subseteq Below(g)
  BY SubgroupIdsBounds, SubgroupIdsAreOdd
<1>2. Subgroups(g) \subseteq S
  <2>1. ASSUME NEW h \in Subgroups(g), h \in Grandchildren(g)
        PROVE  g \in Subgroups(g)
    BY <2>1 DEF Subgroups, Grandchildren
  <2>. QED BY <1>1, <2>1, OddBelowHas, NotBelowItself
<1>3. Skips(S)
  <2>1. ASSUME NEW x \in S, NEW y \in Grandchildren(x), y \in Grandchildren(g)
        PROVE  x = g
    BY <2>1 DEF Subgroups, Grandchildren
  <2>2. ASSUME NEW x \in S
        PROVE  Grandchildren(x) \subseteq OddBelow(g) /\ x # g
    BY <1>1, OddBelowHas, NotBelowItself DEF Skips
  <2>. QED BY <2>1, <2>2 DEF Skips
<1>4. S \in SUBSET Groups
  BY DEF OddBelow
<1>. QED BY <1>2, <1>3, <1>4, OddBelowLeast

----------------------------------------------------------------------------
(* The inductive invariant.                                                *)

\* What the guards leave of a request on its way.
Fits(q) ==
  q.pc \in {"limit", "handle", "audit"} =>
    /\ q.key \in Keys
    /\ q.route \in PublicRoutes \cup ScopedRoutes
    /\ class = "public" => q.route \in PublicRoutes
    /\ q.route.on = "group" /\ q.by # {} /\ "*" \notin q.by =>
         \E held \in q.by : q.route \in RoutesOf[held]

\* What a guess costs at the least.
Price == IF class = "public" THEN 10 ELSE 1

\* The points of a key: those let through are counted, and pay for the guesses.
Counted ==
  \A k \in Keys : /\ let[k] <= spent[k]
                  /\ let[k] <= Points[class]
                  /\ Price * guesses[k] <= let[k]

Inv == TypeOK /\ Counted /\ \A r \in Requests : Fits(req[r])

LEMMA IdleFits == Idle \in Request /\ Fits(Idle)
  BY DEF Idle, Request, Fits

LEMMA PointsFit == \A c \in Classes : Points[c] \in Nat
  BY RequestsAssumption

\* A step that leaves the limiter alone.
LEMMA BecomeKeeps ==
  ASSUME Inv, NEW r \in Requests, NEW next \in Request, Fits(next), Become(r, next),
         UNCHANGED <<class, window>>,
         sudo' \in BOOLEAN, role' \in [Groups -> Roles \cup {None}], token' \in Token \cup {None}
  PROVE  Inv'
<1>1. req' \in [Requests -> Request] /\ \A p \in Requests : Fits(req'[p])
  BY DEF Inv, TypeOK, Become
<1>2. TypeOK'
  BY <1>1 DEF Inv, TypeOK, window
<1>3. Counted'
  BY DEF Inv, Counted, Price, window
<1>4. \A p \in Requests : Fits(req[p])'
  BY <1>1 DEF Fits
<1>. QED BY <1>2, <1>3, <1>4 DEF Inv

LEMMA StandingTyped == Inv => /\ sudo \in BOOLEAN
                              /\ role \in [Groups -> Roles \cup {None}]
                              /\ token \in Token \cup {None}
  BY DEF Inv, TypeOK

LEMMA ArriveKeeps ==
  ASSUME Inv, NEW r \in Requests, NEW k \in Keys, NEW route \in PublicRoutes \cup ScopedRoutes,
         NEW by \in SUBSET (Roles \cup {"*"}),
         class = "public" => route \in PublicRoutes,
         route.on = "group" /\ by # {} /\ "*" \notin by =>
           \E held \in by : route \in RoutesOf[held],
         Arrive(r, k, route, by)
  PROVE  Inv'
<1>. DEFINE next == [Idle EXCEPT !.pc = "limit", !.key = k, !.route = route, !.by = by]
<1>1. /\ next \in Request
      /\ next.pc = "limit" /\ next.key = k /\ next.route = route /\ next.by = by
  BY IdleFits DEF Request
<1>. HIDE DEF next
<1>2. Fits(next)
  BY <1>1 DEF Fits
<1>3. Become(r, next) /\ UNCHANGED <<class, standing, token, window>>
  BY DEF Arrive, next
<1>. QED BY <1>1, <1>2, <1>3, StandingTyped, BecomeKeeps DEF standing

----------------------------------------------------------------------------
(* The guards.                                                             *)

LEMMA GuardsKeep ==
  ASSUME Inv, NEW r \in Requests, Guards(r)
  PROVE  Inv'
<1>1. ASSUME NEW k \in Keys, NEW route \in PublicRoutes, ArrivePublic(r, k, route)
      PROVE  Inv'
  BY <1>1, ArriveKeeps DEF ArrivePublic
<1>2. ASSUME NEW k \in Keys, NEW route \in ScopedRoutes, ArriveOfUser(r, k, route)
      PROVE  Inv'
  <2>. DEFINE by == IF token.all THEN {"*"} ELSE {}
  <2>1. by \in SUBSET (Roles \cup {"*"}) /\ (by = {} \/ "*" \in by) /\ Arrive(r, k, route, by)
    BY <1>2 DEF ArriveOfUser
  <2>2. class # "public" /\ route \in PublicRoutes \cup ScopedRoutes
    BY <1>2 DEF ArriveOfUser
  <2>. QED BY <2>1, <2>2, ArriveKeeps
<1>3. ASSUME NEW k \in Keys, NEW route \in ScopedRoutes, NEW g \in Groups,
             ArriveInGroup(r, k, route, g)
      PROVE  Inv'
  <2>1. token.rights[g] \subseteq Roles
    BY <1>3 DEF ArriveInGroup, Inv, TypeOK, Token
  <2>. QED BY <1>3, <2>1, ArriveKeeps DEF ArriveInGroup
<1>4. ASSUME NEW k \in Keys, NEW route \in ScopedRoutes,
             NEW pattern \in groupOwnerScopes \cup userScopes,
             ArriveOfApiKey(r, k, route, pattern)
      PROVE  Inv'
  BY <1>4, ArriveKeeps DEF ArriveOfApiKey
<1>. QED BY <1>1, <1>2, <1>3, <1>4 DEF Guards

----------------------------------------------------------------------------
(* The rate limit.                                                         *)

\* A request that goes on where it is, as it is.
LEMMA MovesOn ==
  ASSUME NEW q \in Request, Fits(q), NEW pc \in {"handle", "audit"}, q.pc \in {"limit", "handle"}
  PROVE  /\ [q EXCEPT !.pc = pc] \in Request
         /\ Fits([q EXCEPT !.pc = pc])
         /\ [q EXCEPT !.pc = pc].pc = pc
         /\ [q EXCEPT !.pc = pc].route = q.route
<1>. DEFINE next == [q EXCEPT !.pc = pc]
<1>1. /\ next \in Request /\ next.pc = pc /\ next.key = q.key
      /\ next.route = q.route /\ next.by = q.by
  BY DEF Request
<1>. HIDE DEF next
<1>2. Fits(next)
  BY <1>1 DEF Fits
<1>. QED BY <1>1, <1>2 DEF next

LEMMA ConsumeKeeps ==
  ASSUME Inv, NEW r \in Requests, Consume(r)
  PROVE  Inv'
<1>. DEFINE q == req[r]
            n == q.route.points
            P == Points[class]
<1>1. q \in Request /\ Fits(q) /\ q.pc = "limit" /\ q.key \in Keys
  BY DEF Inv, TypeOK, Consume, Fits
<1>2. /\ n \in Nat /\ P \in Nat /\ Price \in {1, 10}
      /\ ChecksSecret(q.route) => Price <= n
  <2>1. n \in {1, 5, 10} /\ (q.route.what \in {"login", "totp"} => n = 10) /\ P \in Nat
    BY <1>1, RoutesFit, PointsFit DEF Inv, TypeOK, Fits, RouteFits
  <2>2. class = "public" => q.route.on = "nobody"
    BY <1>1, PublicIsNobodys DEF Fits
  <2>. HIDE DEF n
  <2>3. ChecksSecret(q.route) => Price <= n
    BY <2>1, <2>2 DEF ChecksSecret, Price
  <2>. QED BY <2>1, <2>3 DEF Price
<1>3. spent' = Count(q.key, n) /\ UNCHANGED <<class, standing, token>>
  BY DEF Consume
<1>. HIDE DEF n, P
<1>4. /\ spent \in [Keys -> 0 .. P + 1]
      /\ let \in [Keys -> 0 .. P] /\ guesses \in [Keys -> 0 .. P]
      /\ \A k \in Keys : let[k] <= spent[k] /\ let[k] <= P /\ Price * guesses[k] <= let[k]
  BY DEF Inv, TypeOK, Counted, P
<1>5. /\ spent' \in [Keys -> 0 .. P + 1]
      /\ \A k \in Keys : spent[k] <= spent'[k]
      /\ spent[q.key] + n <= P => spent'[q.key] = spent[q.key] + n
  BY <1>1, <1>2, <1>3, <1>4 DEF Count, Least, P
<1>6. CASE spent[q.key] + n <= P
  <2>. DEFINE next == [q EXCEPT !.pc = "handle"]
  <2>1. LetThrough(r)
    BY <1>6 DEF Consume, n, P
  <2>2. next \in Request /\ Fits(next) /\ Become(r, next)
    BY <1>1, <2>1, MovesOn DEF LetThrough
  <2>3. /\ let' = [let EXCEPT ![q.key] = @ + n]
        /\ guesses' = [guesses EXCEPT ![q.key] =
                         IF ChecksSecret(q.route) THEN @ + 1 ELSE @]
    BY <2>1 DEF LetThrough, n
  <2>4. /\ let[q.key] + n <= spent[q.key] + n
        /\ Price * guesses'[q.key] <= let[q.key] + n /\ guesses'[q.key] \in Nat
    <3>. DEFINE l == let[q.key]
                u == guesses[q.key]
                s == spent[q.key]
                price == Price
    <3>1. l \in Nat /\ u \in Nat /\ s \in Nat /\ price * u <= l /\ l <= s
      BY <1>1, <1>2, <1>4
    <3>2. guesses'[q.key] = IF ChecksSecret(q.route) THEN u + 1 ELSE u
      BY <1>1, <1>4, <2>3
    <3>3. price \in {1, 10} /\ (ChecksSecret(q.route) => price <= n)
      BY <1>2
    <3>. HIDE DEF l, u, s, price
    <3>4. price * (u + 1) = price * u + price
      BY <3>1, <3>3
    <3>5. l + n <= s + n /\ price * guesses'[q.key] <= l + n /\ guesses'[q.key] \in Nat
      BY <1>2, <3>1, <3>2, <3>3, <3>4
    <3>. QED BY <3>5 DEF l, s, price
  <2>5. ASSUME NEW k \in Keys
        PROVE  /\ let'[k] \in 0 .. P /\ guesses'[k] \in 0 .. P
               /\ let'[k] <= spent'[k] /\ let'[k] <= P /\ Price * guesses'[k] <= let'[k]
    BY <1>1, <1>2, <1>4, <1>5, <1>6, <2>3, <2>4
  <2>6. let' \in [Keys -> 0 .. P] /\ guesses' \in [Keys -> 0 .. P]
    BY <1>4, <2>3, <2>5
  <2>7. TypeOK'
    BY <1>3, <1>5, <2>2, <2>6 DEF Inv, TypeOK, Become, standing, P
  <2>8. Counted'
    BY <1>3, <2>5 DEF Counted, Price, P
  <2>9. \A p \in Requests : Fits(req[p])'
    BY <1>3, <2>2 DEF Inv, TypeOK, Become, Fits
  <2>. QED BY <2>7, <2>8, <2>9 DEF Inv
<1>7. CASE ~(spent[q.key] + n <= P)
  <2>1. Become(r, Idle) /\ UNCHANGED <<let, guesses>>
    BY <1>7 DEF Consume, n, P
  <2>2. TypeOK'
    BY <1>3, <1>5, <2>1, IdleFits DEF Inv, TypeOK, Become, standing, P
  <2>3. \A k \in Keys : let[k] <= spent'[k]
    BY <1>2, <1>4, <1>5
  <2>4. Counted'
    BY <1>3, <2>1, <2>3 DEF Inv, Counted, Price
  <2>5. \A p \in Requests : Fits(req[p])'
    BY <1>3, <2>1, IdleFits DEF Inv, TypeOK, Become, Fits
  <2>. QED BY <2>2, <2>4, <2>5 DEF Inv
<1>. QED BY <1>6, <1>7

LEMMA WindowEndsKeeps ==
  ASSUME Inv, NEW k \in Keys, WindowEnds(k)
  PROVE  Inv'
<1>1. Points[class] \in Nat
  BY PointsFit DEF Inv, TypeOK
<1>2. TypeOK'
  BY <1>1 DEF WindowEnds, Inv, TypeOK, standing
<1>3. Counted'
  BY <1>1 DEF WindowEnds, Inv, TypeOK, Counted, Price
<1>4. \A r \in Requests : Fits(req[r])'
  BY DEF WindowEnds, Inv, Fits
<1>. QED BY <1>2, <1>3, <1>4 DEF Inv

----------------------------------------------------------------------------
(* The handlers and the tokens.                                            *)

LEMMA ContinueKeeps ==
  ASSUME Inv, NEW r \in Requests, Continue(r)
  PROVE  Inv'
<1>. DEFINE q == req[r]
<1>. q \in Request /\ Fits(q)
  BY DEF Inv, TypeOK
<1>1. CASE Consume(r)
  BY <1>1, ConsumeKeeps
<1>2. CASE NoAddress(r) \/ HandlerFails(r) \/ Audit(r)
  BY <1>2, StandingTyped, IdleFits, BecomeKeeps DEF NoAddress, HandlerFails, Audit, standing
<1>3. CASE Handle(r)
  <2>. DEFINE next == [q EXCEPT !.pc = "audit"]
  <2>1. next \in Request /\ Fits(next)
    BY <1>3, MovesOn DEF Handle
  <2>. HIDE DEF next
  <2>2. Become(r, Idle) \/ Become(r, next)
    BY <1>3 DEF Handle, next
  <2>3. UNCHANGED <<class, standing, token, window>>
    BY <1>3 DEF Handle
  <2>. QED BY <2>1, <2>2, <2>3, StandingTyped, IdleFits, BecomeKeeps DEF standing
<1>4. ASSUME NEW privileges \in {{}, userScopes}, MakeToken(r, privileges)
      PROVE  Inv'
  <2>. DEFINE super == [Idle EXCEPT !.pc = "sign", !.sudo = TRUE]
              other == [Idle EXCEPT !.pc = "members", !.privileges = privileges]
  <2>1. super \in Request /\ super.pc = "sign" /\ other \in Request /\ other.pc = "members"
    BY <1>4, IdleFits DEF Request
  <2>2. Become(r, IF sudo THEN super ELSE other) /\ UNCHANGED <<class, standing, token, window>>
    BY <1>4 DEF MakeToken
  <2>. HIDE DEF super, other
  <2>3. Fits(super) /\ Fits(other)
    BY <2>1 DEF Fits
  <2>. QED BY <2>1, <2>2, <2>3, StandingTyped, BecomeKeeps DEF standing
<1>5. CASE ReadMemberships(r)
  <2>. DEFINE next == [q EXCEPT !.pc = "sign", !.held = role]
  <2>1. next \in Request /\ next.pc = "sign"
    BY StandingTyped DEF Request
  <2>2. Become(r, next) /\ UNCHANGED <<class, standing, token, window>>
    BY <1>5 DEF ReadMemberships
  <2>. HIDE DEF next
  <2>3. Fits(next)
    BY <2>1 DEF Fits
  <2>. QED BY <2>1, <2>2, <2>3, StandingTyped, BecomeKeeps DEF standing
<1>6. CASE SignToken(r)
  <2>1. Rights(q.held) \in [Groups -> SUBSET Roles]
    <3>1. q.held \in [Groups -> Roles \cup {None}]
      BY DEF Request
    <3>. QED BY <3>1 DEF Rights
  <2>2. token' \in Token
    BY <1>6, <2>1 DEF SignToken, Token, Request
  <2>3. Become(r, Idle) /\ UNCHANGED <<class, standing, window>>
    BY <1>6 DEF SignToken
  <2>. QED BY <2>2, <2>3, StandingTyped, IdleFits, BecomeKeeps DEF standing
<1>. QED BY <1>1, <1>2, <1>3, <1>4, <1>5, <1>6 DEF Continue

----------------------------------------------------------------------------
(* The theorems.                                                           *)

LEMMA InitFits == Init => Inv
<1>. SUFFICES ASSUME Init
              PROVE  Inv
  OBVIOUS
<1>1. Points[class] \in Nat
  BY PointsFit DEF Init
<1>2. TypeOK
  <2>1. \A k \in Keys : spent[k] = 0 /\ let[k] = 0 /\ guesses[k] = 0
    BY DEF Init
  <2>2. /\ spent \in [Keys -> 0 .. Points[class] + 1]
        /\ let \in [Keys -> 0 .. Points[class]]
        /\ guesses \in [Keys -> 0 .. Points[class]]
    BY <1>1 DEF Init
  <2>3. req \in [Requests -> Request]
    BY IdleFits DEF Init
  <2>. QED BY <2>2, <2>3 DEF Init, TypeOK
<1>3. Counted
  BY <1>1 DEF Init, Counted, Price
<1>4. \A r \in Requests : Fits(req[r])
  BY IdleFits DEF Init
<1>. QED BY <1>2, <1>3, <1>4 DEF Inv

LEMMA NextKeeps == Inv /\ [Next]_vars => Inv'
<1>. SUFFICES ASSUME Inv, [Next]_vars
              PROVE  Inv'
  OBVIOUS
<1>1. ASSUME NEW g \in Groups, NEW new \in Roles \cup {None}, ChangeRole(g, new)
      PROVE  Inv'
  <2>1. role' \in [Groups -> Roles \cup {None}]
    BY <1>1, StandingTyped DEF ChangeRole
  <2>. QED BY <1>1, <2>1 DEF ChangeRole, Inv, TypeOK, Counted, Price, Fits, window
<1>2. CASE ChangeUser
  BY <1>2 DEF ChangeUser, Inv, TypeOK, Counted, Price, Fits, window
<1>3. CASE TokenExpires
  BY <1>3 DEF TokenExpires, Inv, TypeOK, Counted, Price, Fits, window, standing
<1>4. CASE UNCHANGED vars
  BY <1>4 DEF vars, Inv, TypeOK, Counted, Price, Fits
<1>. QED BY <1>1, <1>2, <1>3, <1>4, GuardsKeep, ContinueKeeps, WindowEndsKeeps DEF Next

\* The inductive invariant: besides types and points, that a request past the
\* guards has a route of the tables, one that a role that admitted it admits.
THEOREM InvHolds == Spec => []Inv
<1>. QED BY InitFits, NextKeeps, PTL DEF Spec

\* The points of the handlers that run in a window are all counted and within the
\* limit (rate-limit.interceptor.ts), for any limits and any number of requests.
THEOREM RequestsCorrect == Spec => []RequestsInv
<1>1. Inv => RequestsInv
  BY DEF Inv, Counted, RequestsInv
<1>. QED BY <1>1, InvHolds, PTL

\* In a window no more than a tenth of the limit is let through, of callers that have
\* not signed in, to be checked as a password or a code (the RateLimit decorators of
\* auth.controller.ts).  Of others it says nothing: their guesses cost a point.
THEOREM GuessesFew == Spec => []GuessesAreFew
<1>1. Inv => GuessesAreFew
  <2>. SUFFICES ASSUME Inv, class = "public", NEW k \in Keys
                PROVE  10 * guesses[k] <= Points[class]
    BY DEF GuessesAreFew
  <2>. DEFINE u == 10 * guesses[k]
              l == let[k]
              P == Points[class]
  <2>1. u \in Nat /\ l \in Nat /\ P \in Nat
    BY PointsFit DEF Inv, TypeOK
  <2>2. u <= l /\ l <= P
    BY DEF Inv, Counted, Price
  <2>. HIDE DEF u, l, P
  <2>3. u <= P
    BY <2>1, <2>2
  <2>. QED BY <2>3 DEF u, P
<1>. QED BY <1>1, InvHolds, PTL

\* Whoever has only these roles gets no other handler of a group to run, with any
\* token that was signed before roles changed (scopes.ts, scope.guard.ts).
THEOREM RolesKeep == Spec => []RolesKeepToTheirRoutes
<1>1. Inv => RolesKeepToTheirRoutes
  <2>. SUFFICES ASSUME Inv, NEW r \in Requests, req[r].pc \in {"handle", "audit"},
                       req[r].route.on = "group", req[r].by # {}
                PROVE  /\ req[r].by = {"MEMBER"} => ~req[r].route.changes
                       /\ req[r].by \subseteq {"ADMIN", "MEMBER"} =>
                            req[r].route.what \notin {"delete", "delete-membership"}
    BY DEF RolesKeepToTheirRoutes
  <2>1. "*" \notin req[r].by => \E held \in req[r].by : req[r].route \in RoutesOf[held]
    BY DEF Inv, Fits
  <2>. QED BY <2>1, MembersRead, AdminsDoAllBut
<1>. QED BY <1>1, InvHolds, PTL

\* A handler that changes a group has an event, so its request is not idle next.
LEMMA HandleAnnounces ==
  ASSUME Inv, NEW r \in Requests, Handle(r), req[r].route.on = "group", req[r].route.changes
  PROVE  req'[r].pc = "audit" /\ req'[r].route.event \in getWebhookScopes
<1>. DEFINE q == req[r]
            next == [q EXCEPT !.pc = "audit"]
<1>1. q \in Request /\ Fits(q) /\ q.pc = "handle"
  BY DEF Inv, TypeOK, Handle
<1>2. q.route.event \in getWebhookScopes
  BY <1>1, RoutesFit DEF Fits, RouteFits
<1>3. q.route.event # None
  BY <1>2, RequestsAssumption
<1>4. req'[r] = next
  BY <1>3 DEF Handle, Become, Inv, TypeOK
<1>5. next.pc = "audit" /\ next.route = q.route
  BY <1>1, MovesOn
<1>. QED BY <1>2, <1>4, <1>5

\* Every handler whose scope names a group, and that changes it and does not throw,
\* goes to the audit log, under an event that a webhook can be created for (audit-log.interceptor.ts).
THEOREM ChangesAnnounced == Spec => ChangesAreAnnounced
<1>1. Inv /\ [Next]_vars =>
        [\A r \in Requests :
           Handle(r) /\ req[r].route.on = "group" /\ req[r].route.changes =>
             req'[r].pc = "audit" /\ req'[r].route.event \in getWebhookScopes]_vars
  BY HandleAnnounces
<1>. QED BY <1>1, InvHolds, PTL DEF Spec, ChangesAreAnnounced

LEMMA SignedRights ==
  ASSUME Inv, NEW r \in Requests, SignToken(r), ~Outdated(req[r]), NEW g \in Groups
  PROVE  /\ \A right \in token'.rights[g] :
              \E a \in Groups : role[a] = right /\ (a = g \/ g \in Below(a))
         /\ ~token'.all =>
              \A a \in {g, Parent[g]} \ {None} : role[a] # None => role[a] \in token'.rights[g]
<1>. DEFINE q == req[r]
<1>1. /\ token'.all = q.sudo
      /\ token'.rights = IF q.sudo THEN [h \in Groups |-> {}] ELSE Rights(q.held)
  BY DEF SignToken
<1>2. q.sudo \in BOOLEAN
  BY DEF Inv, TypeOK, Request
<1>3. ASSUME NEW right \in Rights(role)[g]
      PROVE  \E a \in Groups : role[a] = right /\ (a = g \/ g \in Below(a))
  <2>1. PICK a \in Groups : role[a] = right /\ (g = a \/ g \in SubgroupIds[a])
    BY <1>3 DEF Rights, SubgroupsReached
  <2>. QED BY <2>1, SubgroupIdsBounds
<1>4. ASSUME NEW a \in {g, Parent[g]} \ {None}, role[a] # None
      PROVE  role[a] \in Rights(role)[g]
  <2>1. a \in Groups
    BY <1>4, RequestsAssumption
  <2>2. g = a \/ g \in SubgroupIds[a]
    BY <1>4, <2>1, SubgroupIdsBounds DEF Subgroups
  <2>. QED BY <1>4, <2>1, <2>2 DEF Rights, SubgroupsReached
<1>5. CASE q.sudo
  BY <1>1, <1>5
<1>6. CASE ~q.sudo
  <2>1. q.held = role
    BY <1>6 DEF Outdated
  <2>. QED BY <1>1, <1>3, <1>4, <1>6, <2>1
<1>. QED BY <1>2, <1>5, <1>6

\* There is no other way to a token.
LEMMA TokensOnlySigned ==
  ASSUME [Next]_vars, token' # token, token' # None
  PROVE  \E r \in Requests : SignToken(r)
  BY DEF Next, Guards, Continue, ArrivePublic, ArriveOfUser, ArriveInGroup, ArriveOfApiKey,
         Arrive, Consume, NoAddress, WindowEnds, Handle, HandlerFails, Audit, ChangeRole,
         ChangeUser, MakeToken, ReadMemberships, TokenExpires, vars

\* Unless what it is made from changed after it was read, a token gives no right but by
\* a role held in the group or above it, each role is good for its group and the
\* children, and only a superadmin's is good for everything (auth.service.ts).
THEOREM RightsHeld == Spec => RightsAreHeld
<1>1. ASSUME Inv, [Next]_vars, token' # token, token' # None
      PROVE  \E r \in Requests :
               /\ req[r].pc = "sign"
               /\ \/ Outdated(req[r])
                  \/ /\ token'.all = sudo
                     /\ \A g \in Groups :
                          /\ \A right \in token'.rights[g] :
                               \E a \in Groups : role[a] = right /\ (a = g \/ g \in Below(a))
                          /\ ~token'.all =>
                               \A a \in {g, Parent[g]} \ {None} :
                                 role[a] # None => role[a] \in token'.rights[g]
  <2>1. PICK r \in Requests : SignToken(r)
    BY <1>1, TokensOnlySigned
  <2>2. req[r].pc = "sign"
    BY <2>1 DEF SignToken
  <2>3. CASE Outdated(req[r])
    BY <2>2, <2>3
  <2>4. CASE ~Outdated(req[r])
    <3>1. token'.all = sudo
      BY <2>1, <2>4 DEF SignToken, Outdated
    <3>. QED BY <1>1, <2>1, <2>2, <2>4, <3>1, SignedRights
  <2>. QED BY <2>3, <2>4
<1>. QED BY <1>1, InvHolds, PTL DEF Spec, RightsAreHeld

----------------------------------------------------------------------------
(* The requests of Billing: that no customer that lives is lost but in the *)
(* ways that are named, for any groups, customers and calls.  No proof     *)
(* here uses anything from above.                                          *)

CallFits(r) == ParametersFit(calls[r]) /\ (calls[r].stale \/ ReadsHold(calls[r]))

\* What a step leaves of the tables and of Stripe.
TablesFit ==
  /\ groups \subseteq BillingGroups
  /\ id \in [BillingGroups -> Customers \cup {Nil}]
  /\ customer \in [Customers -> {"unused", "live", "deleted"}]
  /\ paying \subseteq Customers
  /\ \A c \in paying : customer[c] = "live"
  /\ \A g \in BillingGroups : id[g] # Nil => g \in groups /\ customer[id[g]] # "unused"

LEMMA BillingInvSplits ==
  BillingInv <=> /\ TablesFit
                 /\ calls \in [Calls -> Call]
                 /\ \A r \in Calls : CallFits(r)
  BY DEF BillingInv, BillingTypeOK, TablesFit, CallFits

\* No step makes a customer unused again.
UsedStay == \A c \in Customers : customer[c] # "unused" => customer'[c] # "unused"

LEMMA IdleCallFits ==
  /\ NoCall \in Call
  /\ \A r \in Calls : calls'[r] = NoCall => CallFits(r)'
  BY DEF NoCall, Call, PCs, CallFits, ParametersFit, ReadsHold

\* What a waiting request knows survives the step of another one.
LEMMA OtherCallsFit ==
  ASSUME BillingInv, NEW p \in Calls, UsedStay,
         calls'[p] = [calls[p] EXCEPT !.stale = @ \/ Overtaken(calls[p])]
  PROVE  calls'[p] \in Call /\ CallFits(p)'
<1>. DEFINE q == calls[p]
            o == Overtaken(q)
<1>. q \in Call /\ ParametersFit(q) /\ (q.stale \/ ReadsHold(q))
  BY DEF BillingInv, BillingTypeOK
<1>1. (q.stale \/ o) \in BOOLEAN
  OBVIOUS
<1>2. calls'[p].pc = q.pc /\ calls'[p].group = q.group /\ calls'[p].customer = q.customer
  BY DEF Call
<1>3. calls'[p].stale = (q.stale \/ o)
  BY DEF Call
<1>4. calls'[p] \in Call
  <2>1. \A s \in BOOLEAN : [q EXCEPT !.stale = s] \in Call
    BY DEF Call
  <2>. QED BY <1>1, <2>1
<1>5. ParametersFit(calls[p])'
  BY <1>2 DEF ParametersFit, UsedStay
<1>6. ASSUME ~calls'[p].stale
      PROVE  ~o /\ ReadsHold(q)
  BY <1>3, <1>6
<1>7. ASSUME ~o, ReadsHold(q)
      PROVE  ReadsHold(calls[p])'
  <2>1. q.pc # "idle" => q.group \in groups' /\ id'[q.group] = id[q.group]
    BY <1>7 DEF Overtaken, ReadsHold, ParametersFit
  <2>2. q.pc \in {"cre_save", "del_save"} => customer'[q.customer] = customer[q.customer]
    BY <1>7 DEF Overtaken, ParametersFit
  <2>. QED BY <1>2, <1>7, <2>1, <2>2 DEF ReadsHold, Call, PCs
<1>. QED BY <1>4, <1>5, <1>6, <1>7 DEF CallFits

\* A step that writes: what the request that takes it has to show.
LEMMA CommitKeepsBilling ==
  ASSUME BillingInv, NEW r \in Calls, NEW next, Commit(r, next),
         UsedStay, TablesFit', next \in Call, CallFits(r)'
  PROVE  BillingInv'
<1>1. ASSUME NEW p \in Calls
      PROVE  calls'[p] \in Call /\ CallFits(p)'
  <2>1. CASE p = r
    BY <2>1 DEF Commit
  <2>2. CASE p # r
    BY <2>2, OtherCallsFit DEF Commit
  <2>. QED BY <2>1, <2>2
<1>2. calls' \in [Calls -> Call]
  BY <1>1 DEF Commit
<1>. QED BY <1>1, <1>2 DEF BillingInv, BillingTypeOK, TablesFit, CallFits

\* A step that writes nothing.
LEMMA BecomeKeepsBilling ==
  ASSUME BillingInv, NEW r \in Calls, NEW next, Proceed(r, next),
         UNCHANGED <<database, stripe>>, next \in Call, CallFits(r)'
  PROVE  BillingInv'
<1>1. TablesFit'
  BY BillingInvSplits DEF TablesFit, database, stripe
<1>2. ASSUME NEW p \in Calls
      PROVE  calls'[p] \in Call /\ CallFits(p)'
  <2>1. CASE p = r
    BY <2>1 DEF Proceed, BillingInv, BillingTypeOK
  <2>2. CASE p # r
    BY <2>2 DEF Proceed, BillingInv, BillingTypeOK, CallFits, ParametersFit, ReadsHold,
                database, stripe
  <2>. QED BY <2>1, <2>2
<1>3. calls' \in [Calls -> Call]
  BY <1>2 DEF Proceed, BillingInv, BillingTypeOK
<1>. QED BY <1>1, <1>2, <1>3 DEF BillingInv, BillingTypeOK, TablesFit, CallFits

\* A write after which the request is idle.
LEMMA CommitIdleKeepsBilling ==
  ASSUME BillingInv, NEW r \in Calls, Commit(r, NoCall), UsedStay, TablesFit'
  PROVE  BillingInv'
<1>1. calls'[r] = NoCall
  BY DEF Commit
<1>. QED BY <1>1, IdleCallFits, CommitKeepsBilling

\* An operation that begins with what it is to hold at its first call.
LEMMA BeginKeepsBilling ==
  ASSUME BillingInv, NEW r \in Calls, NEW g \in BillingGroups,
         NEW pc \in PCs, Begin(r, g, pc),
         pc = "cre_stripe" => id[g] = Nil,
         pc # "cre_stripe" => pc \in {"del_stripe", "use"} /\ id[g] # Nil
  PROVE  BillingInv'
<1>. DEFINE next == [NoCall EXCEPT !.pc = pc, !.group = g, !.customer = id[g]]
<1>1. next \in Call /\ calls'[r] = next
  BY DEF Begin, Proceed, BillingInv, BillingTypeOK, NoCall, Call
<1>2. /\ calls'[r].pc = pc /\ calls'[r].group = g /\ calls'[r].customer = id[g]
  BY <1>1 DEF NoCall
<1>3. CallFits(r)'
  BY <1>2, BillingAssumption DEF Begin, CallFits, ParametersFit, ReadsHold, BillingInv,
         BillingTypeOK, database, stripe
<1>. QED BY <1>1, <1>3, BecomeKeepsBilling DEF Begin

----------------------------------------------------------------------------
(* Every action keeps the invariant.                                       *)

LEMMA ArriveKeepsBilling ==
  ASSUME BillingInv, NEW r \in Calls, Ask(r)
  PROVE  BillingInv'
<1>. TablesFit
  BY BillingInvSplits
<1>1. ASSUME NEW g \in BillingGroups, CreateCustomer(r, g)
      PROVE  BillingInv'
  BY <1>1, BeginKeepsBilling DEF CreateCustomer, PCs
<1>2. ASSUME NEW g \in BillingGroups, DeleteCustomer(r, g)
      PROVE  BillingInv'
  BY <1>2, BeginKeepsBilling DEF DeleteCustomer, PCs
<1>3. ASSUME NEW g \in BillingGroups, UseCustomer(r, g)
      PROVE  BillingInv'
  BY <1>3, BeginKeepsBilling DEF UseCustomer, PCs
<1>4. ASSUME NEW g \in BillingGroups, DeleteGroup(r, g)
      PROVE  BillingInv'
  <2>1. TablesFit' /\ UsedStay
    BY <1>4, BillingAssumption DEF DeleteGroup, TablesFit, UsedStay, stripe
  <2>. QED BY <1>4, <2>1, CommitIdleKeepsBilling DEF DeleteGroup
<1>5. ASSUME NEW g \in BillingGroups, NotFound(r, g)
      PROVE  BillingInv'
  BY <1>5 DEF NotFound, billingVars, BillingInv, BillingTypeOK, ParametersFit, ReadsHold
<1>6. ASSUME NEW g \in BillingGroups,
             NEW c \in {b \in Customers : customer[b] # "unused"} \cup {Nil},
             ReplaceGroup(r, g, c)
      PROVE  BillingInv'
  <2>1. TablesFit' /\ UsedStay
    BY <1>6, BillingAssumption DEF ReplaceGroup, TablesFit, UsedStay, stripe
  <2>. QED BY <1>6, <2>1, CommitIdleKeepsBilling DEF ReplaceGroup
<1>. QED BY <1>1, <1>2, <1>3, <1>4, <1>5, <1>6 DEF Ask

LEMMA ResumeKeepsBilling ==
  ASSUME BillingInv, NEW r \in Calls, Resume(r)
  PROVE  BillingInv'
<1>. DEFINE q == calls[r]
<1>. TablesFit /\ q \in Call /\ CallFits(r)
  BY BillingInvSplits
<1>1. ASSUME NEW c \in Customers, StripeCreates(r, c)
      PROVE  BillingInv'
  <2>. DEFINE next == [q EXCEPT !.pc = "cre_save", !.customer = c]
  <2>1. TablesFit' /\ UsedStay
    BY <1>1, BillingAssumption DEF StripeCreates, TablesFit, UsedStay, database
  <2>2. next \in Call /\ calls'[r] = next
    BY <1>1 DEF StripeCreates, Commit, Call, PCs
  <2>3. /\ calls'[r].pc = "cre_save" /\ calls'[r].group = q.group
        /\ calls'[r].customer = c /\ calls'[r].stale = q.stale
    BY <2>2 DEF Call
  <2>4. customer'[c] = "live" /\ UNCHANGED <<groups, id>>
    BY <1>1 DEF StripeCreates, TablesFit, database
  <2>5. ParametersFit(calls[r])'
    BY <1>1, <2>3, <2>4 DEF StripeCreates, CallFits, ParametersFit
  <2>6. ReadsHold(q) => ReadsHold(calls[r])'
    BY <1>1, <2>3, <2>4 DEF StripeCreates, ReadsHold
  <2>7. CallFits(r)'
    BY <2>3, <2>5, <2>6 DEF CallFits
  <2>. QED BY <1>1, <2>1, <2>2, <2>7, CommitKeepsBilling DEF StripeCreates
<1>2. CASE SaveId(r)
  <2>1. q.customer \in Customers /\ customer[q.customer] # "unused"
    BY <1>2 DEF SaveId, CallFits, ParametersFit
  <2>2. TablesFit' /\ UsedStay
    BY <1>2, <2>1, BillingAssumption DEF SaveId, Write, TablesFit, UsedStay, stripe
  <2>. QED BY <1>2, <2>2, CommitIdleKeepsBilling DEF SaveId, Write
<1>3. CASE StripeDeletes(r)
  <2>. DEFINE next == [q EXCEPT !.pc = "del_save"]
  <2>. q.customer \in Customers
    BY <1>3 DEF StripeDeletes, CallFits, ParametersFit
  <2>1. TablesFit' /\ UsedStay
    BY <1>3, BillingAssumption DEF StripeDeletes, TablesFit, UsedStay, database
  <2>2. next \in Call /\ calls'[r] = next
    BY <1>3 DEF StripeDeletes, Commit, Call, PCs
  <2>3. /\ calls'[r].pc = "del_save" /\ calls'[r].group = q.group
        /\ calls'[r].customer = q.customer /\ calls'[r].stale = q.stale
    BY <2>2 DEF Call
  <2>4. customer'[q.customer] = "deleted" /\ UNCHANGED <<groups, id>>
    BY <1>3 DEF StripeDeletes, TablesFit, database
  <2>5. ParametersFit(calls[r])'
    BY <1>3, <2>3, <2>4 DEF StripeDeletes, CallFits, ParametersFit
  <2>6. ReadsHold(q) => ReadsHold(calls[r])'
    BY <1>3, <2>3, <2>4 DEF StripeDeletes, ReadsHold
  <2>7. CallFits(r)'
    BY <2>3, <2>5, <2>6 DEF CallFits
  <2>. QED BY <1>3, <2>1, <2>2, <2>7, CommitKeepsBilling DEF StripeDeletes
<1>4. CASE ClearId(r)
  <2>1. TablesFit' /\ UsedStay
    BY <1>4, BillingAssumption DEF ClearId, Write, TablesFit, UsedStay, stripe
  <2>. QED BY <1>4, <2>1, CommitIdleKeepsBilling DEF ClearId, Write
<1>5. CASE StripeSubscribes(r)
  <2>1. q.customer \in Customers
    BY <1>5 DEF StripeSubscribes, CallFits, ParametersFit
  <2>2. TablesFit' /\ UsedStay
    BY <1>5, <2>1 DEF StripeSubscribes, TablesFit, UsedStay, database
  <2>. QED BY <1>5, <2>2, CommitIdleKeepsBilling DEF StripeSubscribes
<1>6. CASE StripeCancels(r)
  <2>1. TablesFit' /\ UsedStay
    BY <1>6 DEF StripeCancels, TablesFit, UsedStay, database
  <2>. QED BY <1>6, <2>1, CommitIdleKeepsBilling DEF StripeCancels
<1>7. CASE StripeAnswers(r)
  <2>1. calls'[r] = NoCall
    BY <1>7 DEF StripeAnswers, Proceed, BillingInv, BillingTypeOK
  <2>. QED BY <1>7, <2>1, IdleCallFits, BecomeKeepsBilling DEF StripeAnswers
<1>. QED BY <1>1, <1>2, <1>3, <1>4, <1>5, <1>6, <1>7 DEF Resume

LEMMA NextKeepsBilling ==
  ASSUME BillingInv, [BillingNext]_billingVars
  PROVE  BillingInv'
<1>1. ASSUME NEW r \in Calls, Abort(r)
      PROVE  BillingInv'
  <2>1. calls'[r] = NoCall
    BY <1>1 DEF Abort, Proceed, BillingInv, BillingTypeOK
  <2>. QED BY <1>1, <2>1, IdleCallFits, BecomeKeepsBilling DEF Abort
<1>2. CASE UNCHANGED billingVars
  BY <1>2 DEF billingVars, BillingInv, BillingTypeOK, ParametersFit, ReadsHold
<1>. QED BY <1>1, <1>2, ArriveKeepsBilling, ResumeKeepsBilling DEF BillingNext

LEMMA InitFitsBilling ==
  ASSUME BillingInit
  PROVE  BillingInv
  BY BillingAssumption DEF BillingInit, BillingInv, BillingTypeOK, ParametersFit, ReadsHold,
         NoCall, Call, PCs

\* Only live customers pay, and attributes name customers that there were
\* (stripe.service.ts): the inductive invariant, for any groups and requests.
THEOREM BillingCorrect ==
  BillingSpec => []BillingInv
<1>1. BillingInit => BillingInv
  BY InitFitsBilling
<1>2. BillingInv /\ [BillingNext]_billingVars => BillingInv'
  BY NextKeepsBilling
<1>. QED BY <1>1, <1>2, PTL DEF BillingSpec

----------------------------------------------------------------------------
(* Which steps can lose a customer.                                        *)

BillingSteps(r) == Ask(r) \/ Resume(r) \/ Abort(r)

\* A customer that comes to live belongs to a creation on its way.
LEMMA BornTracked ==
  ASSUME BillingInv, NEW r \in Calls, BillingSteps(r), NEW c \in Customers,
         customer[c] # "live", customer'[c] = "live"
  PROVE  Tracked(c)'
<1>1. PICK d \in Customers : StripeCreates(r, d)
  BY DEF BillingSteps, Ask, Resume, Abort, CreateCustomer, DeleteCustomer,
         UseCustomer, Begin, DeleteGroup, NotFound, ReplaceGroup, SaveId,
         ClearId, Write, StripeDeletes, StripeSubscribes, StripeCancels,
         StripeAnswers, stripe, billingVars, BillingInv, BillingTypeOK
<1>2. d = c
  BY <1>1 DEF StripeCreates, BillingInv, BillingTypeOK
<1>3. calls'[r] = [calls[r] EXCEPT !.pc = "cre_save", !.customer = c]
  BY <1>1, <1>2 DEF StripeCreates, Commit
<1>4. calls'[r].pc = "cre_save" /\ calls'[r].customer = c
  BY <1>3 DEF BillingInv, BillingTypeOK, Call
<1>. QED BY <1>4 DEF Tracked

\* A group stops naming a customer that lives in the ways that are named.
LEMMA NameLost ==
  ASSUME BillingInv, NEW r \in Calls, BillingSteps(r), NEW g \in BillingGroups,
         NEW c \in Customers,
         id[g] = c, id'[g] # c, customer'[c] = "live"
  PROVE  \/ groups' # groups
         \/ \E d \in Customers \cup {Nil} : ReplaceGroup(r, g, d)
         \/ calls[r].stale /\ (SaveId(r) \/ ClearId(r))
<1>. DEFINE q == calls[r]
<1>. c # Nil /\ g \in groups
  BY BillingAssumption DEF BillingInv
<1>1. CASE SaveId(r)
  <2>1. q.group = g
    BY <1>1 DEF SaveId, Write, BillingInv, BillingTypeOK
  <2>2. ~ReadsHold(q)
    BY <1>1, <2>1 DEF SaveId, ReadsHold
  <2>3. q.stale
    BY <2>2 DEF BillingInv
  <2>. QED BY <1>1, <2>3
<1>2. CASE ClearId(r)
  <2>1. q.group = g /\ customer[c] = "live"
    BY <1>2 DEF ClearId, Write, BillingInv, BillingTypeOK, stripe
  <2>2. ~ReadsHold(q)
    BY <1>2, <2>1 DEF ClearId, ReadsHold
  <2>3. q.stale
    BY <2>2 DEF BillingInv
  <2>. QED BY <1>2, <2>3
<1>3. ASSUME NEW h \in BillingGroups, DeleteGroup(r, h)
      PROVE  groups' # groups
  BY <1>3 DEF DeleteGroup
<1>4. ASSUME NEW h \in BillingGroups, NEW d \in Customers \cup {Nil}, ReplaceGroup(r, h, d)
      PROVE  ReplaceGroup(r, g, d)
  <2>1. h = g
    BY <1>4 DEF ReplaceGroup, BillingInv, BillingTypeOK
  <2>. QED BY <1>4, <2>1
<1>5. ASSUME UNCHANGED id
      PROVE  FALSE
  BY <1>5
<1>. QED
  BY <1>1, <1>2, <1>3, <1>4, <1>5
     DEF BillingSteps, Ask, Resume, Abort, CreateCustomer, DeleteCustomer,
         UseCustomer, Begin, NotFound, StripeCreates, StripeDeletes,
         StripeSubscribes, StripeCancels, StripeAnswers, database, billingVars

\* A creation between Stripe and the database that goes no further was cut short.
LEMMA CreationLost ==
  ASSUME BillingInv, NEW r \in Calls, BillingSteps(r), NEW p \in Calls,
         NEW c \in Customers,
         calls[p].pc = "cre_save", calls[p].customer = c, ~Tracked(c)'
  PROVE  p = r /\ Abort(r)
<1>1. calls'[p].pc # "cre_save" \/ calls'[p].customer # c
  BY DEF Tracked
<1>2. CASE p # r
  <2>1. calls'[p] \in {calls[p], [calls[p] EXCEPT !.stale = @ \/ Overtaken(calls[p])]}
    BY <1>2
       DEF BillingSteps, Ask, Resume, Abort, CreateCustomer, DeleteCustomer,
           UseCustomer, Begin, DeleteGroup, NotFound, ReplaceGroup, SaveId,
           ClearId, Write, StripeCreates, StripeDeletes, StripeSubscribes,
           StripeCancels, StripeAnswers, billingVars, Proceed, Commit, BillingInv,
           BillingTypeOK
  <2>2. calls'[p].pc = calls[p].pc /\ calls'[p].customer = calls[p].customer
    BY <2>1 DEF BillingInv, BillingTypeOK, Call
  <2>. QED BY <1>1, <2>2
<1>3. CASE p = r
  <2>1. SaveId(r) \/ Abort(r)
    <3>1. ~Ask(r)
      <4>1. calls[r] # NoCall
        BY <1>3 DEF NoCall
      <4>. QED
        BY <4>1 DEF Ask, CreateCustomer, DeleteCustomer, UseCustomer, Begin,
                    DeleteGroup, NotFound, ReplaceGroup
    <3>2. Resume(r) => SaveId(r)
      BY <1>3 DEF Resume, StripeCreates, StripeDeletes, ClearId, StripeSubscribes,
                  StripeCancels, StripeAnswers
    <3>. QED BY <3>1, <3>2 DEF BillingSteps
  <2>2. ~SaveId(r)
    <3>1. ASSUME SaveId(r)
          PROVE  \E g \in BillingGroups : id'[g] = c
      BY <1>3, <3>1 DEF SaveId, Write, BillingInv, BillingTypeOK
    <3>. QED BY <3>1 DEF Tracked
  <2>. QED BY <1>3, <2>1, <2>2
<1>. QED BY <1>2, <1>3

LEMMA LossNamed ==
  ASSUME BillingInv, [BillingNext]_billingVars, NEW c \in Customers,
         customer'[c] = "live", ~Tracked(c)'
  PROVE  \/ customer[c] = "live" /\ ~Tracked(c)
         \/ groups' # groups
         \/ \E r \in Calls, g \in BillingGroups, d \in Customers \cup {Nil} : ReplaceGroup(r, g, d)
         \/ \E r \in Calls :
              \/ calls[r].pc = "cre_save" /\ Abort(r)
              \/ calls[r].stale /\ (SaveId(r) \/ ClearId(r))
<1>1. CASE UNCHANGED billingVars
  BY <1>1 DEF billingVars, Tracked
<1>2. ASSUME NEW r \in Calls, BillingSteps(r), Tracked(c)
      PROVE  \/ groups' # groups
             \/ \E g \in BillingGroups, d \in Customers \cup {Nil} : ReplaceGroup(r, g, d)
             \/ calls[r].pc = "cre_save" /\ Abort(r)
             \/ calls[r].stale /\ (SaveId(r) \/ ClearId(r))
  <2>1. CASE \E g \in BillingGroups : id[g] = c
    BY <1>2, <2>1, NameLost DEF Tracked
  <2>2. CASE \E p \in Calls : calls[p].pc = "cre_save" /\ calls[p].customer = c
    BY <1>2, <2>2, CreationLost
  <2>. QED BY <1>2, <2>1, <2>2 DEF Tracked
<1>. QED BY <1>1, <1>2, BornTracked DEF BillingNext, BillingSteps

\* stripe.service.ts never loses a customer that lives but by a PUT, a
\* PATCH or a deletion of the group, a failure in the midst of a creation, or a
\* write by an operation that another has overtaken.
THEOREM CustomersTracked ==
  BillingSpec => CustomersAreTracked
<1>1. BillingInv /\ [BillingNext]_billingVars =>
        [\A c \in Customers :
           customer'[c] = "live" /\ ~Tracked(c)' =>
             \/ customer[c] = "live" /\ ~Tracked(c)
             \/ groups' # groups
             \/ \E r \in Calls, g \in BillingGroups, d \in Customers \cup {Nil} :
                  ReplaceGroup(r, g, d)
             \/ \E r \in Calls :
                  \/ calls[r].pc = "cre_save" /\ Abort(r)
                  \/ calls[r].stale /\ (SaveId(r) \/ ClearId(r))]_billingVars
  BY LossNamed
<1>. QED BY <1>1, BillingCorrect, PTL DEF BillingSpec, CustomersAreTracked

----------------------------------------------------------------------------
(* Billing requests served one at a time: stale stands for nothing but     *)
(* races.                                                                  *)

\* A request takes the step, and no other is in flight.
BillingOneAtATime ==
  \E r \in Calls : /\ Ask(r) \/ Resume(r) \/ Abort(r)
                   /\ \A p \in Calls \ {r} : calls[p] = NoCall

NoCallStale == \A r \in Calls : ~calls[r].stale

\* A request that is not stale, with other fields changed.
LEMMA FieldsLeaveStale ==
  ASSUME NEW q \in Call, ~q.stale
  PROVE  \A a, b, c :
           /\ ~[q EXCEPT !.pc = a].stale
           /\ ~[q EXCEPT !.pc = a, !.customer = b].stale
           /\ ~[q EXCEPT !.pc = a, !.group = b, !.customer = c].stale
  BY DEF Call

LEMMA ProceedIsFresh ==
  ASSUME BillingInv, NoCallStale, NEW r \in Calls, NEW next, Proceed(r, next), ~next.stale
  PROVE  NoCallStale'
  BY DEF BillingInv, BillingTypeOK, NoCallStale, Proceed

LEMMA CommitIsFresh ==
  ASSUME BillingInv, NoCallStale, NEW r \in Calls, \A p \in Calls \ {r} : calls[p] = NoCall,
         NEW next, Commit(r, next), ~next.stale
  PROVE  NoCallStale'
<1>1. ~Overtaken(NoCall)
  BY BillingAssumption DEF Overtaken, NoCall
<1>2. ASSUME NEW p \in Calls \ {r}
      PROVE  ~calls'[p].stale
  <2>1. calls'[p].stale = (calls[p].stale \/ Overtaken(calls[p]))
    BY DEF Commit, BillingInv, BillingTypeOK, Call
  <2>. QED BY <1>1, <2>1 DEF NoCallStale
<1>. QED BY <1>2 DEF Commit, NoCallStale

LEMMA BeginIsFresh ==
  ASSUME BillingInv, NoCallStale, NEW r \in Calls, NEW g, NEW pc, Begin(r, g, pc)
  PROVE  NoCallStale'
<1>. NoCall \in Call /\ ~NoCall.stale
  BY IdleCallFits DEF NoCall
<1>. QED BY ProceedIsFresh, FieldsLeaveStale DEF Begin

LEMMA StepIsFresh ==
  ASSUME BillingInv, NoCallStale, BillingOneAtATime
  PROVE  NoCallStale'
<1>1. PICK r \in Calls : /\ Ask(r) \/ Resume(r) \/ Abort(r)
                         /\ \A p \in Calls \ {r} : calls[p] = NoCall
  BY DEF BillingOneAtATime
<1>. DEFINE q == calls[r]
<1>. NoCall \in Call /\ ~NoCall.stale /\ q \in Call /\ ~q.stale
  BY IdleCallFits DEF NoCall, BillingInv, BillingTypeOK, NoCallStale
<1>2. ASSUME NEW g \in BillingGroups,
             CreateCustomer(r, g) \/ DeleteCustomer(r, g) \/ UseCustomer(r, g)
      PROVE  NoCallStale'
  BY <1>2, BeginIsFresh DEF CreateCustomer, DeleteCustomer, UseCustomer
<1>3. ASSUME NEW g \in BillingGroups, NEW c, DeleteGroup(r, g) \/ ReplaceGroup(r, g, c)
      PROVE  NoCallStale'
  BY <1>1, <1>3, CommitIsFresh DEF DeleteGroup, ReplaceGroup
<1>4. ASSUME NEW g \in BillingGroups, NotFound(r, g)
      PROVE  NoCallStale'
  BY <1>4 DEF NotFound, billingVars, NoCallStale
<1>5. ASSUME NEW c \in Customers, StripeCreates(r, c)
      PROVE  NoCallStale'
  BY <1>1, <1>5, CommitIsFresh, FieldsLeaveStale DEF StripeCreates
<1>6. CASE StripeDeletes(r)
  BY <1>1, <1>6, CommitIsFresh, FieldsLeaveStale DEF StripeDeletes
<1>7. CASE SaveId(r) \/ ClearId(r) \/ StripeSubscribes(r) \/ StripeCancels(r)
  BY <1>1, <1>7, CommitIsFresh DEF SaveId, ClearId, Write, StripeSubscribes, StripeCancels
<1>8. CASE StripeAnswers(r) \/ Abort(r)
  BY <1>8, ProceedIsFresh DEF StripeAnswers, Abort
<1>. QED BY <1>1, <1>2, <1>3, <1>4, <1>5, <1>6, <1>7, <1>8 DEF Ask, Resume

\* Of requests served one at a time none is ever stale.
LEMMA NoneIsOvertaken == BillingSpec /\ [][BillingOneAtATime]_billingVars => []NoCallStale
<1>1. BillingInit => NoCallStale
  BY DEF BillingInit, NoCallStale, NoCall
<1>2. UNCHANGED billingVars /\ NoCallStale => NoCallStale'
  BY DEF billingVars, NoCallStale
<1>. QED BY <1>1, <1>2, StepIsFresh, BillingCorrect, PTL DEF BillingSpec

\* With requests served one at a time, a customer that lives at Stripe is lost
\* only by a PUT, a PATCH or a deletion of the group, or by a failure between
\* Stripe's answer to createCustomer and the write of its id.
THEOREM TrackedOneAtATime ==
  BillingSpec /\ [][BillingOneAtATime]_billingVars =>
    [][\A c \in Customers :
         customer'[c] = "live" /\ ~Tracked(c)' =>
           \/ customer[c] = "live" /\ ~Tracked(c)
           \/ groups' # groups
           \/ \E r \in Calls, g \in BillingGroups, d \in Customers \cup {Nil} :
                ReplaceGroup(r, g, d)
           \/ \E r \in Calls : calls[r].pc = "cre_save" /\ Abort(r)]_billingVars
<1>1. BillingInv /\ NoCallStale /\ [BillingNext]_billingVars =>
        [\A c \in Customers :
           customer'[c] = "live" /\ ~Tracked(c)' =>
             \/ customer[c] = "live" /\ ~Tracked(c)
             \/ groups' # groups
             \/ \E r \in Calls, g \in BillingGroups, d \in Customers \cup {Nil} :
                  ReplaceGroup(r, g, d)
             \/ \E r \in Calls : calls[r].pc = "cre_save" /\ Abort(r)]_billingVars
  BY LossNamed DEF NoCallStale
<1>. QED BY <1>1, BillingCorrect, NoneIsOvertaken, PTL DEF BillingSpec
=============================================================================
