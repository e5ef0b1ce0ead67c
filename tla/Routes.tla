------------------------------- MODULE Routes -------------------------------
(***************************************************************************)
(* The routes of the controllers, as the decorators of their handlers      *)
(* declare them, and the tables of scopes (helpers/scopes.ts).             *)
(*                                                                         *)
(* A scope "group-{groupId}:write-domain-{id}" is on a "group", is a       *)
(* "write-domain" and ends in "{id}"; one that ends in "*" in a table      *)
(* admits every end.  Routes that differ in nothing a caller, the rate     *)
(* limit or the audit log can tell are one element of a set.               *)
(***************************************************************************)
CONSTANTS None

\* A route asks for a scope, costs a point, and is not in the audit log, but
\* where its decorators say otherwise; changes tells what its handler does.
Reads(on, what, end) ==
  [on |-> on, what |-> what, end |-> end, changes |-> FALSE, points |-> 1, event |-> None]

Writes(on, what, end) == [Reads(on, what, end) EXCEPT !.changes = TRUE]
Logged(route, event) == [route EXCEPT !.event = event]
Costs(route, points) == [route EXCEPT !.points = points]

\* A public route asks for no scope: what is its path, or the last of it.
Public(path) == Writes("nobody", path, "")

----------------------------------------------------------------------------
(* Routes for anybody                                                      *)

\* Mutant: the decorator of login/totp is lost.
SignInRoutesCheapCodes ==
  {Costs(Public(path), 10) : path \in {"login", "register", "reset-password", "token"}}
    \cup {Public("totp")}

SignInRoutes ==
  {Costs(Public(path), 10) :
     path \in {"login", "totp", "token", "register", "reset-password"}}

OtherAuthRoutes ==
  {Public(path) : path \in {"google", "facebook", "verify-email"}}
    \cup {Costs(Public(path), 5) : path \in {"refresh", "logout", "approve-subnet"}}
    \cup {Costs(Public(path), 10) :
            path \in {"resend-email-verification", "forgot-password", "merge-accounts"}}

StripeWebhookRoutes == {Public("webhooks/stripe")}
MetaRoutes == {Reads("nobody", "/", "")}

PublicRoutes == SignInRoutes \cup OtherAuthRoutes \cup StripeWebhookRoutes \cup MetaRoutes

----------------------------------------------------------------------------
(* Routes of a user                                                        *)

UsersRoutes ==
  {Reads("every user", "read-info", ""), Reads("user", "read-info", ""),
   Reads("user", "generic", ""), Writes("user", "write-info", ""),
   Writes("user", "deactivate", ""), Costs(Writes("user", "merge", ""), 10)}

EmailsRoutes ==
  {Writes("user", "write-email", "*"), Reads("user", "read-email", "*"),
   Reads("user", "read-email", "{id}"), Writes("user", "delete-email", "{id}")}

SessionsRoutes ==
  {Reads("user", "read-session", "*"), Reads("user", "read-session", "{id}"),
   Writes("user", "delete-session", "{id}")}

ApprovedSubnetsRoutes ==
  {Reads("user", "read-approved-subnet", "*"), Reads("user", "read-approved-subnet", "{id}"),
   Writes("user", "delete-approved-subnet", "{id}")}

MfaRoutes ==
  {Writes("user", "delete-mfa", "*")}
    \cup {Writes("user", what, "") : what \in {"write-mfa-regenerate", "write-mfa-totp",
                                               "write-mfa-sms", "write-mfa-email"}}

UserMembershipsRoutes ==
  {Writes("user", "write-membership", "*"), Reads("user", "read-membership", "*"),
   Reads("user", "read-membership", "{id}"), Writes("user", "delete-membership", "{id}")}

UserApiKeysRoutes ==
  {Writes("user", "write-api-key", "*"), Reads("user", "read-api-key", "*"),
   Reads("user", "write-api-key", "*"), Reads("user", "read-api-key", "{id}"),
   Writes("user", "write-api-key", "{id}"), Writes("user", "delete-api-key", "{id}"),
   Reads("user", "read-api-key-logs", "*")}

UserAuditLogsRoutes == {Reads("user", "read-audit-log", "*")}

----------------------------------------------------------------------------
(* Routes of a group                                                       *)

GroupsRoutes ==
  {Reads("every group", "read-info", ""), Reads("group", "read-info", ""),
   Logged(Writes("group", "write-info", ""), "update-info"),
   Logged(Writes("group", "delete", ""), "delete")}

GroupMembershipsRoutes ==
  {Logged(Writes("group", "write-membership", "*"), "add-membership"),
   Reads("group", "read-membership", "*"), Reads("group", "read-membership", "{id}"),
   Logged(Writes("group", "write-membership", "{id}"), "update-membership"),
   Logged(Writes("group", "delete-membership", "{id}"), "delete-membership")}

GroupApiKeysRoutes ==
  {Logged(Writes("group", "write-api-key", "*"), "create-api-key"),
   Reads("group", "read-api-key", "*"), Reads("group", "write-api-key", "*"),
   Reads("group", "read-api-key", "{id}"),
   Logged(Writes("group", "write-api-key", "{id}"), "update-api-key"),
   Logged(Writes("group", "delete-api-key", "{id}"), "delete-api-key"),
   Reads("group", "read-api-key-logs", "*")}

DomainsRoutes ==
  {Logged(Writes("group", "write-domain", "*"), "create-domain"),
   Reads("group", "read-domain", "*"), Reads("group", "read-domain", "{id}"),
   Logged(Writes("group", "delete-domain", "{id}"), "delete-domain")}
    \cup {Logged(Writes("group", "write-domain", "{id}"), event) :
            event \in {"verify-domain-txt", "verify-domain-html"}}

WebhooksRoutes ==
  {Logged(Writes("group", "write-webhook", "*"), "create-webhook"),
   Reads("group", "read-webhook", "*"), Reads("group", "write-webhook", "*"),
   Reads("group", "read-webhook", "{id}"),
   Logged(Writes("group", "write-webhook", "{id}"), "update-webhook"),
   Logged(Writes("group", "delete-webhook", "{id}"), "delete-webhook")}

BillingRoutes ==
  {Logged(Writes("group", "write-billing", ""), event) :
     event \in {"create-billing", "update-billing"}}
    \cup {Reads("group", "read-billing", ""),
          Logged(Writes("group", "delete-billing", ""), "delete-billing"),
          Logged(Reads("group", "write-billing", ""), "billing-portal")}

\* Mutant: a payment method is removed without a record.
SourcesRoutesUnlogged ==
  {Logged(Writes("group", "write-source", "*"), "write-source"),
   Reads("group", "read-source", "*"), Reads("group", "read-source", "{id}"),
   Writes("group", "delete-source", "{id}")}

SourcesRoutes ==
  {Logged(Writes("group", "write-source", "*"), "write-source"),
   Reads("group", "read-source", "*"), Reads("group", "read-source", "{id}"),
   Logged(Writes("group", "delete-source", "{id}"), "delete-source")}

\* GET plans is not a route: GET :id, declared before it, takes its requests.
SubscriptionsRoutes ==
  {Logged(Writes("group", "write-subscription", "*"), "create-subscription"),
   Reads("group", "read-subscription", "*"), Reads("group", "read-subscription", "{id}"),
   Logged(Writes("group", "delete-subscription", "{id}"), "delete-subscription")}

InvoicesRoutes ==
  {Reads("group", "read-invoice", "*"), Reads("group", "read-invoice", "{id}")}

GroupAuditLogsRoutes == {Reads("group", "read-audit-log", "*")}

----------------------------------------------------------------------------
(* Routes of neither.  Where the path has no userId, "{userId}" stays in   *)
(* the scope of the route, and no user's scope has it.                     *)

RolesRoutes ==
  {Reads("every user", "read-info", ""), Writes("every user", "read-info", ""),
   Reads("{userId}", "read-info", ""), Reads("user", "read-info", ""),
   Writes("{userId}", "write-info", "")}

ScopesRoutes == {Reads("every user", "read-info", "")}
AuditLogsRoutes == {Reads("every audit log", "read-info", "")}
MetricsRoutes == {Reads("metric", "read-process", ""), Writes("metric", "write-process", "")}

ScopedRoutes ==
  UNION {UsersRoutes, EmailsRoutes, SessionsRoutes, ApprovedSubnetsRoutes, MfaRoutes,
         UserMembershipsRoutes, UserApiKeysRoutes, UserAuditLogsRoutes,
         GroupsRoutes, GroupMembershipsRoutes, GroupApiKeysRoutes, DomainsRoutes,
         WebhooksRoutes, BillingRoutes, SourcesRoutes, SubscriptionsRoutes, InvoicesRoutes,
         GroupAuditLogsRoutes, RolesRoutes, ScopesRoutes, AuditLogsRoutes, MetricsRoutes}

----------------------------------------------------------------------------
(* The tables of scopes, and the events offered to webhooks                *)

Pattern(on, what, end) == [on |-> on, what |-> what, end |-> end]
AllOf(on, whats) == {Pattern(on, what, "*") : what \in whats}
Only(on, whats) == {Pattern(on, what, "") : what \in whats}

userScopes ==
  AllOf("user", {"write-api-key", "read-api-key", "delete-api-key", "read-api-key-logs",
                 "read-approved-subnet", "delete-approved-subnet",
                 "write-email", "read-email", "delete-email",
                 "write-membership", "read-membership", "delete-membership",
                 "delete-mfa", "read-session", "delete-session"})
    \cup Only("user", {"write-mfa-regenerate", "write-mfa-totp", "write-mfa-sms",
                       "write-mfa-email", "read-info", "write-info", "deactivate", "merge"})

groupMemberScopes ==
  AllOf("group", {"read-api-key", "read-api-key-logs", "read-audit-log", "read-domain",
                  "read-membership", "read-invoice", "read-source", "read-subscription",
                  "read-webhook"})
    \cup Only("group", {"read-info", "read-billing"})

groupOwnerScopes ==
  groupMemberScopes
    \cup AllOf("group", {"write-api-key", "delete-api-key", "write-domain", "delete-domain",
                         "write-membership", "delete-membership", "write-source",
                         "delete-source", "write-subscription", "delete-subscription",
                         "write-webhook", "delete-webhook"})
    \cup Only("group", {"write-info", "delete", "write-billing", "delete-billing"})

\* Mutant: the table of the owner.
GroupScopesOfTheOwner == groupOwnerScopes

groupAdminScopes ==
  groupMemberScopes
    \cup AllOf("group", {"write-api-key", "delete-api-key", "write-domain", "delete-domain",
                         "write-membership", "write-source", "delete-source",
                         "write-subscription", "delete-subscription",
                         "write-webhook", "delete-webhook"})
    \cup Only("group", {"write-info", "write-billing", "delete-billing"})

getWebhookScopes ==
  {"create-api-key", "update-api-key", "delete-api-key",
   "create-domain", "delete-domain", "verify-domain-txt", "verify-domain-html",
   "update-info", "delete", "add-membership", "update-membership", "delete-membership",
   "create-billing", "update-billing", "delete-billing", "write-source", "delete-source",
   "create-subscription", "delete-subscription",
   "create-webhook", "update-webhook", "delete-webhook"}

\* Whether the scope of a route matches one of a table: "read-api-key-*" also
\* matches "read-api-key-logs-*".
Matches(route, pattern) ==
  /\ route.on = pattern.on
  /\ \/ route.what = pattern.what
     \/ route.what = "read-api-key-logs" /\ pattern.what = "read-api-key"
  /\ (route.end = "") <=> (pattern.end = "")
=============================================================================
