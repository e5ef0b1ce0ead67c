# Verification of the account, membership and access core

TLA+ models of this backend, the TLC runs that check them on small instances, and
proofs about them that TLAPS checks for every instance. `PROJECT.json` lists the
runs, the source lines behind every definition, the hazards in the code, and the
findings.

    tlc -workers 2 -config MCMemberships.cfg MCMemberships
    tlapm MembershipsProofs.tla

and likewise for the other modules of the table under "Modules".

## How the program runs

The backend is one NestJS process over PostgreSQL, reached through Prisma 2.14.
The process is single-threaded: a handler runs alone from one `await` to the next,
and each Prisma call (with its nested writes) is one atomic database operation.
Handlers make several calls and, with one exception (`roles.service.ts`), open no
transaction across them. So every handler that reads, decides and then writes may
be overtaken between the read and the write, by requests and by the daily tasks.
A failing call or a restart ends a handler where it is and keeps what it wrote.

That is what the modules are about. They share one shape:

* the tables are variables, and one Prisma call is one action;
* a request in flight is a record `req[r]`; its `pc` names the call it is about to
  make, its other fields are the handler's local variables;
* `Arrive` starts a handler (and makes its first call, a read), `Resume` takes it
  through the later calls, `Abort` ends it anywhere;
* the history field `stale` of a request records that another request has changed
  what this one has read and still relies on. It never appears in a guard. The
  properties use it to say "unless overtaken", which is exactly the part of each
  check the code does not guarantee. What is left is what the code does guarantee,
  at every interleaving;
* `Acts(r)` says that it is request `r` that takes the step.

`Webhooks` adds what runs besides requests (an interceptor's callback, a queue, a
restart that loses both). `Requests` is about the way to a handler, and leaves the
handlers to the other modules.

## Inventory

| Part | State | Operations | Hard because | Right when |
|---|---|---|---|---|
| Memberships, Groups | tables Membership, Group | create a group with its owner, add, update, delete a membership, delete a group | list, re-read and delete are three calls; adding an existing member overwrites its role; no unique key on user and group | a group keeps a member and an owner, a user has one membership of a group, no row dangles |
| Domains | table Domain | create, verify (also daily), delete | verification makes verifyEmail create memberships | a group with a domain is not deleted |
| Users | table User | deactivate, delete (nine calls), change role, request a merge | deleted and merged step by step while others insert | what refers to a user goes before it |
| API keys | table ApiKey, LRU cache in memory | create, update, replace, delete, look up, two clean-ups | the cache is filled and evicted after an `await`; clean-ups write from old reads | a key carries, and is served with, what its owner may have |
| Authentication | tables Session, Email, signed tokens | register, eleven ways to sign in, refresh, logout, verify, reset, merge | some logins reactivate, others do not look | an inactive user has no session |
| Scheduled tasks | none | delete old sessions, inactive users, logs; verify domains | run between any two calls of any request | delete only what nobody has come back to |
| Emails | table Email, `prefersEmail` | add, delete, prefer | choosing the next primary email and deleting are separate calls | a user keeps an email, and its primary one exists |
| MFA, approved subnets | secrets, backup codes, subnets | enable, disable, use and regenerate codes, approve | bcrypt runs between the read of a code and its use | a code is used once |
| Webhooks, audit log | in-memory queue, table Webhook | CRUD, trigger, retry, switch off | queued with the row as it was; re-sent when a later write fails; held up by a receiver that never answers; lost at restart | an event of an active webhook is delivered unless it fails four times |
| Roles and scopes | tables Role, Scope, GroupRoles, RoleScopes | create, assign, replace all, delete | delete-all and create-all are separate | an update leaves what it was given |
| Authorization | none | scopes of a user, matching in the guard | recursion over subgroups | scopes are those of the user's groups |
| Billing | `stripeCustomerId` of a group, Stripe | create, update, delete a customer | two systems, no lock | one customer for a group |
| Rate limit | points per key or address | consume | | a request costs what its route says |
| Mail, SMS, Slack, Elasticsearch | in-memory queues | send with retries | lost at restart | |

How they meet: `memberships`, `users` and `auth` call each other's effects only
through the database; `memberships.service.ts` calls
`removeUnauthorizedScopesForUser` after each change and `users.service.ts` calls
`cleanAllApiKeysForUser` after a role change; `tasks.service.ts` calls
`deleteUser`; `merge` moves rows of eight tables. Storage, DNS, maps, mail
templates, pipes, filters, configuration and start-up hold no state of their own and
are left out (see `components`).

## Modules

| Module | Models | Proofs |
|---|---|---|
| `Memberships` | memberships, groups, domains, and the membership part of register, verifyEmail, merge, deleteUser | `MembershipsProofs` |
| `ApiKeys` | API keys, clean-ups, the LRU cache, and the key part of updateUser, deleteUser, merge | `ApiKeysProofs` |
| `Accounts` | logins, sessions, deactivation, daily tasks, merge | `AccountsProofs` |
| `Webhooks` | webhooks, the audit interceptor that triggers them, the queue that calls them | `WebhooksProofs` |
| `Deliveries` | abstract: what a queue of retried calls promises; `Webhooks` implements it | `WebhooksProofs` |
| `Emails` | emails and the primary one, in emails.service, register, merge, deleteUser | `EmailsProofs` |
| `SignIn` | second factor, backup codes, approved subnets, and the logins that ask for them | `SignInProofs` |
| `Roles` | roles given to groups, their scopes, and the token made of them | `RolesProofs` |
| `Routes` | the routes of all controllers, the tables of scopes, and how they match | `RequestsBillingProofs` |
| `Requests` | guards, rate limit and audit log on the way of a request to its handler | `RequestsBillingProofs` |
| `Billing` | the Stripe customer of a group, with Stripe as the other party | `RequestsBillingProofs` |
| `MC*` | instances for TLC | |

Each definition named in `map` stands for the lines given there; the definitions
commented "Mutant" are broken variants of the definition after them, which nothing
uses: with one in its place TLC finds the property of its `mutants` entry violated.

### Memberships

`row` is table Membership by id, `nextId` its autoincrement, `users`, `groups` and
`domain` the rows the foreign keys point to. The handlers are
`DeleteUserMembership` / `DeleteGroupMembership` (then `VerifyDeleteMembership`,
`RereadMembership`, `DeleteMembershipRow`), `UpdateGroupMembership` (then
`CountOtherOwners` when it demotes an owner, `WriteRole`), `CreateGroupMembership`
(then `FindMembership`, and `OverwriteRole` or `AddMember`), `DeleteGroup`,
`DeleteUser`, `VerifyEmail` and `MergeUsers`, each with its later calls.

What the abstraction leaves out, and why it may:

* A required foreign key makes Prisma 2.14 refuse to delete the row it points to:
  `DeleteGroupRow` and `RemoveUser` do nothing while such a row is there. One
  `domain` value stands for all rows (domains, webhooks) that keep a group.
* A user is found by email while its row is there; the email itself is in
  `Accounts`. The other tables of `deleteUser` matter only in that a call may fail:
  `Abort`. For the same reason `deleteUser`, which only the daily task calls, may
  start for any user here; `Accounts` has the task and what it selects.
* `createUserMembership` and `createGroup` check `id` in other ways than they write
  it; a taken id makes the insert fail, so only free ids get in. Ids are drawn at
  random and a deleted one may come back, which `groups` and `users` allow.
* ADMIN is never compared with in these handlers, so MEMBER stands for both.
* `removeUnauthorizedScopesForUser`, which ends three handlers, changes no table
  (`ApiKeys` has it), so the handlers end without it here.
* `MaxRows` bounds the rows ever created; an insert past it fails like any other.

### ApiKeys

`key` is table ApiKey, `role` each user's role, `lru` the quick-lru cache with its
recent and old halves, as the library keeps them. Of a key's scopes the model keeps
the user's own (`user-{userId}:*`, one value a user) and `*`, which only a SUDO may
have: that is what role changes and merges tell apart. `restrictions` of a key are
cached, written and evicted with the scopes. A create and an update end in a write
preceded by `CleanScopes`; `evict` is the moment between the database's answer and
`lru.delete`, `use_fill` the one before `lru.set`. PATCH without scopes sets them to
none, as in the code, and is the empty wish. `Restart` empties the cache.

`AllowedToGroup` is empty: `cleanScopesForGroup` compares names with array indices
(see `findings`). Prisma sets the optional `userId` of a key to null when its user
goes, which `RemoveUser` does. `updateUser` appears with a role written by a SUDO,
equal to the old one or not; other fields touch no key. Its `session.deleteMany`
touches no key either (it is `ChangeRole` of `Accounts`). Groups stay (their deletion
would set `groupId` to null in the same way). `left` is history: the copies left in
the cache by a write that evicts nothing or by a fill that was overtaken.

### Accounts

`user` is each user's `active` flag, or "none" without a row; `emails` the users that
have an email; `session` the rows of table Session with their age in days. Ages and
`away` stop at the larger limit, beyond which nothing compares them. `Login`
reactivates; after that the email, password, code and subnet checks either refuse or
create the session, which `Activate` and `Abort` leave open. `LoginWithToken` stands
for the six logins (`approveSubnet`, `loginWithTotp`, `loginWithEmailToken`,
`resetPassword`, `verifyEmail`, `thirdPartyLogin`) that find the user and create a
session without a look at `active`. `deleteInactiveUsers` takes a slot of its own,
`Cron`, and `deleteUser` inside it is `DeleteEmails`, `DeleteSessions`,
`DeleteUserRow`: of its nine calls those whose tables are here. Its other tables have
no rows that another module's handlers add without the user existing; a refusal
because of them is `Abort`. A user has one email here or none, which `merge` moves in
one call.

The tasks may run at any moment and any number of times a day, so the safety
properties do not depend on the hours of the schedule.

### Webhooks and Deliveries

`hook` is table Webhook; an id that is handed out leaves `unused`. A happening is an
audited request that succeeded: `Succeed`, then `SaveAuditLog`, then `TriggerWebhook`,
each a call that may fail (`FailAuditLog`) after the client has its answer. The queue
has concurrency 1, so `turn` is where its first delivery is: p-retry runs
`callWebhook`, which is `PostWebhook` or `FailToPost`, then `SaveLastFired` or
`FailToSave`, and starts over when either fails, `Retries + 1` times in all. A call
that fails may have reached its URL. What is no URL makes got throw a TypeError, on
which p-retry gives up at once and without `onFailedAttempt` (`RefuseUrl`). got is
called without a time limit and the queue has none either: a receiver that takes the
call and never answers leaves it there (`Hang`), and all that is behind it, until a
restart. The update
that `onFailedAttempt` sends is not awaited: it is in `offs` until `SwitchOff`.
A job carries the URL as it was found; `edited` is history. `Restart` empties what is
in memory. `posts`, `acked` and `outcome` are history, and what `Deliveries` is about.

`Deliveries` says, without webhooks, retries or a database, what such a queue is good
for: deliveries in the order they were accepted, one at a time, each made a bounded
number of times, none called done that was never made, all lost at a restart
(`DSpec`), and none left waiting for ever (`Progress`). `D == INSTANCE Deliveries WITH
waiting <- Waiting, Attempts <- Retries + 1` is the mapping: the deliveries of the
queue, in its order. The queue keeps all of the first; the second it keeps unless from
some moment on it is `Stalled` by a call that hangs (`DeliveriesImplemented`). Without
that exception it is `NoneWaitsForever`, which `MCWebhooks_NoneWaitsForever.cfg`
violates: a finding.

### Emails

`owner` is table Email, `prefers` the `prefersEmailId` of each user, an optional key
that a deletion sets to null. `DeleteEmail` is the chain of the code: how many there
are, which is the primary one, another one to prefer, prefer it, delete. `adrift` is
history: users whose primary email a merge has given to another user, which the merge
leaves in `prefersEmailId`. Verification changes no row these properties read
(`Memberships` has what it does else), and addresses are unique, so a repeated one is
an insert that fails: `Abort`.

### SignIn

One user: users share none of this state. `proven` is history: the secrets of which
a right code has been shown. `EnableMfaMethod` compares a code with the secret it has
read and then writes the method; `RequestMfa` then `WriteSecret` replaces the secret
while no factor is on. A backup code is "fresh" or "used". bcrypt runs between the
read of the codes and the write that marks one; it changes nothing, so it belongs to
the read, and the gap stays: `FindBackupCode`, then `MarkCode`. Codes of the
authenticator are right or wrong as the secret is the one it was made for.
A login reads `checkLocationOnLogin` with the user, then the approved subnets, and the
user again when none of them matches (`CheckLoginSubnet`, `RecheckLocation`).

Links ask for no second factor, whether one is on or not. The link to log in and the
one to reset the password (`FollowLink`) sign in and approve the subnet, and
`ApproveSubnet` does the same for its own; `LoginUnasked` is `verifyEmail` and
`thirdPartyLogin`, which do not even do that. So `Earned`, of which `SessionsEarned`
is made, asks of a session by link that its subnet is approved, and of these two
nothing. `WaysAskForFactor` is what `docs/authentication.md:9` promises of a password
and of a passwordless login; `MCSignIn_WaysAskForFactor.cfg` violates it: a finding.

### Roles

Tables Role, GroupRoles, RoleScopes, and the memberships of one user. The two updates
delete all rows in one call and create the new ones in a transaction of a later one;
`deleteGroupRole` and `addGroupRole` find the role by its name, which is not unique, and
do not look at its case; `updateGroupRoles` finds names as they are spelled.
`Spellings` tells which names are alike but for case: any, for the theorems, none in
the run (two names that are alike add states and no step).
`MakeToken`, `ReadRoles`, `ReadScopes`, `SignToken` are `getUserPrivileges`. A role or
group is deleted after the rows that point to it, in calls apart.

### Routes and Requests

`Routes` has each controller's decorators: scope, points, audit event, and whether the
handler changes anything; routes that agree in all of it are one. `Matches` is
minimatch on the patterns in use. The tables of scopes are those of
`helpers/scopes.ts`. A route declared after another that takes its path is none.

`Requests` takes a request through the guards (`Arrive...`, one action per kind of
caller), the limiter (`Consume`, `NoAddress`), the handler and the audit log. It also
keeps the user's access token, good until it expires while roles change. Making one is
`MakeToken` (the user's row and the scopes of its roles), `ReadMemberships` and
`SignToken`; roles may change between these, and then the token says what has been
read (`Outdated`). The queries for subgroups, one a level, come in the step of
`SignToken`: they read `Parent`, which is a constant. `Rights` is `getUserScopes` with
`recursivelyGetSubgroupIds` as it is written: a recursive function over `Parent`.
`ParentAssumption` says that groups are not nested in a cycle: nothing in the code
forbids one, but on it that recursion has no end and no token is signed.
`ChecksSecret` tells the handlers that compare a password or a code: the two logins,
but also PATCH of a user, which compares the current password, and the three routes
that turn a second factor on. One class of callers at a time (`class`): each has a
limiter of its own and they share no state.

### Billing

`id` is `stripeCustomerId` in the attributes of a group; `customer` and `paying` are
Stripe's side. Each operation reads the attributes, then calls Stripe; creation and
deletion then write the attributes. `Abort` is a Stripe that refuses, or a failure
between the two systems. `ReplaceGroup` is PUT or PATCH of a group, which takes its
attributes from the body: no pipe strips what the DTO does not name. Sources, invoices
and the portal read a customer's id and leave this state alone: `UseCustomer` with
`StripeAnswers` stands for all of them. `Billing` has names of its own (`Calls`,
`BillingSpec`, ...), for its proofs stand in one module with those of `Requests`.

## Runs

| Run | Bounds | Distinct states | Shows |
|---|---|---|---|
| `memberships` | 2 users, 1 group, 3 rows, 2 requests | 1.1 M | types, `HandlerInv`, and how the last owner, last member and single membership can be lost |
| `api_keys` | 1 user, 1 group, 2 keys, cache size 1, 2 requests | 0.5 M | which copies may be out of date, reads that hold, who can widen a key |
| `api_keys_merge` | 2 users, 1 key, cache size 2, 2 requests | 1.1 M | how a key comes to exceed its owner, through role changes and merge |
| `accounts` | 2 users, 1 session, 2 requests and the task, limits of 1 day | 0.6 M | no session or email without its user, who may be deleted, who gets a session |
| `accounts_liveness` | 2 users, 1 session, 1 request and the task | 67 k | inactive users go |
| `webhooks` | 1 webhook, 2 happenings, 2 URLs, one of them none, 2 events, 1 request, 3 attempts | 288 k | the queue implements `Deliveries`, also in that nothing waits for ever unless a call hangs; which webhooks are called, marked and switched off |
| `emails` | 2 users, 3 emails, 2 requests | 74 k | how a user loses the last or the primary email, or has another user's |
| `sign_in` | 2 requests, 2 secrets, 4 codes made 2 at a time, 1 subnet, 2 rows | 304 k | sessions are earned as their way to sign in asks, who can be locked out, what is left of two regenerations |
| `roles` | 2 roles, 2 names, 2 groups, 1 scope, 2 requests | 0.9 M | replace-all updates leave what was asked, tokens are of one moment |
| `requests` | all routes, 4 nested groups, 1 caller, 1 request, limits of 25, 1 and 2 points | 1.0 M | the decorators, tables, limiter and subgroup recursion against each other |
| `billing` | 2 groups, 3 customers ever, 3 requests | 113 k | how a live customer is lost |
| `only_owner_not_removed` | as `memberships` | | violated: a finding |

Why these bounds are enough to be of interest. Every property relates one group, key
or user to the requests that work on it, and every race in these handlers is between
a request that has read and another that writes: two requests over one group, key or
user show it. Three membership rows are two members and one more that is deleted or
added; two users are the two parties of a merge. Two keys in a cache of size one fill
and flip its halves. A limit of one day still tells a session used today from an old
one. Two
happenings are two deliveries, the smallest queue that has a first and a next, and
two URLs let one be right and one be refused; three attempts are the first, one in the
middle and the last. Three emails of two users are a primary one, another that
becomes it, and that of the other party of a merge. Four backup codes are two
complete sets, so two regenerations can mix. Two names for two roles let names be
shared, swapped and told apart. Four groups below each other are the fewest that tell
`recursivelyGetSubgroupIds` from the right recursion, and from one that returns the
groups above. 25 points are two costly requests and some cheap ones; the routes of a
user cost one point, but for the merge, which costs ten and is refused under these
limits: what is counted for it is the same as for the public routes of ten. One
request at a time is enough in `requests`, for the limiter counts and compares in one
synchronous step and a token is one value. Three requests in `billing` are a creation,
a deletion and another creation, and three customers one for each creation and one to
be put into the attributes by a PUT or PATCH.

Symmetry is used for ids that nothing orders (users, keys, sessions, requests); row
ids of Memberships are numbers and are not permuted. The two runs with liveness use
none.

The requests may stop at any time in every module (a `Spec` without fairness), and
there is always one more request to start, so no run meets a deadlock.

Fairness, in `accounts_liveness`: days pass (`NextDay`), the scheduler starts
`deleteInactiveUsers` when there is somebody to delete (@Cron, every day) and the
calls of the task answer (`ResumeTask`). Requests get none: nothing makes a client
come back. The premise of `InactiveUsersGo` names what the code leaves open: an
exception in one deletion ends the task for that day.

Fairness, in `webhooks`: weak fairness of `Work`, the step of the queue at its first
delivery. The queue's loop is the program's own and runs whenever something is queued.
The step is a call that succeeds, fails or hangs (`Hang`), and which of these is left
open; of a call that hangs nothing more is assumed, in particular not that it ends,
since nothing in the code sets it a limit. That Prisma's calls settle is an assumption
about the database. Neither a request, an interceptor's call nor `SwitchOff` gets any.

## Properties

* `HandlerInv`, `HandlersReadCurrent`, `AccountsInv`, `EmailsInv`, `SignInInv`,
  `RolesInv`, `BillingInv`: foreign keys hold although users, groups and roles are
  taken apart in steps, and what a handler has read still holds when it acts, unless
  overtaken. `WebhooksInv` says of the queue that each delivery is in it once, in
  order, and was tried no oftener than its failures explain.
* `LastOwnerStays`, `LastMemberStays`, `OneMembershipPerGroup`: what can be lost, and
  the complete list of the code paths that lose it. `LastEmailStays`,
  `PrimaryEmailStays` and `PrimaryEmailIsOwn` do so for emails, `CustomersAreTracked`
  for customers at Stripe.
* `CachedCopyIsCurrent`: a cached copy is current, about to be evicted, or left by
  `cleanAllApiKeysForUser`, `deleteUser` or an overtaken fill. Updates and deletes,
  when not overtaken, never leave one behind.
* `ExcessOnlyFromRoleChange`, `ScopesGrowByUpdate`: who can give a key more than its
  owner may have, or more than it had.
* `ActiveUsersKept`, `InactiveGetsNoSession`, `InactiveUsersGo`: the daily task and
  the logins against each other.
* `LastFiredIsTrue`, `CalledAsSubscribed`, `OffForItsFailures`: a delivery works on a
  webhook as it was found, and writes to it later; these say what still agrees.
  `DeliveriesImplemented` is the refinement, with its liveness as far as it goes.
* `SessionsEarned`, `SecretIsProven`, `RegenerationLeavesItsCodes`: a session has been
  earned by what its way to sign in asks for at the moment it is given (the factor and
  the subnet by password or code, the subnet by link); a backup code serves two
  logins only when one overtakes the other; a factor nobody has shown to know comes
  only from a PATCH or a race.
* `UpdatesLeaveWhatWasAsked`, `RevokedIsGone`, `TokenIsCurrent`: deletions and creations
  in calls apart, and reads in calls apart, come to what one call would have done.
* `GuessesAreFew`, `RolesKeepToTheirRoutes`, `ChangesAreAnnounced`, `RightsAreHeld`:
  the decorators of all controllers, written one by one, against what they add up
  to: an admin removes no member, a member changes nothing, who has not signed in tries
  no password oftener than a tenth of the limit, each change of a group by a handler
  whose scope names one reaches the audit log under an event a webhook may ask for,
  and a right comes from a role held in the group or above it when the roles were
  read. Two of these have limits that are findings. Who has signed in, or calls with a
  key, has a guess for each point (`AllGuessesAreFew`, violated by
  `MCRequests_AllGuessesAreFew.cfg`). And the roles of a group, and a user's own making
  or leaving of one, change it under a scope that names none, and are recorded nowhere
  (`AllChangesAreAnnounced`, violated by `MCRequests_AllChangesAreAnnounced.cfg`).

The disagreements between the code and what its comments, messages and templates say
are described in `findings`. `OnlyOwnerNotRemoved` is violated in a run of its own.
Eight more have a configuration with which TLC shows them:
`MCMemberships_OnlyOwnerNotDemoted.cfg`, `MCApiKeys_UnauthorizedScopesRemoved.cfg`,
`MCApiKeys_ServedScopesAllowed.cfg`, `MCAccounts_DaysToReactivate.cfg`,
`MCWebhooks_NoneWaitsForever.cfg`, `MCSignIn_WaysAskForFactor.cfg`,
`MCRequests_AllGuessesAreFew.cfg`, `MCRequests_AllChangesAreAnnounced.cfg`. Others are
definitions of the models, which do what the code does, or disjuncts of a property.

## Proofs

`MembershipsProofs` proves, for all users, groups, requests, roles and numbers of
rows that satisfy `MembershipsAssumption`:

* `HandlersCorrect`: `Spec => []HandlerInv`, and from it `TypeCorrect`;
* `OwnersKept`, `MembersKept`, `OneRowPerPlace`: `Spec` implies the three action
  properties.

`HandlerInv` is the inductive invariant. Types alone are not inductive for what
matters: that a delete that was not overtaken leaves an owner depends on the list the
request read two calls earlier, so the invariant says, for each `pc`, what the
request's fields still tell about the tables while `stale` is false
(`ReadsHold`), which parameters it carries (`ParametersFit`), that ids at or above
`nextId` are unused (so that an insert changes no row a request holds), and that
foreign keys hold (so that a membership found by a request that deletes a user or a
group is one of theirs). The argument for a step is the same everywhere: a write of
table Membership either leaves a group's rows as they were, and then what requests of
that group have read still holds, or changes them, and then `Commit` makes these
requests stale. The lemmas on `Commit` state that once; each action then has to show
only its own rows. The action properties follow from the invariant before the step:
the request that acts is not stale, so what it has read excludes the bad write.

`AccountsProofs` proves, for all users, sessions, requests and limits that satisfy
`AccountsAssumption`:

* `AccountsCorrect`: `Spec => []AccountsInv`, and from it `TypeCorrect`;
* `ActiveUsersAreKept`, `InactiveSignsInNowhereElse`: `Spec` implies
  `ActiveUsersKept` and `InactiveGetsNoSession`.

`AccountsInv` is inductive. That a session is never left without its user is not by
itself: `deleteUser` removes the row two calls after it has removed the sessions, and
`merge` writes an `active` flag it read a call earlier. So the invariant adds which
locals are set at each `pc` (`ParametersFit`: a merge carries a flag that was read off
a row, the user a task is at is no longer among those to come) and what the request
has read or removed that still holds while `stale` is false (`ReadsHold`). The proof
has a lemma for each way to write (`SetUserKeeps`, `SetSessionKeeps`,
`DropRowsKeeps`, `RemoveUserKeeps`), all resting on `CommitKeeps`, so an action shows
only its next record. The two action properties then need just the list of the
actions that remove a user (`UserWrites`) or give a session (`SessionGiven`).

The other proofs go the same way: an inductive `Inv` per module, made of the types
and keys of the tables, the type of each request and a predicate on each request
alone (`Fits(r)`: its parameters, and what it has read unless it is stale); lemmas on
how a write or a `Commit` keeps it; a lemma per action; and for an action property the
list of the actions that can take such a step.

`ApiKeysProofs` (`ApiKeysAssumption`): `TypesCorrect`, `CacheCorrect`, `ReadsCorrect`,
`ExcessCorrect`, `GrowthCorrect`, for any size of the cache. To be inductive,
`CachedCopyIsCurrent` needs that ids in the cache or being filled into it have been
handed out (a key created later cannot be one of them), and that a clean-up knows all
the keys of the user whose role it changed.

`EmailsProofs` (`EmailsAssumption`): `EmailsCorrect`, `LastEmailsStay`,
`PrimaryEmailsStay`, `PrimaryEmailsAreOwn`. `RequestsBillingProofs` has, of `Billing`
(`BillingAssumption`), `BillingCorrect` and `CustomersTracked`. `RolesProofs`
(`RolesAssumption`; that there are finitely many roles, for `Cardinality`):
`RolesCorrect`, `TokensCorrect`, `UpdatesCorrect`, `RevokedCorrect`. `SignInProofs`
(`SignInAssumption`): `SignInCorrect`, `SessionsCorrect`, `LockedCorrect`,
`RegenerationCorrect`; here the invariant counts: the codes given and those left to
give make a set, whatever its size.

`WebhooksProofs` (`WebhooksAssumption`): `WebhooksCorrect`, `LastFiredCorrect`,
`CalledCorrect`, `OffCorrect`, for any number of webhooks, happenings and retries; and
`QueueImplementsDeliveries`: `Spec => D!DSpec`, the safety half of the refinement. Each
step of the queue is one of `Deliveries` under the mapping (a failed post that arrived
is `Receive`, the last one `GiveUp`, a failed save nothing until the attempts are used
up). That `posts` stays within `Attempts` is the counting part of `InOrder`.

`RequestsBillingProofs` proves of `Requests` (`RequestsAssumption`, `ParentAssumption`),
for any groups, nested in any way without a cycle, any keys, limits and requests:

* `TablesFitRoutes`: the tables of scopes against the decorators of all controllers.
  An owner has every route of a group, an admin all but those that delete the group
  or remove a member, a member none that changes anything. The lemmas before it say
  what the constructors of routes make (`ReadsFit`, `WritesFit`, `LoggedFit`,
  `CostsFit`), then of every table of routes that each row is of such a kind
  (`RoutesFit`), then which patterns reach which rows (`PatternsMatch`);
* `SubgroupIdsAreOdd`: `recursivelyGetSubgroupIds` returns exactly the groups an odd
  number of steps below, and `GrandchildrenLeftOut`: never a child of a child. No
  induction is needed: the set `OddBelow`, the least one closed under two steps down,
  solves the equation the function is defined by, and two solutions that differ
  somewhere would differ again below, for ever, which `ParentAssumption` excludes;
* `RequestsCorrect`, `GuessesFew`: `Spec => []RequestsInv` and `Spec => []GuessesAreFew`.
  A bound on the guesses of a window is not inductive: a guess is only worth something
  against the points it has used. `Counted` says that what was let through is counted
  and, of callers not signed in, that ten points were let through for each guess;
* `RolesKeep`: `Spec => []RolesKeepToTheirRoutes`. `Fits` says of a request past the
  guards that some role that admitted it has its route, which the tables then bound.
  The roles are those of the token, whatever the user's roles have become since;
* `ChangesAnnounced`, `RightsHeld`: the two action properties. The second is about one
  step, `SignToken`, of a request whose reads still agree with the tables, and rests on
  the recursion staying below the group it starts at.

Many of the properties above except a request that is `stale`. That the exception
stands for races and hides nothing else is proved too: every module with such a history
field has `OneAtATime`, the steps taken while no other request is in flight
(`BillingOneAtATime` for `Billing`), and `NoneIsOvertaken`: under
`Spec /\ [][OneAtATime]_vars` no request is ever stale. Requests may still fail at any
call, and in `Accounts` days pass, in `ApiKeys` copies are served and the process
restarts, at any time. What is left of the properties then:

* `OwnersKeptOneAtATime`: neither deleting a membership nor `updateGroupMembership`
  takes the last owner from a group. The message of 400010 is true of such requests;
  the counterexample of run `only_owner_not_removed` needs two at once;
* `ActiveKeptOneAtATime`, `InactiveOneAtATime`: the daily task deletes no active user,
  and `login` signs no inactive one in. `merge` does both, and the logins that do not
  look at `active` the second, without any race;
* `DeletionsOneAtATime`, `PrefersOwnOneAtATime`: `deleteEmail` leaves a user its last
  email and a primary one, unless `merge` has moved the primary email away;
* `ScopesOneAtATime`, `CleanedOneAtATime`: a key exceeds its owner's role only after a
  change of role or a merge, and `cleanAllApiKeysForUser`, once through, leaves no key
  in the database that does. The cached copies it leaves are another matter:
  `MCApiKeys_ServedScopesAllowed.cfg` shows it;
* `TokensCurrentOneAtATime`, `UpdatesOneAtATime`: a token says what its user may do
  when it is signed, and an update of roles or scopes leaves what it was asked for;
* `EarnedOneAtATime`, `LockedOneAtATime`: a sign-in has given what its way to sign in
  asks for at that moment (of a link no factor, of `LoginUnasked` nothing), and only a
  PATCH of `twoFactorMethod` locks the user out;
* `TrackedOneAtATime`: Stripe keeps a customer that no group names only after a PUT,
  PATCH or deletion of the group or a failure between the two halves of `createCustomer`.

Only model-checked: `InactiveUsersGo` and the liveness half of `DeliveriesImplemented`
(that nothing waits for ever unless the queue is `Stalled` for good), as liveness
under fairness is out of the prover's reach.

## Not modelled

* Mail, SMS, Slack and Elasticsearch: queues in memory with retries, like that of
  `Webhooks` without a table behind; the rest is I/O.
* Geolocation (a cache of lookups that nothing invalidates), metrics, storage, DNS,
  maps, and the cryptography of tokens and passwords: no state another part relies on.
* Pipes, filters, middleware, configuration, start-up: stateless.
* Profile edits, password changes, pictures, coupons, identities: columns no property
  reads, written in one call after one read.
* The probes that verify a domain, and the daily task around them: a nondeterministic
  verification in `Memberships`.
* A group that changes its parent while a token is made: `Parent` is a constant of
  `Requests`.
* Stripe's sources, invoices and portal: reads, or writes at Stripe alone; events that
  Stripe sends are only logged by the code.

## Plan

What would be next, in this order: the parent of a group as a variable of `Requests`;
`merge` with the second factor, backup codes and subnets of both users (`SignIn` has
one user); the queue of mails as a second refinement of `Deliveries`.
