------------------------------ MODULE ApiKeys ------------------------------
(***************************************************************************)
(* API keys, the scopes they carry and the cache they are served from:     *)
(* api-keys.service.ts, with the handlers elsewhere that change keys or    *)
(* what their owners are allowed: updateUser and deleteUser of             *)
(* users.service.ts and merge of auth.service.ts.                          *)
(*                                                                         *)
(* A request in flight is a record whose pc names the database call it is  *)
(* about to make or, for evict and use_fill, what it does to the cache     *)
(* once its call has answered: in between any other request may run.       *)
(***************************************************************************)
EXTENDS Naturals, FiniteSets

CONSTANTS
  Users,      \* user ids
  Groups,     \* groups that own keys; they never go away here
  Keys,       \* key ids, one secret each
  Requests,   \* slots for requests in flight
  Everything, \* the scope "*" of a SUDO user
  Wishes,     \* the sets of scopes a request may ask for
  LruSize,    \* caching.apiKeyLruSize
  None        \* undefined, or no value

Roles == {"SUDO", "USER"}

\* The scopes user-{userId}:... of one user are told apart by the user only.
Scopes == Users \cup {Everything}

ASSUME ApiKeysAssumption ==
  /\ Wishes \subseteq SUBSET Scopes
  /\ LruSize \in Nat \ {0}
  /\ Users \cap Groups = {}
  /\ Everything \notin Users
  /\ None \notin Users \cup Groups \cup Keys \cup Requests \cup Roles

VARIABLES
  role,       \* table User: each user's role, None without a row
  key,        \* table ApiKey, by id
  unused,     \* the ids not handed out yet
  lru,        \* the cache, by the secret of the key: a recent and an old half
  req,        \* requests in flight
  left        \* history: cached keys that nothing will evict any more

vars == <<role, key, unused, lru, req, left>>

Record(owner, scopes) == [owner |-> owner, scopes |-> scopes, live |-> TRUE]
NoKey == [owner |-> None, scopes |-> {}, live |-> FALSE]
Key == [owner : Users \cup Groups \cup {None}, scopes : SUBSET Scopes, live : {TRUE}]
       \cup {NoKey}

Nothing == [k \in Keys |-> NoKey]

\* What a cached copy is served for: the scopes (and, like them, the restrictions).
CopyOf(k) == [scopes |-> k.scopes, live |-> k.live]
Copies == {CopyOf(k) : k \in Key}
NoCopies == [k \in Keys |-> CopyOf(NoKey)]

Idle == [pc |-> "idle", user |-> None, base |-> None, id |-> None, role |-> None,
         scopes |-> {}, found |-> Nothing, stale |-> FALSE]

PCs == {"idle", "crt_role", "crt_write", "upd_role", "upd_write", "del_write", "evict",
        "use_find", "use_fill", "chg_same", "chg_write", "chg_keys", "chg_role", "chg_clean",
        "rmv_keys", "rmv_role", "rmv_clean", "usr_keys", "usr_row", "mrg_role", "mrg_keys",
        "mrg_move"}

Request == [pc : PCs, user : Users \cup Groups \cup {None}, base : Users \cup {None},
            id : Keys \cup {None}, role : Roles \cup {None}, scopes : SUBSET Scopes,
            found : [Keys -> Key], stale : BOOLEAN]

TypeOK ==
  /\ role \in [Users -> Roles \cup {None}]
  /\ key \in [Keys -> Key]
  /\ unused \subseteq Keys
  /\ lru \in [recent : [Keys -> Copies], old : [Keys -> Copies]]
  /\ req \in [Requests -> Request]
  /\ left \subseteq Keys

----------------------------------------------------------------------------
(* getApiKeyScopesForUser, on the role it reads, and cleanScopesForGroup,  *)
(* which compares the scopes asked for with the indices of an array.       *)
AllowedAs(u, r) == {u} \cup (IF r = "SUDO" THEN {Everything} ELSE {})
AllowedToGroup == {}

Allowed(owner) == IF owner \in Users THEN AllowedAs(owner, role[owner]) ELSE AllowedToGroup

KeysOf(owner) == {k \in Keys : key[k].live /\ key[k].owner = owner}

\* What a query returns, of which the keys done with are struck out.
Found(S) == [k \in Keys |-> IF k \in S THEN key[k] ELSE NoKey]

----------------------------------------------------------------------------
(* quick-lru: a half that is full becomes the old half, whose entries move *)
(* back when they are used.                                                *)

Size(half) == Cardinality({k \in Keys : half[k].live})
IsCached(k) == lru.recent[k].live \/ lru.old[k].live
Copy(k) == IF lru.recent[k].live THEN lru.recent[k] ELSE lru.old[k]

CacheSet(cache, k, copy) ==
  LET recent == [cache.recent EXCEPT ![k] = copy] IN
  IF ~cache.recent[k].live /\ Size(recent) >= LruSize
    THEN [recent |-> NoCopies, old |-> recent]
    ELSE [cache EXCEPT !.recent = recent]

CacheGet(cache, k) ==
  IF cache.recent[k].live THEN cache
  ELSE CacheSet([cache EXCEPT !.old[k] = CopyOf(NoKey)], k, cache.old[k])

CacheDelete(cache, k) ==
  [cache EXCEPT !.recent[k] = CopyOf(NoKey), !.old[k] = CopyOf(NoKey)]

----------------------------------------------------------------------------
(* How a step of request r ends.  The history field stale of the others    *)
(* records that what they read, and still act on, has changed.             *)

Become(r, next) == req' = [req EXCEPT ![r] = next]
Reply(r) == Become(r, Idle)

Overtaken(q, roles, keys) ==
  \/ /\ q.pc \in {"crt_write", "upd_write", "chg_clean", "rmv_clean"}
     /\ q.user \in Users
     /\ roles[q.user] # role[q.user]
  \/ q.pc \in {"upd_role", "upd_write"} /\ keys[q.id].owner # key[q.id].owner
  \/ q.pc = "use_fill" /\ CopyOf(keys[q.id]) # CopyOf(key[q.id])
  \/ /\ q.pc \in {"chg_role", "chg_clean", "rmv_role", "rmv_clean"}
     /\ \E k \in Keys : keys[k] # key[k] /\ q.user \in {key[k].owner, keys[k].owner}

Commit(r, roles, keys, next) ==
  /\ role' = roles
  /\ key' = keys
  /\ req' = [p \in Requests |->
               IF p = r THEN next
               ELSE [req[p] EXCEPT !.stale = @ \/ Overtaken(req[p], roles, keys)]]

\* Of a write by a handler that evicts nothing: the copies it leaves behind.
LeaveCopies(keys) ==
  left' = left \cup {k \in Keys : IsCached(k) /\ CopyOf(keys[k]) # CopyOf(key[k])}

Evicting(q) == [Idle EXCEPT !.pc = "evict", !.id = q.id]

tables == <<role, key, unused>>
copies == <<lru, left>>

----------------------------------------------------------------------------
Init ==
  /\ role = [u \in Users |-> None]
  /\ key = Nothing
  /\ unused = Keys
  /\ lru = [recent |-> NoCopies, old |-> NoCopies]
  /\ req = [r \in Requests |-> Idle]
  /\ left = {}

Register(u) ==
  /\ role[u] = None
  /\ role' = [role EXCEPT ![u] = "USER"]
  /\ UNCHANGED <<key, unused, lru, req, left>>

OwnerExists(o) == IF o \in Users THEN role[o] # None ELSE o \in Groups

(* createApiKeyForUser, createApiKeyForGroup: the scopes asked for, none   *)
(* when the body leaves them out, are cleaned -- for a user by a read of   *)
(* its role --, then the key is created.                                   *)
CreateApiKey(r, owner, wish) ==
  /\ req[r] = Idle
  /\ OwnerExists(owner)
  /\ Become(r, [Idle EXCEPT !.pc = "crt_role", !.user = owner, !.scopes = wish])
  /\ UNCHANGED <<tables, copies>>

(* updateApiKeyFor..., replaceApiKeyFor...: find the key, clean the scopes, *)
(* write, evict the copy.                                                   *)
UpdateApiKey(r, owner, k, wish) ==
  /\ req[r] = Idle
  /\ k \in KeysOf(owner)
  /\ Become(r, [Idle EXCEPT !.pc = "upd_role", !.user = owner, !.id = k, !.scopes = wish])
  /\ UNCHANGED <<tables, copies>>

\* Mutant: the scopes asked for are not cleaned.
KeepScopes(r) ==
  /\ req[r].pc \in {"crt_role", "upd_role"}
  /\ Become(r, [req[r] EXCEPT !.pc = IF @ = "crt_role" THEN "crt_write" ELSE "upd_write"])
  /\ UNCHANGED <<tables, copies>>

CleanScopes(r) ==
  LET q == req[r] IN
  /\ q.pc \in {"crt_role", "upd_role"}
  /\ IF OwnerExists(q.user)
       THEN Become(r, [q EXCEPT !.pc = IF @ = "crt_role" THEN "crt_write" ELSE "upd_write",
                                !.scopes = @ \cap Allowed(q.user)])
       ELSE Reply(r)
  /\ UNCHANGED <<tables, copies>>

CreateKeyRow(r) ==
  LET q == req[r] IN
  /\ q.pc = "crt_write"
  /\ IF OwnerExists(q.user) /\ unused # {}
       THEN \E k \in unused :
              /\ Commit(r, role, [key EXCEPT ![k] = Record(q.user, q.scopes)], Idle)
              /\ unused' = unused \ {k}
       ELSE Reply(r) /\ UNCHANGED <<role, key, unused>>
  /\ UNCHANGED copies

\* Mutant: the update inserts a key that is gone.
UpsertScopes(r) ==
  LET q == req[r] IN
  /\ q.pc = "upd_write"
  /\ Commit(r, role, [key EXCEPT ![q.id].scopes = q.scopes], Evicting(q))
  /\ UNCHANGED <<unused, copies>>

\* Mutant: the update evicts no copy.
WriteScopesOnly(r) ==
  LET q == req[r] IN
  /\ q.pc = "upd_write"
  /\ IF key[q.id].live
       THEN Commit(r, role, [key EXCEPT ![q.id].scopes = q.scopes], Idle)
       ELSE Reply(r) /\ UNCHANGED <<role, key>>
  /\ UNCHANGED <<unused, copies>>

\* apiKey.update, then lru.delete when it has answered.
WriteScopes(r) ==
  LET q == req[r] IN
  /\ q.pc = "upd_write"
  /\ IF key[q.id].live
       THEN Commit(r, role, [key EXCEPT ![q.id].scopes = q.scopes], Evicting(q))
       ELSE Reply(r) /\ UNCHANGED <<role, key>>
  /\ UNCHANGED <<unused, copies>>

(* deleteApiKeyFor...: find the key, delete it, evict the copy. *)
DeleteApiKey(r, owner, k) ==
  /\ req[r] = Idle
  /\ k \in KeysOf(owner)
  /\ Become(r, [Idle EXCEPT !.pc = "del_write", !.user = owner, !.id = k])
  /\ UNCHANGED <<tables, copies>>

DeleteKeyRow(r) ==
  LET q == req[r] IN
  /\ q.pc = "del_write"
  /\ IF key[q.id].live
       THEN Commit(r, role, [key EXCEPT ![q.id] = NoKey], Evicting(q))
       ELSE Reply(r) /\ UNCHANGED <<role, key>>
  /\ UNCHANGED <<unused, copies>>

EvictCopy(r) ==
  /\ req[r].pc = "evict"
  /\ lru' = CacheDelete(lru, req[r].id)
  /\ left' = left \ {req[r].id}
  /\ Reply(r)
  /\ UNCHANGED tables

----------------------------------------------------------------------------
(* getApiKeyFromKey: a cached copy is served as it is; otherwise the key   *)
(* is read, and what was read goes into the cache when the call answers.   *)

ServeCopy(k) ==
  /\ IsCached(k)
  /\ lru' = CacheGet(lru, k)
  /\ UNCHANGED <<tables, left, req>>

GetApiKeyFromKey(r, k) ==
  /\ req[r] = Idle
  /\ k \notin unused
  /\ ~IsCached(k)
  /\ Become(r, [Idle EXCEPT !.pc = "use_find", !.id = k])
  /\ UNCHANGED <<tables, copies>>

FindKey(r) ==
  LET q == req[r] IN
  /\ q.pc = "use_find"
  /\ IF key[q.id].live
       THEN Become(r, [q EXCEPT !.pc = "use_fill", !.found = Found({q.id})])
       ELSE Reply(r)
  /\ UNCHANGED <<tables, copies>>

FillCache(r) ==
  LET q == req[r] IN
  /\ q.pc = "use_fill"
  /\ lru' = CacheSet(lru, q.id, CopyOf(q.found[q.id]))
  /\ left' = IF q.stale THEN left \cup {q.id} ELSE left \ {q.id}
  /\ Reply(r)
  /\ UNCHANGED tables

----------------------------------------------------------------------------
(* updateUser by a SUDO: when the role read first is not the one written,  *)
(* cleanAllApiKeysForUser finds the keys, reads the role and rewrites each *)
(* key with what is allowed of the scopes it was found with.  A write that *)
(* fails ends it.                                                          *)

UpdateUser(r, u, newRole) ==
  /\ req[r] = Idle
  /\ role[u] # None
  /\ Become(r, [Idle EXCEPT !.pc = IF role[u] = newRole THEN "chg_same" ELSE "chg_write",
                            !.user = u, !.role = newRole])
  /\ UNCHANGED <<tables, copies>>

WriteRole(r) ==
  LET q == req[r] IN
  /\ q.pc \in {"chg_same", "chg_write"}
  /\ IF role[q.user] = None
       THEN Reply(r) /\ UNCHANGED <<role, key>>
       ELSE Commit(r, [role EXCEPT ![q.user] = q.role], key,
                   IF q.pc = "chg_same" THEN Idle ELSE [q EXCEPT !.pc = "chg_keys", !.role = None])
  /\ UNCHANGED <<unused, copies>>

\* The first two calls of cleanAllApiKeysForUser and of removeUnauthorizedScopesForUser.
FindKeysToClean(r) ==
  LET q == req[r]
      mine == KeysOf(q.user)
  IN
  /\ q.pc \in {"chg_keys", "rmv_keys"}
  /\ IF mine = {} THEN Reply(r)
     ELSE Become(r, [q EXCEPT !.pc = IF @ = "chg_keys" THEN "chg_role" ELSE "rmv_role",
                              !.found = Found(mine)])
  /\ UNCHANGED <<tables, copies>>

ReadAllowedScopes(r) ==
  LET q == req[r] IN
  /\ q.pc \in {"chg_role", "rmv_role"}
  /\ IF role[q.user] = None THEN Reply(r)
     ELSE Become(r, [q EXCEPT !.pc = IF @ = "chg_role" THEN "chg_clean" ELSE "rmv_clean",
                              !.scopes = Allowed(q.user)])
  /\ UNCHANGED <<tables, copies>>

\* Mutant: each key is given all that is allowed.
GrantAllowed(r, k) ==
  LET q == req[r]
      granted == [key EXCEPT ![k].scopes = q.scopes]
  IN
  /\ q.pc = "chg_clean"
  /\ q.found[k].live
  /\ IF key[k].live
       THEN Commit(r, role, granted, [q EXCEPT !.found[k] = NoKey]) /\ LeaveCopies(granted)
       ELSE Reply(r) /\ UNCHANGED <<role, key, left>>
  /\ UNCHANGED <<unused, lru>>

CleanKey(r, k) ==
  LET q == req[r]
      cleaned == [key EXCEPT ![k].scopes = q.found[k].scopes \cap q.scopes]
  IN
  /\ q.pc = "chg_clean"
  /\ q.found[k].live
  /\ IF key[k].live
       THEN /\ Commit(r, role, cleaned, [q EXCEPT !.found[k] = NoKey])
            /\ LeaveCopies(cleaned)
       ELSE Reply(r) /\ UNCHANGED <<role, key, left>>
  /\ UNCHANGED <<unused, lru>>

KeysCleaned(r) ==
  /\ req[r].pc = "chg_clean"
  /\ req[r].found = Nothing
  /\ Reply(r)
  /\ UNCHANGED <<tables, copies>>

(* removeUnauthorizedScopesForUser, after a change to a membership of the  *)
(* user: it builds the updates but awaits none, and Prisma runs no query   *)
(* that is not awaited.                                                    *)
RemoveUnauthorizedScopes(r, u) ==
  /\ req[r] = Idle
  /\ role[u] # None
  /\ Become(r, [Idle EXCEPT !.pc = "rmv_keys", !.user = u])
  /\ UNCHANGED <<tables, copies>>

ScopesRemoved(r) ==
  /\ req[r].pc = "rmv_clean"
  /\ Reply(r)
  /\ UNCHANGED <<tables, copies>>

----------------------------------------------------------------------------
(* deleteUser: apiKey.deleteMany, then the user, whose later keys keep no  *)
(* owner.                                                                  *)

DeleteUser(r, u) ==
  /\ req[r] = Idle
  /\ role[u] # None
  /\ Become(r, [Idle EXCEPT !.pc = "usr_keys", !.user = u])
  /\ UNCHANGED <<tables, copies>>

DeleteUserKeys(r) ==
  LET q == req[r]
      rest == [k \in Keys |-> IF k \in KeysOf(q.user) THEN NoKey ELSE key[k]]
  IN
  /\ q.pc = "usr_keys"
  /\ Commit(r, role, rest, [q EXCEPT !.pc = "usr_row"])
  /\ LeaveCopies(rest)
  /\ UNCHANGED <<unused, lru>>

\* Mutant: the keys that are left keep the id of the user that is gone.
RemoveUserOnly(r, u) ==
  /\ Commit(r, [role EXCEPT ![u] = None], key, Idle)
  /\ UNCHANGED <<unused, copies>>

\* prisma.user.delete, which sets the userId of a key to null
RemoveUser(r, u) ==
  LET orphaned == [k \in Keys |-> IF k \in KeysOf(u) THEN [key[k] EXCEPT !.owner = None]
                                                    ELSE key[k]]
  IN
  /\ Commit(r, [role EXCEPT ![u] = None], orphaned, Idle)
  /\ UNCHANGED <<unused, copies>>

DeleteUserRow(r) == req[r].pc = "usr_row" /\ RemoveUser(r, req[r].user)

----------------------------------------------------------------------------
(* merge: the base user takes over the role of the other and, one by one,  *)
(* its keys, with their scopes; the other is deleted.  A call that fails   *)
(* ends it.                                                                *)

MergeUsers(r, base, other) ==
  /\ req[r] = Idle
  /\ base # other
  /\ role[base] # None /\ role[other] # None
  /\ Become(r, [Idle EXCEPT !.pc = "mrg_role", !.base = base, !.user = other,
                            !.role = role[other]])
  /\ UNCHANGED <<tables, copies>>

MergeRole(r) ==
  LET q == req[r] IN
  /\ q.pc = "mrg_role"
  /\ IF role[q.base] = None
       THEN Reply(r) /\ UNCHANGED <<role, key>>
       ELSE Commit(r, [role EXCEPT ![q.base] = q.role], key,
                   [q EXCEPT !.pc = "mrg_keys", !.role = None])
  /\ UNCHANGED <<unused, copies>>

FindKeysToMove(r) ==
  LET q == req[r] IN
  /\ q.pc = "mrg_keys"
  /\ Become(r, [q EXCEPT !.pc = "mrg_move", !.found = Found(KeysOf(q.user))])
  /\ UNCHANGED <<tables, copies>>

MoveKey(r, k) ==
  LET q == req[r] IN
  /\ q.pc = "mrg_move"
  /\ q.found[k].live
  /\ IF key[k].live /\ role[q.base] # None
       THEN Commit(r, role, [key EXCEPT ![k].owner = q.base], [q EXCEPT !.found[k] = NoKey])
       ELSE Reply(r) /\ UNCHANGED <<role, key>>
  /\ UNCHANGED <<unused, copies>>

DeleteMergedUser(r) ==
  /\ req[r].pc = "mrg_move"
  /\ req[r].found = Nothing
  /\ RemoveUser(r, req[r].user)

----------------------------------------------------------------------------
Owners == Users \cup Groups

Arrive(r) ==
  \/ \E owner \in Owners, wish \in Wishes : CreateApiKey(r, owner, wish)
  \/ \E owner \in Owners, k \in Keys, wish \in Wishes : UpdateApiKey(r, owner, k, wish)
  \/ \E owner \in Owners, k \in Keys : DeleteApiKey(r, owner, k)
  \/ \E k \in Keys : GetApiKeyFromKey(r, k)
  \/ \E u \in Users, newRole \in Roles : UpdateUser(r, u, newRole)
  \/ \E u \in Users : RemoveUnauthorizedScopes(r, u) \/ DeleteUser(r, u)
  \/ \E base, other \in Users : MergeUsers(r, base, other)

Resume(r) ==
  \/ CleanScopes(r) \/ CreateKeyRow(r) \/ WriteScopes(r) \/ DeleteKeyRow(r) \/ EvictCopy(r)
  \/ FindKey(r) \/ FillCache(r)
  \/ WriteRole(r) \/ FindKeysToClean(r) \/ ReadAllowedScopes(r)
  \/ (\E k \in Keys : CleanKey(r, k)) \/ KeysCleaned(r) \/ ScopesRemoved(r)
  \/ DeleteUserKeys(r) \/ DeleteUserRow(r)
  \/ MergeRole(r) \/ FindKeysToMove(r) \/ (\E k \in Keys : MoveKey(r, k))
  \/ DeleteMergedUser(r)

\* A database call fails and the handler with it.
Abort(r) ==
  /\ req[r].pc \notin {"idle", "evict", "use_fill"}
  /\ Reply(r)
  /\ UNCHANGED <<tables, copies>>

\* The process starts anew, with an empty cache.
Restart ==
  /\ req' = [r \in Requests |-> Idle]
  /\ lru' = [recent |-> NoCopies, old |-> NoCopies]
  /\ left' = {}
  /\ UNCHANGED tables

Next ==
  \/ \E u \in Users : Register(u)
  \/ \E k \in Keys : ServeCopy(k)
  \/ \E r \in Requests : Arrive(r) \/ Resume(r) \/ Abort(r)
  \/ Restart

Spec == Init /\ [][Next]_vars

----------------------------------------------------------------------------
Acts(r) == [req[r] EXCEPT !.stale = FALSE] # [req'[r] EXCEPT !.stale = FALSE]

\* A key whose scopes its owner may not have.
Exceeds(k) ==
  /\ key[k].live
  /\ key[k].owner # None
  /\ ~(key[k].scopes \subseteq Allowed(key[k].owner))

(***************************************************************************)
(* A cached copy is what the database holds, unless the handler that wrote *)
(* the key is about to evict it or the copy was left there: by a handler   *)
(* that evicts nothing (cleanAllApiKeysForUser, deleteUser) or by a        *)
(* getApiKeyFromKey that another request overtook.                         *)
(***************************************************************************)
CachedCopyIsCurrent ==
  \A k \in Keys :
    IsCached(k) => \/ Copy(k) = CopyOf(key[k])
                   \/ k \in left
                   \/ \E r \in Requests : req[r].pc = "evict" /\ req[r].id = k

(***************************************************************************)
(* What each handler has read still holds when it acts on it, unless it is *)
(* stale; in particular cleanAllApiKeysForUser, whenever it runs without   *)
(* another write to the user or its keys, leaves no key behind it that the *)
(* user's new role does not allow.                                         *)
(***************************************************************************)
ReadsHold(q) ==
  /\ q.pc \in {"crt_write", "upd_write"} /\ q.user # None => q.scopes \subseteq Allowed(q.user)
  /\ q.pc \in {"upd_role", "upd_write"} /\ key[q.id].live => key[q.id].owner = q.user
  /\ q.pc = "use_fill" => CopyOf(q.found[q.id]) = CopyOf(key[q.id])
  /\ q.pc \in {"chg_role", "chg_clean"} =>
       \A k \in Keys : q.found[k].live => q.found[k] = key[k]
  /\ q.pc = "chg_clean" =>
       /\ q.scopes = Allowed(q.user)
       /\ \A k \in KeysOf(q.user) : q.found[k].live \/ ~Exceeds(k)

HandlersReadCurrent ==
  /\ \A k \in Keys : key[k].live => k \notin unused /\ (key[k].owner = None \/ OwnerExists(key[k].owner))
  /\ \A r \in Requests : req[r].stale \/ ReadsHold(req[r])

(***************************************************************************)
(* A key comes to carry scopes its owner may not have only through a       *)
(* change of the owner's role (which is cleaned up after, or was read      *)
(* before another one), through merge, or through a write that was         *)
(* overtaken by one of these: never through a create or an update alone.   *)
(***************************************************************************)
ExcessOnlyFromRoleChange ==
  [][\A k \in Keys :
       ~Exceeds(k) /\ Exceeds(k)' =>
         \E r \in Requests :
           /\ Acts(r)
           /\ \/ req[r].pc \in {"chg_same", "chg_write", "mrg_role", "mrg_move"}
              \/ req[r].stale]_<<key, role>>

(***************************************************************************)
(* The scopes of a key grow only when its owner updates it, or when        *)
(* cleanAllApiKeysForUser writes back what it had found before an update.  *)
(***************************************************************************)
ScopesGrowByUpdate ==
  [][\A k \in Keys :
       key[k].live /\ key'[k].live /\ ~(key'[k].scopes \subseteq key[k].scopes) =>
         \E r \in Requests :
           /\ Acts(r)
           /\ \/ req[r].pc = "upd_write"
              \/ req[r].pc = "chg_clean" /\ req[r].stale]_key

(***************************************************************************)
(* What the comment on removeUnauthorizedScopesForUser says it does,       *)
(* "Remove any unauthorized scopes in an API key for a user", asked only   *)
(* of runs that nothing overtakes and that end when nothing else runs.     *)
(***************************************************************************)
UnauthorizedScopesRemoved ==
  [][\A r \in Requests :
       /\ ScopesRemoved(r)
       /\ ~req[r].stale
       /\ \A p \in Requests \ {r} : req[p] = Idle
       => \A k \in KeysOf(req[r].user) : ~Exceeds(k)']_req

(***************************************************************************)
(* What the comment on cleanAllApiKeysForUser says it makes sure of, asked *)
(* of the copies requests are served from: once all handlers are done, and *)
(* no write was lost, no cached scope is one the owner is not allowed.     *)
(***************************************************************************)
ServedScopesAllowed ==
  (\A r \in Requests : req[r] = Idle) =>
    \A k \in Keys : IsCached(k) /\ key[k].owner # None /\ ~Exceeds(k) =>
      Copy(k).scopes \subseteq Allowed(key[k].owner)
=============================================================================
