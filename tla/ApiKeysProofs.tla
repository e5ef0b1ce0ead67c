---------------------------- MODULE ApiKeysProofs ----------------------------
(* The inductive invariant of ApiKeys and its action properties, for any   *)
(* number of users, groups, keys and requests and any size of the cache.   *)
EXTENDS ApiKeys, TLAPS

\* What each call of a request is made with.
ParametersFit(q) ==
  /\ q.pc \in {"crt_role", "crt_write", "upd_role", "upd_write"} => q.user \in Owners
  /\ q.pc \in {"upd_role", "upd_write", "del_write", "evict", "use_find", "use_fill"} =>
       q.id \in Keys
  /\ q.pc \in {"use_find", "use_fill"} => q.id \notin unused
  /\ q.pc \in {"chg_same", "chg_write", "chg_keys", "chg_role", "chg_clean", "rmv_keys",
               "rmv_role", "rmv_clean", "usr_keys", "usr_row", "mrg_role", "mrg_keys",
               "mrg_move"} => q.user \in Users
  /\ q.pc \in {"mrg_role", "mrg_keys", "mrg_move"} => q.base \in Users
  /\ q.pc \in {"chg_same", "chg_write", "mrg_role"} => q.role \in Roles
  /\ q.pc = "use_fill" => q.found[q.id].live
  /\ q.pc \in {"chg_role", "chg_clean"} =>
       \A k \in Keys : q.found[k].live => q.found[k].owner = q.user

\* cleanAllApiKeysForUser has found all keys of the user before it reads the role.
ReadsHoldToo(q) ==
  /\ ReadsHold(q)
  /\ q.pc = "chg_role" => \A k \in KeysOf(q.user) : q.found[k].live

Fits(r) == ParametersFit(req[r]) /\ (req[r].stale \/ ReadsHoldToo(req[r]))

TablesFit ==
  /\ role \in [Users -> Roles \cup {None}]
  /\ key \in [Keys -> Key]
  /\ unused \subseteq Keys
  /\ \A k \in Keys : key[k].live =>
       k \notin unused /\ (key[k].owner = None \/ OwnerExists(key[k].owner))

CacheFits ==
  /\ lru \in [recent : [Keys -> Copies], old : [Keys -> Copies]]
  /\ left \subseteq Keys
  /\ \A k \in Keys : IsCached(k) => k \notin unused
  /\ CachedCopyIsCurrent

Inv == /\ TablesFit
       /\ CacheFits
       /\ req \in [Requests -> Request]
       /\ \A r \in Requests : Fits(r)

LEMMA InvGives == Inv => TypeOK /\ CachedCopyIsCurrent /\ HandlersReadCurrent
  BY DEF Inv, TablesFit, CacheFits, Fits, ReadsHoldToo, TypeOK, HandlersReadCurrent

LEMMA KeyFacts ==
  /\ NoKey \in Key /\ ~NoKey.live /\ NoKey.owner = None
  /\ \A o \in Owners, S \in SUBSET Scopes :
       /\ Record(o, S) \in Key /\ Record(o, S).live
       /\ Record(o, S).owner = o /\ Record(o, S).scopes = S
  /\ \A x \in Key :
       /\ x.scopes \in SUBSET Scopes /\ x.owner \in Owners \cup {None}
       /\ x.live \/ x = NoKey
       /\ CopyOf(x) \in Copies
       /\ CopyOf(x).live <=> x.live
       /\ CopyOf(x).scopes = x.scopes
<1>1. NoKey \in Key /\ NoKey.live = FALSE /\ NoKey.owner = None
  BY DEF NoKey, Key
<1>2. ASSUME NEW o \in Owners, NEW S \in SUBSET Scopes
      PROVE  /\ Record(o, S) \in Key /\ Record(o, S).live
             /\ Record(o, S).owner = o /\ Record(o, S).scopes = S
  BY DEF Record, Key, Owners
<1>3. ASSUME NEW x \in Key
      PROVE  x.scopes \in SUBSET Scopes /\ x.owner \in Owners \cup {None}
  <2>1. CASE x = NoKey
    BY <2>1 DEF NoKey
  <2>2. CASE x # NoKey
    BY <2>2 DEF Key, Owners
  <2>. QED BY <2>1, <2>2
<1>4. ASSUME NEW x \in Key
      PROVE  x.live \/ x = NoKey
  BY DEF Key
<1>5. ASSUME NEW x \in Key
      PROVE  CopyOf(x) \in Copies /\ CopyOf(x).live = x.live /\ CopyOf(x).scopes = x.scopes
  BY DEF CopyOf, Copies
<1>. QED BY <1>1, <1>2, <1>3, <1>4, <1>5

\* A live key with other scopes or another owner.
LEMMA UpdatedKey ==
  ASSUME NEW x \in Key, x.live
  PROVE  /\ \A S \in SUBSET Scopes :
              LET y == [x EXCEPT !.scopes = S] IN
              y \in Key /\ y.live /\ y.owner = x.owner /\ y.scopes = S
         /\ \A o \in Owners \cup {None} :
              LET y == [x EXCEPT !.owner = o] IN
              y \in Key /\ y.live /\ y.owner = o /\ y.scopes = x.scopes /\ CopyOf(y) = CopyOf(x)
<1>1. x \in [owner : Owners \cup {None}, scopes : SUBSET Scopes, live : {TRUE}]
  BY KeyFacts DEF Key, Owners
<1>2. ASSUME NEW S \in SUBSET Scopes
      PROVE  LET y == [x EXCEPT !.scopes = S] IN
             y \in Key /\ y.live /\ y.owner = x.owner /\ y.scopes = S
  BY <1>1 DEF Key, Owners
<1>3. ASSUME NEW o \in Owners \cup {None}
      PROVE  LET y == [x EXCEPT !.owner = o] IN
             y \in Key /\ y.live /\ y.owner = o /\ y.scopes = x.scopes
  BY <1>1 DEF Key, Owners
<1>4. ASSUME NEW o \in Owners \cup {None}
      PROVE  CopyOf([x EXCEPT !.owner = o]) = CopyOf(x)
  BY <1>1 DEF CopyOf
<1>. QED BY <1>2, <1>3, <1>4

LEMMA CopyFacts ==
  /\ CopyOf(NoKey) \in Copies /\ ~CopyOf(NoKey).live
  /\ NoCopies \in [Keys -> Copies]
  /\ \A k \in Keys : NoCopies[k] = CopyOf(NoKey)
  /\ Nothing \in [Keys -> Key] /\ \A k \in Keys : Nothing[k] = NoKey
  /\ \A S \in SUBSET Keys : TablesFit => Found(S) \in [Keys -> Key]
  BY KeyFacts DEF NoCopies, Nothing, Found, TablesFit

LEMMA IdleFits ==
  /\ Idle \in Request
  /\ \A r \in Requests : req'[r] = Idle => Fits(r)'
  BY CopyFacts DEF Idle, Request, PCs, Fits, ParametersFit, ReadsHoldToo, ReadsHold

LEMMA AllowedFacts ==
  /\ \A u \in Users, x \in Roles \cup {None} : AllowedAs(u, x) \in SUBSET Scopes
  /\ \A o \in Owners : Allowed(o) \in SUBSET Scopes
  /\ \A u \in Users : AllowedAs(u, None) = AllowedAs(u, "USER")
<1>1. None # "SUDO" /\ None # "USER"
  BY ApiKeysAssumption DEF Roles
<1>. QED BY <1>1 DEF AllowedAs, Allowed, AllowedToGroup, Scopes

\* Nobody's scopes change while the user's role stays.
LEMMA AllowedStays ==
  ASSUME NEW o, o \in Users => role'[o] = role[o]
  PROVE  Allowed(o)' = Allowed(o)
  BY DEF Allowed, AllowedAs, AllowedToGroup

----------------------------------------------------------------------------
(* What a waiting request knows survives the step of another one. *)

\* A key that comes to be has an owner.
FreshOwned == \A k \in Keys : key'[k].live /\ ~key[k].live => key'[k].owner # None

LEMMA OthersFit ==
  ASSUME Inv, NEW p \in Requests, TablesFit', FreshOwned, unused' \subseteq unused,
         req'[p] = [req[p] EXCEPT !.stale = @ \/ Overtaken(req[p], role', key')]
  PROVE  req'[p] \in Request /\ Fits(p)' /\ req'[p].pc = req[p].pc /\ req'[p].id = req[p].id
<1>. DEFINE q == req[p]
            o == Overtaken(q, role', key')
<1>. q \in Request /\ ParametersFit(q) /\ (q.stale \/ ReadsHoldToo(q))
  BY DEF Inv, Fits
<1>. \A k \in Keys : key[k] \in Key /\ key'[k] \in Key
  BY DEF Inv, TablesFit
<1>1. (q.stale \/ o) \in BOOLEAN
  OBVIOUS
<1>2. /\ req'[p].pc = q.pc /\ req'[p].user = q.user /\ req'[p].base = q.base
      /\ req'[p].id = q.id /\ req'[p].role = q.role
      /\ req'[p].scopes = q.scopes /\ req'[p].found = q.found
  BY DEF Request
<1>3. req'[p].stale = (q.stale \/ o)
  BY DEF Request
<1>4. req'[p] \in Request
  <2>1. \A s \in BOOLEAN : [q EXCEPT !.stale = s] \in Request
    BY DEF Request
  <2>. QED BY <1>1, <2>1
<1>5. ParametersFit(req[p])'
  BY <1>2 DEF ParametersFit
<1>6. ASSUME ~req'[p].stale
      PROVE  ~o /\ ReadsHoldToo(q)
  BY <1>3, <1>6
<1>7. ASSUME ~o, ReadsHoldToo(q)
      PROVE  ReadsHoldToo(req[p])'
  <2>1. q.pc \in {"crt_write", "upd_write", "chg_clean"} => Allowed(q.user)' = Allowed(q.user)
    <3>1. q.pc \in {"crt_write", "upd_write", "chg_clean"} /\ q.user \in Users =>
            role'[q.user] = role[q.user]
      BY <1>7 DEF Overtaken
    <3>. QED BY <3>1, AllowedStays
  <2>2. q.pc \in {"crt_write", "upd_write"} /\ q.user # None =>
          req'[p].scopes \subseteq Allowed(req[p].user)'
    BY <1>2, <1>7, <2>1 DEF ReadsHoldToo, ReadsHold, Allowed, AllowedAs, AllowedToGroup
  <2>3. q.pc \in {"upd_role", "upd_write"} /\ key'[q.id].live => key'[q.id].owner = q.user
    <3>. SUFFICES ASSUME q.pc \in {"upd_role", "upd_write"}, key'[q.id].live
                  PROVE  key'[q.id].owner = q.user
      OBVIOUS
    <3>1. q.id \in Keys
      BY DEF ParametersFit
    <3>2. key'[q.id].owner = key[q.id].owner
      BY <1>7 DEF Overtaken
    <3>3. key[q.id].live
      BY <3>1, <3>2, KeyFacts DEF FreshOwned
    <3>. QED BY <1>7, <3>2, <3>3 DEF ReadsHoldToo, ReadsHold
  <2>4. q.pc = "use_fill" => CopyOf(q.found[q.id]) = CopyOf(key'[q.id])
    BY <1>7 DEF Overtaken, ReadsHoldToo, ReadsHold
  <2>5. q.pc \in {"chg_role", "chg_clean"} =>
          \A k \in Keys : q.user \in {key[k].owner, key'[k].owner} => key'[k] = key[k]
    BY <1>7 DEF Overtaken
  <2>6. q.pc \in {"chg_role", "chg_clean"} =>
          \A k \in Keys : q.found[k].live => q.found[k] = key'[k]
    BY <1>7, <2>5, SMTT(20) DEF ReadsHoldToo, ReadsHold, ParametersFit
  <2>7. q.pc \in {"chg_role", "chg_clean"} => KeysOf(q.user)' = KeysOf(q.user)
    BY <2>5 DEF KeysOf
  <2>8. q.pc = "chg_role" => \A k \in KeysOf(req[p].user)' : req'[p].found[k].live
    BY <1>2, <1>7, <2>7 DEF ReadsHoldToo, KeysOf
  <2>9. q.pc = "chg_clean" =>
          /\ req'[p].scopes = Allowed(req[p].user)'
          /\ \A k \in KeysOf(req[p].user)' : req'[p].found[k].live \/ ~Exceeds(k)'
    <3>. SUFFICES ASSUME q.pc = "chg_clean"
                  PROVE  /\ req'[p].scopes = Allowed(req[p].user)'
                         /\ \A k \in KeysOf(req[p].user)' : req'[p].found[k].live \/ ~Exceeds(k)'
      OBVIOUS
    <3>1. req'[p].scopes = Allowed(req[p].user)'
      BY <1>2, <1>7, <2>1 DEF ReadsHoldToo, ReadsHold, Allowed, AllowedAs, AllowedToGroup
    <3>2. ASSUME NEW k \in KeysOf(q.user), ~q.found[k].live
          PROVE  ~Exceeds(k)'
      <4>1. ~Exceeds(k) /\ key[k].owner = q.user /\ key'[k] = key[k] /\ key[k].live
        BY <1>7, <2>5, <3>2 DEF ReadsHoldToo, ReadsHold, KeysOf
      <4>2. key[k].owner # None
        BY <4>1, ApiKeysAssumption DEF ParametersFit
      <4>3. key[k].scopes \subseteq Allowed(q.user)
        BY <4>1, <4>2 DEF Exceeds
      <4>4. Allowed(key[k].owner)' = Allowed(q.user)
        BY <2>1, <4>1 DEF Allowed, AllowedAs, AllowedToGroup
      <4>. QED BY <4>1, <4>3, <4>4 DEF Exceeds
    <3>3. KeysOf(req[p].user)' = KeysOf(q.user)
      BY <1>2, <2>7 DEF KeysOf
    <3>. QED BY <1>2, <3>1, <3>2, <3>3
  <2>. QED BY <1>2, <2>2, <2>3, <2>4, <2>6, <2>8, <2>9 DEF ReadsHoldToo, ReadsHold
<1>. QED BY <1>2, <1>4, <1>5, <1>6, <1>7 DEF Fits

\* A write leaves each copy right, on the list of those left behind or about
\* to be evicted.
LEMMA CopiesKept ==
  ASSUME CacheFits, UNCHANGED lru, unused' \subseteq unused, left' \subseteq Keys,
         left \subseteq left',
         \A k \in Keys : CopyOf(key'[k]) # CopyOf(key[k]) /\ IsCached(k) =>
           \/ k \in left'
           \/ \E r \in Requests : req'[r].pc = "evict" /\ req'[r].id = k,
         \A p \in Requests : req[p].pc = "evict" =>
           req'[p].pc = "evict" /\ req'[p].id = req[p].id
  PROVE  CacheFits'
  BY DEF CacheFits, CachedCopyIsCurrent, IsCached, Copy

\* A step that writes: what the request that takes it has to show.
LEMMA CommitKeeps ==
  ASSUME Inv, NEW r \in Requests, NEW roles, NEW keys, NEW next \in Request,
         Commit(r, roles, keys, next), UNCHANGED lru, unused' \subseteq unused,
         TablesFit', FreshOwned, Fits(r)',
         left' \subseteq Keys, left \subseteq left',
         \A k \in Keys : CopyOf(keys[k]) # CopyOf(key[k]) /\ IsCached(k) =>
           k \in left' \/ (next.pc = "evict" /\ next.id = k),
         req[r].pc # "evict"
  PROVE  Inv'
<1>1. ASSUME NEW p \in Requests
      PROVE  /\ req'[p] \in Request /\ Fits(p)'
             /\ req[p].pc = "evict" => req'[p].pc = "evict" /\ req'[p].id = req[p].id
  <2>1. CASE p = r
    BY <2>1 DEF Commit
  <2>2. CASE p # r
    BY <2>2, OthersFit DEF Commit
  <2>. QED BY <2>1, <2>2
<1>2. req' \in [Requests -> Request] /\ req'[r] = next /\ key' = keys
  BY <1>1 DEF Commit
<1>3. CacheFits'
  BY <1>1, <1>2, CopiesKept DEF Inv
<1>. QED BY <1>1, <1>2, <1>3 DEF Inv

\* A step that writes nothing.
LEMMA BecomeKeeps ==
  ASSUME Inv, NEW r \in Requests, NEW next \in Request, Become(r, next),
         UNCHANGED <<tables, copies>>, Fits(r)', req[r].pc # "evict"
  PROVE  Inv'
<1>. UNCHANGED <<role, key, unused, lru, left>>
  BY DEF tables, copies
<1>1. TablesFit'
  BY DEF Inv, TablesFit, OwnerExists
<1>2. ASSUME NEW p \in Requests, p # r
      PROVE  req'[p] = req[p] /\ req'[p] \in Request /\ Fits(p)'
  <2>1. req'[p] = req[p] /\ Fits(p) /\ req[p] \in Request
    BY <1>2 DEF Become, Inv
  <2>2. /\ Allowed(req[p].user)' = Allowed(req[p].user)
        /\ KeysOf(req[p].user)' = KeysOf(req[p].user)
        /\ \A k \in Keys : Exceeds(k)' <=> Exceeds(k)
    BY <2>1 DEF Allowed, AllowedAs, AllowedToGroup, KeysOf, Exceeds
  <2>3. KeysOf(req[p].user) \subseteq Keys
    BY DEF KeysOf
  <2>4. ParametersFit(req[p])'
    BY <2>1, <2>3 DEF Fits, ParametersFit
  <2>5. req[p].stale \/ ReadsHoldToo(req[p])'
    <3>. SUFFICES ASSUME ~req[p].stale
                  PROVE  ReadsHoldToo(req[p])'
      OBVIOUS
    <3>1. ReadsHoldToo(req[p])
      BY <2>1 DEF Fits
    <3>2. req[p].pc = "chg_role" => \A k \in KeysOf(req[p].user) : req[p].found[k].live
      BY <3>1 DEF ReadsHoldToo
    <3>3. /\ req[p].pc \in {"crt_write", "upd_write"} /\ req[p].user # None =>
               req[p].scopes \subseteq Allowed(req[p].user)
          /\ req[p].pc \in {"upd_role", "upd_write"} /\ key[req[p].id].live =>
               key[req[p].id].owner = req[p].user
          /\ req[p].pc = "use_fill" => CopyOf(req[p].found[req[p].id]) = CopyOf(key[req[p].id])
          /\ req[p].pc \in {"chg_role", "chg_clean"} =>
               \A k \in Keys : req[p].found[k].live => req[p].found[k] = key[k]
      BY <3>1 DEF ReadsHoldToo, ReadsHold
    <3>4. req[p].pc = "chg_clean" =>
            /\ req[p].scopes = Allowed(req[p].user)
            /\ \A k \in KeysOf(req[p].user) : req[p].found[k].live \/ ~Exceeds(k)
      BY <3>1 DEF ReadsHoldToo, ReadsHold
    <3>5. ReadsHold(req[p])'
      BY <2>1, <2>2, <2>3, <3>3, <3>4 DEF ReadsHold
    <3>. QED BY <2>1, <2>2, <3>2, <3>5 DEF ReadsHoldToo
  <2>. QED BY <2>1, <2>4, <2>5 DEF Fits
<1>3. req' \in [Requests -> Request]
  BY <1>2 DEF Become, Inv
<1>4. CacheFits'
  BY <1>2, CopiesKept DEF Inv, CacheFits
<1>. QED BY <1>1, <1>2, <1>3, <1>4 DEF Inv

LEMMA ReplyKeeps ==
  ASSUME Inv, NEW r \in Requests, Reply(r), UNCHANGED <<tables, copies>>, req[r].pc # "evict"
  PROVE  Inv'
<1>1. req'[r] = Idle
  BY DEF Reply, Become, Inv
<1>. QED BY <1>1, IdleFits, BecomeKeeps DEF Reply

LEMMA CommitIdleKeeps ==
  ASSUME Inv, NEW r \in Requests, NEW roles, NEW keys, Commit(r, roles, keys, Idle),
         UNCHANGED <<lru, left>>, unused' \subseteq unused, TablesFit', FreshOwned,
         \A k \in Keys : IsCached(k) => CopyOf(keys[k]) = CopyOf(key[k]) \/ k \in left,
         req[r].pc # "evict"
  PROVE  Inv'
<1>1. req'[r] = Idle
  BY DEF Commit
<1>. QED BY <1>1, IdleFits, CommitKeeps DEF Inv, CacheFits

----------------------------------------------------------------------------
(* The steps that only read or call for a read.                            *)

LEMMA ArriveKeeps ==
  ASSUME Inv, NEW r \in Requests, Arrive(r)
  PROVE  Inv'
<1>. req \in [Requests -> Request] /\ req[r] \in Request /\ Fits(r) /\ TablesFit
  BY DEF Inv
<1>1. ASSUME NEW owner \in Owners, NEW wish \in Wishes, CreateApiKey(r, owner, wish)
      PROVE  Inv'
  <2>. DEFINE next == [Idle EXCEPT !.pc = "crt_role", !.user = owner, !.scopes = wish]
  <2>1. Become(r, next) /\ UNCHANGED <<tables, copies>> /\ req[r].pc # "evict"
    BY <1>1 DEF CreateApiKey, Idle, KeysOf
  <2>2. next \in Request
    BY <2>1, CopyFacts, ApiKeysAssumption DEF Request, PCs, Owners, Idle
  <2>3. req'[r] = next
    BY <2>1 DEF Become, Inv
  <2>4. /\ req'[r].pc = "crt_role" /\ req'[r].user = owner
    BY <2>1, <2>3 DEF Request, Idle
  <2>. HIDE DEF next
  <2>6. Fits(r)'
    BY <2>1, <2>4 DEF tables, Fits, ParametersFit, ReadsHoldToo, ReadsHold
  <2>. QED BY <2>1, <2>2, <2>6, BecomeKeeps
<1>2. ASSUME NEW owner \in Owners, NEW k \in Keys, NEW wish \in Wishes,
             UpdateApiKey(r, owner, k, wish)
      PROVE  Inv'
  <2>. DEFINE next == [Idle EXCEPT !.pc = "upd_role", !.user = owner, !.id = k, !.scopes = wish]
  <2>1. Become(r, next) /\ UNCHANGED <<tables, copies>> /\ req[r].pc # "evict"
        /\ key[k].owner = owner
    BY <1>2 DEF UpdateApiKey, Idle, KeysOf
  <2>2. next \in Request
    BY <2>1, CopyFacts, ApiKeysAssumption DEF Request, PCs, Owners, Idle
  <2>3. req'[r] = next
    BY <2>1 DEF Become, Inv
  <2>4. /\ req'[r].pc = "upd_role" /\ req'[r].user = owner /\ req'[r].id = k
    BY <2>1, <2>3 DEF Request, Idle
  <2>. HIDE DEF next
  <2>6. Fits(r)'
    BY <2>1, <2>4 DEF tables, Fits, ParametersFit, ReadsHoldToo, ReadsHold
  <2>. QED BY <2>1, <2>2, <2>6, BecomeKeeps
<1>3. ASSUME NEW owner \in Owners, NEW k \in Keys, DeleteApiKey(r, owner, k)
      PROVE  Inv'
  <2>. DEFINE next == [Idle EXCEPT !.pc = "del_write", !.user = owner, !.id = k]
  <2>1. Become(r, next) /\ UNCHANGED <<tables, copies>> /\ req[r].pc # "evict"
    BY <1>3 DEF DeleteApiKey, Idle, KeysOf
  <2>2. next \in Request
    BY <2>1, CopyFacts DEF Request, PCs, Owners, Idle
  <2>3. req'[r] = next
    BY <2>1 DEF Become, Inv
  <2>4. /\ req'[r].pc = "del_write" /\ req'[r].id = k
    BY <2>1, <2>3 DEF Request, Idle
  <2>. HIDE DEF next
  <2>6. Fits(r)'
    BY <2>1, <2>4 DEF tables, Fits, ParametersFit, ReadsHoldToo, ReadsHold
  <2>. QED BY <2>1, <2>2, <2>6, BecomeKeeps
<1>4. ASSUME NEW k \in Keys, GetApiKeyFromKey(r, k)
      PROVE  Inv'
  <2>. DEFINE next == [Idle EXCEPT !.pc = "use_find", !.id = k]
  <2>1. Become(r, next) /\ UNCHANGED <<tables, copies>> /\ req[r].pc # "evict"
        /\ k \notin unused
    BY <1>4 DEF GetApiKeyFromKey, Idle, KeysOf
  <2>2. next \in Request
    BY <2>1, CopyFacts DEF Request, PCs, Owners, Idle
  <2>3. req'[r] = next
    BY <2>1 DEF Become, Inv
  <2>4. /\ req'[r].pc = "use_find" /\ req'[r].id = k
    BY <2>1, <2>3 DEF Request, Idle
  <2>. HIDE DEF next
  <2>6. Fits(r)'
    BY <2>1, <2>4 DEF tables, Fits, ParametersFit, ReadsHoldToo, ReadsHold
  <2>. QED BY <2>1, <2>2, <2>6, BecomeKeeps
<1>5. ASSUME NEW u \in Users, NEW newRole \in Roles, UpdateUser(r, u, newRole)
      PROVE  Inv'
  <2>. DEFINE next == [Idle EXCEPT !.pc = IF role[u] = newRole THEN "chg_same" ELSE "chg_write",
                              !.user = u, !.role = newRole]
  <2>1. Become(r, next) /\ UNCHANGED <<tables, copies>> /\ req[r].pc # "evict"
    BY <1>5 DEF UpdateUser, Idle, KeysOf
  <2>2. next \in Request
    BY <2>1, CopyFacts DEF Request, PCs, Owners, Idle
  <2>3. req'[r] = next
    BY <2>1 DEF Become, Inv
  <2>4. /\ req'[r].pc \in {"chg_same", "chg_write"}
        /\ req'[r].user = u /\ req'[r].role = newRole
    BY <2>1, <2>3 DEF Request, Idle
  <2>. HIDE DEF next
  <2>6. Fits(r)'
    BY <2>1, <2>4 DEF tables, Fits, ParametersFit, ReadsHoldToo, ReadsHold
  <2>. QED BY <2>1, <2>2, <2>6, BecomeKeeps
<1>6. ASSUME NEW u \in Users, RemoveUnauthorizedScopes(r, u)
      PROVE  Inv'
  <2>. DEFINE next == [Idle EXCEPT !.pc = "rmv_keys", !.user = u]
  <2>1. Become(r, next) /\ UNCHANGED <<tables, copies>> /\ req[r].pc # "evict"
    BY <1>6 DEF RemoveUnauthorizedScopes, Idle, KeysOf
  <2>2. next \in Request
    BY <2>1, CopyFacts DEF Request, PCs, Owners, Idle
  <2>3. req'[r] = next
    BY <2>1 DEF Become, Inv
  <2>4. /\ req'[r].pc = "rmv_keys" /\ req'[r].user = u
    BY <2>1, <2>3 DEF Request, Idle
  <2>. HIDE DEF next
  <2>6. Fits(r)'
    BY <2>1, <2>4 DEF tables, Fits, ParametersFit, ReadsHoldToo, ReadsHold
  <2>. QED BY <2>1, <2>2, <2>6, BecomeKeeps
<1>7. ASSUME NEW u \in Users, DeleteUser(r, u)
      PROVE  Inv'
  <2>. DEFINE next == [Idle EXCEPT !.pc = "usr_keys", !.user = u]
  <2>1. Become(r, next) /\ UNCHANGED <<tables, copies>> /\ req[r].pc # "evict"
    BY <1>7 DEF DeleteUser, Idle, KeysOf
  <2>2. next \in Request
    BY <2>1, CopyFacts DEF Request, PCs, Owners, Idle
  <2>3. req'[r] = next
    BY <2>1 DEF Become, Inv
  <2>4. /\ req'[r].pc = "usr_keys" /\ req'[r].user = u
    BY <2>1, <2>3 DEF Request, Idle
  <2>. HIDE DEF next
  <2>6. Fits(r)'
    BY <2>1, <2>4 DEF tables, Fits, ParametersFit, ReadsHoldToo, ReadsHold
  <2>. QED BY <2>1, <2>2, <2>6, BecomeKeeps
<1>8. ASSUME NEW base \in Users, NEW other \in Users, MergeUsers(r, base, other)
      PROVE  Inv'
  <2>. DEFINE next == [Idle EXCEPT !.pc = "mrg_role", !.base = base, !.user = other,
                              !.role = role[other]]
  <2>1. Become(r, next) /\ UNCHANGED <<tables, copies>> /\ req[r].pc # "evict"
        /\ role[other] \in Roles
    BY <1>8 DEF MergeUsers, Idle, TablesFit
  <2>2. next \in Request
    BY <2>1, CopyFacts DEF Request, PCs, Owners, Idle
  <2>3. req'[r] = next
    BY <2>1 DEF Become, Inv
  <2>4. /\ req'[r].pc = "mrg_role" /\ req'[r].base = base /\ req'[r].user = other
        /\ req'[r].role = role[other]
    BY <2>1, <2>3 DEF Request, Idle
  <2>. HIDE DEF next
  <2>6. Fits(r)'
    BY <2>1, <2>4 DEF tables, Fits, ParametersFit, ReadsHoldToo, ReadsHold
  <2>. QED BY <2>1, <2>2, <2>6, BecomeKeeps
<1>. QED BY <1>1, <1>2, <1>3, <1>4, <1>5, <1>6, <1>7, <1>8 DEF Arrive

LEMMA ReadersKeep ==
  ASSUME Inv, NEW r \in Requests, \/ CleanScopes(r) \/ FindKey(r) \/ FindKeysToClean(r)
                               \/ ReadAllowedScopes(r) \/ FindKeysToMove(r)
                               \/ KeysCleaned(r) \/ ScopesRemoved(r) \/ Abort(r)
  PROVE  Inv'
<1>. req \in [Requests -> Request] /\ req[r] \in Request /\ Fits(r) /\ TablesFit
  BY DEF Inv
<1>1. CASE CleanScopes(r)
  <2>1. CASE ~OwnerExists(req[r].user)
    BY <1>1, <2>1, ReplyKeeps DEF CleanScopes
  <2>2. CASE OwnerExists(req[r].user)
    <3>. DEFINE next == [req[r] EXCEPT !.pc = IF @ = "crt_role" THEN "crt_write" ELSE "upd_write",
                                      !.scopes = @ \cap Allowed(req[r].user)]
    <3>1. Become(r, next) /\ UNCHANGED <<tables, copies>> /\ req[r].pc # "evict"
          /\ req[r].pc \in {"crt_role", "upd_role"}
      BY <1>1, <2>2 DEF CleanScopes, Idle, KeysOf
    <3>2. next \in Request
      BY <3>1, ZenonT(40) DEF Request, PCs, Owners
    <3>3. req'[r] = next
      BY <3>1 DEF Become, Inv
    <3>4. /\ req'[r].pc = IF req[r].pc = "crt_role" THEN "crt_write" ELSE "upd_write"
          /\ req'[r].stale = req[r].stale /\ req'[r].user = req[r].user
          /\ req'[r].id = req[r].id
          /\ req'[r].scopes = req[r].scopes \cap Allowed(req[r].user)
      BY <3>1, <3>3 DEF Request, Idle
    <3>. HIDE DEF next
    <3>5. /\ req'[r].scopes \subseteq Allowed(req[r].user)'
          /\ req[r].pc = "upd_role" => req'[r].pc = "upd_write"
      BY <3>1, <3>4 DEF tables, Allowed, AllowedAs, AllowedToGroup
    <3>6. Fits(r)'
      BY <3>1, <3>4, <3>5 DEF tables, Fits, ParametersFit, ReadsHoldToo, ReadsHold
    <3>. QED BY <3>1, <3>2, <3>6, BecomeKeeps
  <2>. QED BY <2>1, <2>2
<1>2. CASE FindKey(r)
  <2>1. CASE ~key[req[r].id].live
    BY <1>2, <2>1, ReplyKeeps DEF FindKey
  <2>2. CASE key[req[r].id].live
    <3>. DEFINE next == [req[r] EXCEPT !.pc = "use_fill", !.found = Found({req[r].id})]
    <3>1. Become(r, next) /\ UNCHANGED <<tables, copies>> /\ req[r].pc # "evict"
          /\ req[r].pc = "use_find" /\ req[r].id \in Keys
      BY <1>2, <2>2 DEF FindKey, Fits, ParametersFit
    <3>2. next \in Request
      BY <3>1, CopyFacts DEF Request, PCs, Owners
    <3>3. req'[r] = next
      BY <3>1 DEF Become, Inv
    <3>4. /\ req'[r].pc = "use_fill" /\ req'[r].stale = req[r].stale
          /\ req'[r].id = req[r].id /\ req'[r].found = Found({req[r].id})
      BY <3>1, <3>3 DEF Request, Idle
    <3>. HIDE DEF next
    <3>5. req'[r].found[req[r].id] = key[req[r].id] /\ key[req[r].id].live
      BY <2>2, <3>1, <3>4 DEF Found
    <3>6. Fits(r)'
      BY <3>1, <3>4, <3>5 DEF tables, Fits, ParametersFit, ReadsHoldToo, ReadsHold
    <3>. QED BY <3>1, <3>2, <3>6, BecomeKeeps
  <2>. QED BY <2>1, <2>2
<1>3. CASE FindKeysToClean(r)
  <2>1. CASE KeysOf(req[r].user) = {}
    BY <1>3, <2>1, ReplyKeeps DEF FindKeysToClean
  <2>2. CASE KeysOf(req[r].user) # {}
    <3>. DEFINE next == [req[r] EXCEPT !.pc = IF @ = "chg_keys" THEN "chg_role" ELSE "rmv_role",
                                      !.found = Found(KeysOf(req[r].user))]
    <3>1. Become(r, next) /\ UNCHANGED <<tables, copies>> /\ req[r].pc # "evict"
          /\ req[r].pc \in {"chg_keys", "rmv_keys"}
      BY <1>3, <2>2 DEF FindKeysToClean
    <3>9. KeysOf(req[r].user) \in SUBSET Keys
      BY DEF KeysOf
    <3>2. next \in Request
      BY <3>1, <3>9, CopyFacts, ZenonT(40) DEF Request, PCs, Owners
    <3>3. req'[r] = next
      BY <3>1 DEF Become, Inv
    <3>4. /\ req'[r].pc \in {"chg_role", "rmv_role"}
          /\ req'[r].stale = req[r].stale /\ req'[r].user = req[r].user
          /\ req'[r].found = Found(KeysOf(req[r].user))
      BY <3>1, <3>3 DEF Request, Idle
    <3>. HIDE DEF next
    <3>5. \A k \in Keys : req'[r].found[k].live =>
            req'[r].found[k] = key[k] /\ key[k].owner = req[r].user
      BY <3>4, KeyFacts DEF Found, KeysOf
    <3>7. \A k \in KeysOf(req[r].user)' : req'[r].found[k].live
      BY <3>1, <3>4 DEF tables, Found, KeysOf
    <3>6. Fits(r)'
      BY <3>1, <3>4, <3>5, <3>7 DEF tables, Fits, ParametersFit, ReadsHoldToo, ReadsHold
    <3>. QED BY <3>1, <3>2, <3>6, BecomeKeeps
  <2>. QED BY <2>1, <2>2
<1>4. CASE ReadAllowedScopes(r)
  <2>1. CASE role[req[r].user] = None
    BY <1>4, <2>1, ReplyKeeps DEF ReadAllowedScopes
  <2>2. CASE role[req[r].user] # None
    <3>. DEFINE next == [req[r] EXCEPT !.pc = IF @ = "chg_role" THEN "chg_clean" ELSE "rmv_clean",
                                      !.scopes = Allowed(req[r].user)]
    <3>1. Become(r, next) /\ UNCHANGED <<tables, copies>> /\ req[r].pc # "evict"
          /\ req[r].pc \in {"chg_role", "rmv_role"} /\ req[r].user \in Users
      BY <1>4, <2>2 DEF ReadAllowedScopes, Fits, ParametersFit
    <3>2. next \in Request
      BY <3>1, AllowedFacts DEF Request, PCs, Owners
    <3>3. req'[r] = next
      BY <3>1 DEF Become, Inv
    <3>4. /\ req'[r].pc = IF req[r].pc = "chg_role" THEN "chg_clean" ELSE "rmv_clean"
          /\ req'[r].stale = req[r].stale /\ req'[r].user = req[r].user
          /\ req'[r].found = req[r].found /\ req'[r].scopes = Allowed(req[r].user)
      BY <3>1, <3>3 DEF Request, Idle
    <3>. HIDE DEF next
    <3>5. /\ req'[r].scopes = Allowed(req[r].user)'
          /\ KeysOf(req[r].user)' = KeysOf(req[r].user)
      BY <3>1, <3>4 DEF tables, Allowed, AllowedAs, AllowedToGroup, KeysOf
    <3>6. Fits(r)'
      BY <3>1, <3>4, <3>5 DEF tables, Fits, ParametersFit, ReadsHoldToo, ReadsHold
    <3>. QED BY <3>1, <3>2, <3>6, BecomeKeeps
  <2>. QED BY <2>1, <2>2
<1>5. CASE FindKeysToMove(r)
  <2>. DEFINE next == [req[r] EXCEPT !.pc = "mrg_move", !.found = Found(KeysOf(req[r].user))]
  <2>1. Become(r, next) /\ UNCHANGED <<tables, copies>> /\ req[r].pc # "evict"
        /\ req[r].pc = "mrg_keys"
    BY <1>5 DEF FindKeysToMove
  <2>9. KeysOf(req[r].user) \in SUBSET Keys
    BY DEF KeysOf
  <2>2. next \in Request
    BY <2>1, <2>9, CopyFacts DEF Request, PCs, Owners
  <2>3. req'[r] = next
    BY <2>1 DEF Become, Inv
  <2>4. /\ req'[r].pc = "mrg_move" /\ req'[r].stale = req[r].stale
        /\ req'[r].user = req[r].user /\ req'[r].base = req[r].base
    BY <2>1, <2>3 DEF Request, Idle
  <2>. HIDE DEF next
  <2>6. Fits(r)'
    BY <2>1, <2>4 DEF tables, Fits, ParametersFit, ReadsHoldToo, ReadsHold
  <2>. QED BY <2>1, <2>2, <2>6, BecomeKeeps
<1>6. CASE KeysCleaned(r) \/ ScopesRemoved(r) \/ Abort(r)
  BY <1>6, ReplyKeeps DEF KeysCleaned, ScopesRemoved, Abort
<1>. QED BY <1>1, <1>2, <1>3, <1>4, <1>5, <1>6

----------------------------------------------------------------------------
(* The steps that write to the tables.                                     *)

\* A key row that is written again as another one of the same kind.
LEMMA RowWritten ==
  ASSUME Inv, NEW k \in Keys, NEW x \in Key, key[k].live, key' = [key EXCEPT ![k] = x],
         UNCHANGED <<role, unused>>, x.live => x.owner = None \/ OwnerExists(x.owner)
  PROVE  TablesFit' /\ FreshOwned
<1>1. \A j \in Keys : key'[j] = IF j = k THEN x ELSE key[j]
  BY DEF Inv, TablesFit
<1>. QED BY <1>1 DEF Inv, TablesFit, FreshOwned, OwnerExists

LEMMA CreateKeeps ==
  ASSUME Inv, NEW r \in Requests, CreateKeyRow(r)
  PROVE  Inv'
<1>. DEFINE q == req[r]
<1>1. CASE ~(OwnerExists(q.user) /\ unused # {})
  BY <1>1, ReplyKeeps DEF CreateKeyRow, tables
<1>2. CASE OwnerExists(q.user) /\ unused # {}
  <2>1. PICK k \in unused :
          /\ Commit(r, role, [key EXCEPT ![k] = Record(q.user, q.scopes)], Idle)
          /\ unused' = unused \ {k}
    BY <1>2 DEF CreateKeyRow
  <2>2. q.pc = "crt_write" /\ UNCHANGED <<lru, left>>
    BY DEF CreateKeyRow, copies
  <2>3. k \in Keys /\ q.user \in Owners /\ q.scopes \in SUBSET Scopes /\ TablesFit /\ CacheFits
    BY <2>2 DEF Inv, Fits, ParametersFit, Request, TablesFit
  <2>4. \A j \in Keys : key'[j] = IF j = k THEN Record(q.user, q.scopes) ELSE key[j]
    BY <2>1, <2>3 DEF Commit, TablesFit
  <2>5. TablesFit'
    <3>1. key' \in [Keys -> Key] /\ UNCHANGED role
      BY <2>1, <2>3, KeyFacts DEF Commit, TablesFit
    <3>. QED BY <1>2, <2>1, <2>3, <2>4, <3>1, KeyFacts DEF TablesFit, OwnerExists
  <2>6. FreshOwned
    BY <2>3, <2>4, KeyFacts, ApiKeysAssumption DEF FreshOwned, Owners
  <2>7. \A j \in Keys : IsCached(j) => j # k
    BY <2>1, <2>3 DEF CacheFits
  <2>8. \A j \in Keys : IsCached(j) => [key EXCEPT ![k] = Record(q.user, q.scopes)][j] = key[j]
    BY <2>3, <2>7 DEF TablesFit
  <2>9. unused' \subseteq unused /\ q.pc # "evict"
    BY <2>1, <2>2
  <2>. QED BY <2>1, <2>2, <2>5, <2>6, <2>8, <2>9, CommitIdleKeeps
<1>. QED BY <1>1, <1>2

LEMMA EvictingFits ==
  ASSUME NEW r \in Requests, NEW q, q.id \in Keys
  PROVE  /\ Evicting(q) \in Request /\ Evicting(q).pc = "evict" /\ Evicting(q).id = q.id
         /\ req'[r] = Evicting(q) => Fits(r)'
<1>1. /\ Evicting(q) \in Request /\ Evicting(q).pc = "evict" /\ Evicting(q).id = q.id
  BY IdleFits DEF Evicting, Request, PCs, Idle
<1>. QED BY <1>1 DEF Fits, ParametersFit, ReadsHoldToo, ReadsHold

LEMMA ScopesAndDeleteKeep ==
  ASSUME Inv, NEW r \in Requests, WriteScopes(r) \/ DeleteKeyRow(r)
  PROVE  Inv'
<1>. DEFINE q == req[r]
<1>1. q.pc \in {"upd_write", "del_write"} /\ q.id \in Keys /\ q.scopes \in SUBSET Scopes
  BY DEF WriteScopes, DeleteKeyRow, Inv, Fits, ParametersFit, Request
<1>2. CASE ~key[q.id].live
  BY <1>1, <1>2, ReplyKeeps DEF WriteScopes, DeleteKeyRow, tables
<1>3. CASE key[q.id].live
  <2>1. PICK x \in Key : /\ Commit(r, role, [key EXCEPT ![q.id] = x], Evicting(q))
                         /\ x.live => x.owner = key[q.id].owner
    <3>1. key[q.id] \in Key
      BY <1>1 DEF Inv, TablesFit
    <3>2. CASE WriteScopes(r)
      <4>. DEFINE x == [key[q.id] EXCEPT !.scopes = q.scopes]
      <4>1. x \in Key /\ x.owner = key[q.id].owner
        BY <1>1, <1>3, <3>1, UpdatedKey
      <4>2. Commit(r, role, [key EXCEPT ![q.id] = x], Evicting(q))
        BY <1>3, <3>2 DEF WriteScopes
      <4>. QED BY <4>1, <4>2
    <3>3. CASE DeleteKeyRow(r)
      BY <1>3, <3>3, KeyFacts DEF DeleteKeyRow
    <3>. QED BY <3>2, <3>3
  <2>2. UNCHANGED <<unused, lru, left>>
    BY DEF WriteScopes, DeleteKeyRow, copies
  <2>3. role' = role /\ key' = [key EXCEPT ![q.id] = x] /\ req'[r] = Evicting(q)
    BY <2>1 DEF Commit
  <2>4. x.live => x.owner = None \/ OwnerExists(x.owner)
    BY <1>1, <1>3, <2>1 DEF Inv, TablesFit
  <2>5. TablesFit' /\ FreshOwned
    BY <1>1, <1>3, <2>2, <2>3, <2>4, RowWritten
  <2>6. /\ Evicting(q) \in Request /\ Evicting(q).pc = "evict" /\ Evicting(q).id = q.id
        /\ Fits(r)'
    BY <1>1, <2>3, EvictingFits
  <2>7. \A k \in Keys : k # q.id => key'[k] = key[k]
    BY <2>3 DEF Inv, TablesFit
  <2>8. /\ left' \subseteq Keys /\ left \subseteq left'
        /\ \A k \in Keys : CopyOf([key EXCEPT ![q.id] = x][k]) # CopyOf(key[k]) =>
             Evicting(q).pc = "evict" /\ Evicting(q).id = k
    BY <2>2, <2>3, <2>6, <2>7 DEF Inv, CacheFits
  <2>. QED BY <1>1, <2>1, <2>2, <2>5, <2>6, <2>8, CommitKeeps
<1>. QED BY <1>2, <1>3

\* A role is written: no key changes.
LEMMA RoleWritten ==
  ASSUME Inv, NEW u \in Users, NEW x \in Roles, role' = [role EXCEPT ![u] = x],
         UNCHANGED <<key, unused>>
  PROVE  TablesFit' /\ FreshOwned
<1>1. x # None
  BY ApiKeysAssumption
<1>. QED BY <1>1 DEF Inv, TablesFit, FreshOwned, OwnerExists

LEMMA RolesKeep ==
  ASSUME Inv, NEW r \in Requests, WriteRole(r) \/ MergeRole(r)
  PROVE  Inv'
<1>. DEFINE q == req[r]
            u == IF q.pc = "mrg_role" THEN q.base ELSE q.user
<1>1. /\ q.pc \in {"chg_same", "chg_write", "mrg_role"}
      /\ u \in Users /\ q.user \in Users /\ q.role \in Roles /\ q \in Request
      /\ q.pc = "mrg_role" => q.base \in Users
  BY DEF WriteRole, MergeRole, Inv, Fits, ParametersFit
<1>2. UNCHANGED <<unused, lru, left>>
  BY DEF WriteRole, MergeRole, copies
<1>3. CASE role[u] = None
  BY <1>1, <1>3, ReplyKeeps DEF WriteRole, MergeRole, tables
<1>4. CASE role[u] # None
  <2>1. PICK next \in {Idle, [q EXCEPT !.pc = "chg_keys", !.role = None],
                       [q EXCEPT !.pc = "mrg_keys", !.role = None]} :
          /\ Commit(r, [role EXCEPT ![u] = q.role], key, next)
          /\ next = [q EXCEPT !.pc = "mrg_keys", !.role = None] => q.pc = "mrg_role"
    <3>1. CASE WriteRole(r)
      <4>1. q.pc # "mrg_role" /\ u = q.user
        BY <3>1 DEF WriteRole
      <4>2. [q EXCEPT !.pc = "mrg_keys", !.role = None]
              # [q EXCEPT !.pc = "chg_keys", !.role = None]
        BY <1>1, ZenonT(40) DEF Request
      <4>3. [q EXCEPT !.pc = "mrg_keys", !.role = None] # Idle
        BY <1>1 DEF Request, Idle
      <4>. QED BY <1>4, <3>1, <4>1, <4>2, <4>3 DEF WriteRole
    <3>2. CASE MergeRole(r)
      BY <1>4, <3>2 DEF MergeRole
    <3>. QED BY <3>1, <3>2
  <2>2. role' = [role EXCEPT ![u] = q.role] /\ key' = key /\ req'[r] = next
    BY <2>1 DEF Commit
  <2>3. TablesFit' /\ FreshOwned
    BY <1>1, <1>2, <2>2, RoleWritten
  <2>4. next \in Request /\ Fits(r)'
    <3>1. CASE next = Idle
      BY <2>2, <3>1, IdleFits
    <3>2. CASE next = [q EXCEPT !.pc = "chg_keys", !.role = None]
      <4>1. next \in Request
        BY <1>1, <3>2 DEF Request, PCs
      <4>2. req'[r].pc = "chg_keys" /\ req'[r].user = q.user
        BY <1>1, <2>2, <3>2 DEF Request
      <4>. QED BY <1>1, <4>1, <4>2 DEF Fits, ParametersFit, ReadsHoldToo, ReadsHold
    <3>3. CASE next = [q EXCEPT !.pc = "mrg_keys", !.role = None]
      <4>1. next \in Request
        BY <1>1, <3>3 DEF Request, PCs
      <4>2. req'[r].pc = "mrg_keys" /\ req'[r].user = q.user /\ req'[r].base = q.base
        BY <1>1, <2>2, <3>3 DEF Request
      <4>. QED BY <1>1, <2>1, <3>3, <4>1, <4>2 DEF Fits, ParametersFit, ReadsHoldToo, ReadsHold
    <3>. QED BY <2>1, <3>1, <3>2, <3>3
  <2>5. left' \subseteq Keys /\ left \subseteq left'
    BY <1>2 DEF Inv, CacheFits
  <2>. QED BY <1>1, <1>2, <2>1, <2>3, <2>4, <2>5, CommitKeeps
<1>. QED BY <1>3, <1>4

LEMMA CleanKeeps ==
  ASSUME Inv, NEW r \in Requests, NEW k \in Keys, CleanKey(r, k)
  PROVE  Inv'
<1>. DEFINE q == req[r]
            x == [key[k] EXCEPT !.scopes = q.found[k].scopes \cap q.scopes]
            cleaned == [key EXCEPT ![k] = x]
            next == [q EXCEPT !.found[k] = NoKey]
<1>1. /\ q.pc = "chg_clean" /\ q.found[k].live /\ q \in Request /\ q.user \in Users
      /\ UNCHANGED <<unused, lru>>
  BY DEF CleanKey, Inv, Fits, ParametersFit
<1>4. PICK u \in Users : u = q.user
  BY <1>1
<1>2. CASE ~key[k].live
  BY <1>1, <1>2, ReplyKeeps DEF CleanKey, tables, copies
<1>3. CASE key[k].live
  <2>1. Commit(r, role, cleaned, next) /\ LeaveCopies(cleaned)
    BY <1>3 DEF CleanKey
  <2>2. key[k] \in Key /\ x \in Key /\ x.live /\ x.owner = key[k].owner
        /\ x.scopes = q.found[k].scopes \cap q.scopes
    <3>1. key[k] \in Key /\ q.found[k].scopes \cap q.scopes \in SUBSET Scopes
      BY <1>1 DEF Inv, TablesFit, Request
    <3>. QED BY <1>3, <3>1, UpdatedKey
  <2>. HIDE DEF x
  <2>3. role' = role /\ key' = [key EXCEPT ![k] = x] /\ req'[r] = next
    BY <2>1 DEF Commit
  <2>4. \A j \in Keys : key'[j] = IF j = k THEN x ELSE key[j]
    BY <2>3 DEF Inv, TablesFit
  <2>5. TablesFit' /\ FreshOwned
    BY <1>1, <1>3, <2>2, <2>3, RowWritten DEF Inv, TablesFit
  <2>6. next \in Request
    BY <1>1, KeyFacts DEF Request
  <2>7. /\ req'[r].pc = "chg_clean" /\ req'[r].user = u /\ req'[r].scopes = q.scopes
        /\ req'[r].stale = q.stale
        /\ \A j \in Keys : req'[r].found[j] = IF j = k THEN NoKey ELSE q.found[j]
    BY <1>1, <1>4, <2>3 DEF Request
  <2>. HIDE DEF next
  <2>8. \A j \in Keys : req'[r].found[j].live =>
          j # k /\ req'[r].found[j] = q.found[j] /\ q.found[j].owner = u
    BY <1>1, <1>4, <2>7, KeyFacts DEF Inv, Fits, ParametersFit
  <2>9. ASSUME ~q.stale
        PROVE  /\ \A j \in Keys : req'[r].found[j].live => req'[r].found[j] = key'[j]
               /\ q.scopes = Allowed(u)'
               /\ \A j \in KeysOf(u)' : req'[r].found[j].live \/ ~Exceeds(j)'
    <3>1. /\ q.scopes = Allowed(u)
          /\ \A j \in Keys : q.found[j].live => q.found[j] = key[j]
          /\ \A j \in KeysOf(u) : q.found[j].live \/ ~Exceeds(j)
      BY <1>1, <1>4, <2>9 DEF Inv, Fits, ReadsHoldToo, ReadsHold
    <3>2. Allowed(u)' = Allowed(u)
      BY <2>3, AllowedStays
    <3>3. ASSUME NEW j \in KeysOf(u)', ~req'[r].found[j].live
          PROVE  ~Exceeds(j)'
      <4>1. j \in Keys /\ key'[j].live /\ key'[j].owner = u
        BY <3>3 DEF KeysOf
      <4>2. CASE j = k
        <5>1. key'[j].scopes \subseteq Allowed(u)'
          BY <2>2, <2>4, <3>1, <3>2, <4>2
        <5>. QED BY <4>1, <5>1 DEF Exceeds, Allowed, AllowedAs, AllowedToGroup
      <4>3. CASE j # k
        <5>1. key'[j] = key[j] /\ ~q.found[j].live /\ j \in KeysOf(u)
          BY <2>4, <2>7, <3>3, <4>1, <4>3 DEF KeysOf
        <5>2. ~Exceeds(j)
          BY <3>1, <5>1
        <5>. QED BY <2>3, <5>1, <5>2 DEF Exceeds, Allowed, AllowedAs, AllowedToGroup
      <4>. QED BY <4>2, <4>3
    <3>. QED BY <2>4, <2>8, <3>1, <3>2, <3>3
  <2>10. Fits(r)'
    <3>1. q.scopes = Allowed(u)' => req'[r].scopes = Allowed(req[r].user)'
      BY <2>7 DEF Allowed, AllowedAs, AllowedToGroup
    <3>2. KeysOf(req[r].user)' = KeysOf(u)'
      BY <2>7 DEF KeysOf
    <3>. QED BY <1>1, <2>7, <2>8, <2>9, <3>1, <3>2 DEF Fits, ParametersFit, ReadsHoldToo, ReadsHold
  <2>11. left' \subseteq Keys /\ left \subseteq left'
         /\ \A j \in Keys : CopyOf(cleaned[j]) # CopyOf(key[j]) /\ IsCached(j) => j \in left'
    BY <2>1 DEF LeaveCopies, Inv, CacheFits
  <2>. QED BY <1>1, <2>1, <2>5, <2>6, <2>10, <2>11, CommitKeeps
<1>. QED BY <1>2, <1>3


----------------------------------------------------------------------------
(* Users that go, and the keys they leave or hand on.                      *)

LEMMA DeleteUserKeysKeeps ==
  ASSUME Inv, NEW r \in Requests, DeleteUserKeys(r)
  PROVE  Inv'
<1>. DEFINE q == req[r]
            rest == [k \in Keys |-> IF k \in KeysOf(q.user) THEN NoKey ELSE key[k]]
            next == [q EXCEPT !.pc = "usr_row"]
<1>1. /\ q.pc = "usr_keys" /\ q \in Request /\ q.user \in Users
      /\ Commit(r, role, rest, next) /\ LeaveCopies(rest)
      /\ UNCHANGED <<unused, lru>>
  BY DEF DeleteUserKeys, Inv, Fits, ParametersFit
<1>2. role' = role /\ key' = rest /\ req'[r] = next
  BY <1>1 DEF Commit
<1>3. TablesFit' /\ FreshOwned
  BY <1>1, <1>2, KeyFacts DEF Inv, TablesFit, FreshOwned, OwnerExists
<1>4. next \in Request
  BY <1>1 DEF Request, PCs
<1>5. req'[r].pc = "usr_row" /\ req'[r].user = q.user
  BY <1>1, <1>2 DEF Request
<1>. HIDE DEF next
<1>6. Fits(r)'
  BY <1>1, <1>5 DEF Fits, ParametersFit, ReadsHoldToo, ReadsHold
<1>7. left' \subseteq Keys /\ left \subseteq left'
      /\ \A j \in Keys : CopyOf(rest[j]) # CopyOf(key[j]) /\ IsCached(j) => j \in left'
  BY <1>1 DEF LeaveCopies, Inv, CacheFits
<1>. HIDE DEF rest
<1>. QED BY <1>1, <1>3, <1>4, <1>6, <1>7, CommitKeeps

LEMMA RemoveUserKeeps ==
  ASSUME Inv, NEW r \in Requests, NEW u \in Users, RemoveUser(r, u), req[r].pc # "evict"
  PROVE  Inv'
<1>. DEFINE orphaned == [k \in Keys |-> IF k \in KeysOf(u) THEN [key[k] EXCEPT !.owner = None]
                                                          ELSE key[k]]
<1>1. Commit(r, [role EXCEPT ![u] = None], orphaned, Idle) /\ UNCHANGED <<unused, lru, left>>
  BY DEF RemoveUser, copies
<1>2. role' = [role EXCEPT ![u] = None] /\ key' = orphaned
  BY <1>1 DEF Commit
<1>3. \A k \in Keys :
        /\ orphaned[k] \in Key /\ orphaned[k].live = key[k].live
        /\ CopyOf(orphaned[k]) = CopyOf(key[k])
        /\ orphaned[k].owner = IF k \in KeysOf(u) THEN None ELSE key[k].owner
  <2>1. ASSUME NEW k \in KeysOf(u)
        PROVE  LET y == [key[k] EXCEPT !.owner = None] IN
               y \in Key /\ y.live = key[k].live /\ CopyOf(y) = CopyOf(key[k]) /\ y.owner = None
    <3>1. key[k] \in Key /\ key[k].live = TRUE
      <4>1. key[k] \in Key /\ key[k].live
        BY DEF KeysOf, Inv, TablesFit
      <4>. QED BY <4>1 DEF Key, NoKey
    <3>2. \A o \in Owners \cup {None} :
            LET y == [key[k] EXCEPT !.owner = o] IN
            y \in Key /\ y.live /\ y.owner = o /\ CopyOf(y) = CopyOf(key[k])
      BY <3>1, UpdatedKey
    <3>3. [key[k] EXCEPT !.owner = None].live = key[k].live
      BY <3>1 DEF Key, NoKey
    <3>. QED BY <3>2, <3>3
  <2>2. \A k \in Keys : key[k] \in Key
    BY DEF Inv, TablesFit
  <2>. QED BY <2>1, <2>2
<1>4. orphaned \in [Keys -> Key]
  BY <1>3
<1>. HIDE DEF orphaned
<1>5. TablesFit' /\ FreshOwned
  <2>1. role' \in [Users -> Roles \cup {None}]
    BY <1>2 DEF Inv, TablesFit
  <2>2. ASSUME NEW k \in Keys, key'[k].live
        PROVE  k \notin unused' /\ (key'[k].owner = None \/ OwnerExists(key[k].owner)')
    <3>1. key[k].live /\ k \notin unused' /\ (key[k].owner = None \/ OwnerExists(key[k].owner))
      BY <1>1, <1>2, <1>3, <2>2 DEF Inv, TablesFit
    <3>2. CASE k \in KeysOf(u)
      BY <1>2, <1>3, <3>1, <3>2
    <3>3. CASE k \notin KeysOf(u)
      <4>1. key'[k].owner = key[k].owner /\ key[k].owner # u
        BY <1>2, <1>3, <3>1, <3>3 DEF KeysOf
      <4>2. key[k].owner = None \/ (key[k].owner \in Users /\ role'[key[k].owner] # None)
              \/ (key[k].owner \notin Users /\ key[k].owner \in Groups)
        BY <1>2, <3>1, <4>1 DEF OwnerExists, Inv, TablesFit
      <4>. QED BY <3>1, <4>1, <4>2 DEF OwnerExists
    <3>. QED BY <3>2, <3>3
  <2>3. FreshOwned
    BY <1>2, <1>3 DEF FreshOwned
  <2>. QED BY <1>1, <1>2, <1>4, <2>1, <2>2, <2>3 DEF Inv, TablesFit
<1>. QED BY <1>1, <1>3, <1>5, CommitIdleKeeps

LEMMA MoveKeeps ==
  ASSUME Inv, NEW r \in Requests, NEW k \in Keys, MoveKey(r, k)
  PROVE  Inv'
<1>. DEFINE q == req[r]
            x == [key[k] EXCEPT !.owner = q.base]
            next == [q EXCEPT !.found[k] = NoKey]
<1>1. /\ q.pc = "mrg_move" /\ q \in Request /\ q.user \in Users /\ q.base \in Users
      /\ UNCHANGED <<unused, lru, left>>
  BY DEF MoveKey, copies, Inv, Fits, ParametersFit
<1>2. CASE ~(key[k].live /\ role[q.base] # None)
  BY <1>1, <1>2, ReplyKeeps DEF MoveKey, tables
<1>3. CASE key[k].live /\ role[q.base] # None
  <2>1. Commit(r, role, [key EXCEPT ![k] = x], next)
    BY <1>3 DEF MoveKey
  <2>2. x \in Key /\ x.owner = q.base /\ CopyOf(x) = CopyOf(key[k])
    <3>1. key[k] \in Key /\ q.base \in Owners
      BY <1>1 DEF Inv, TablesFit, Owners
    <3>. QED BY <1>3, <3>1, UpdatedKey
  <2>. HIDE DEF x
  <2>3. role' = role /\ key' = [key EXCEPT ![k] = x] /\ req'[r] = next
    BY <2>1 DEF Commit
  <2>4. OwnerExists(x.owner)
    BY <1>1, <1>3, <2>2 DEF OwnerExists
  <2>5. TablesFit' /\ FreshOwned
    BY <1>1, <1>3, <2>2, <2>3, <2>4, RowWritten
  <2>6. next \in Request
    BY <1>1, KeyFacts DEF Request
  <2>7. req'[r].pc = "mrg_move" /\ req'[r].user = q.user /\ req'[r].base = q.base
    BY <1>1, <2>3 DEF Request
  <2>. HIDE DEF next
  <2>8. Fits(r)'
    BY <1>1, <2>7 DEF Fits, ParametersFit, ReadsHoldToo, ReadsHold
  <2>9. left' \subseteq Keys /\ left \subseteq left'
        /\ \A j \in Keys : CopyOf([key EXCEPT ![k] = x][j]) = CopyOf(key[j])
    BY <1>1, <2>2 DEF Inv, CacheFits, TablesFit
  <2>. QED BY <1>1, <2>1, <2>5, <2>6, <2>8, <2>9, CommitKeeps
<1>. QED BY <1>2, <1>3

LEMMA RemovalsKeep ==
  ASSUME Inv, NEW r \in Requests, DeleteUserRow(r) \/ DeleteMergedUser(r)
  PROVE  Inv'
<1>1. req[r].pc # "evict" /\ RemoveUser(r, req[r].user) /\ req[r].user \in Users
  BY DEF DeleteUserRow, DeleteMergedUser, Inv, Fits, ParametersFit
<1>. QED BY <1>1, RemoveUserKeeps

\* A user who registers is allowed nothing more than before.
LEMMA RegisterKeeps ==
  ASSUME Inv, NEW u \in Users, Register(u)
  PROVE  Inv'
<1>1. /\ role[u] = None /\ role' = [role EXCEPT ![u] = "USER"]
      /\ UNCHANGED <<key, unused, lru, req, left>>
  BY DEF Register
<1>2. TablesFit'
  BY <1>1 DEF Inv, TablesFit, OwnerExists, Roles
<1>3. ASSUME NEW o PROVE Allowed(o)' = Allowed(o)
  <2>1. CASE o \in Users
    <3>1. role'[o] = role[o] \/ (role[o] = None /\ role'[o] = "USER")
      BY <1>1, <2>1 DEF Inv, TablesFit
    <3>2. AllowedAs(o, role'[o]) = AllowedAs(o, role[o])
      BY <2>1, <3>1, AllowedFacts
    <3>. QED BY <2>1, <3>2 DEF Allowed
  <2>2. CASE o \notin Users
    BY <2>2 DEF Allowed, AllowedToGroup
  <2>. QED BY <2>1, <2>2
<1>4. \A k \in Keys : Exceeds(k)' <=> Exceeds(k)
  <2>1. ASSUME NEW k \in Keys PROVE Allowed(key[k].owner)' = Allowed(key[k].owner)
    <3>1. PICK o : o = key[k].owner
      OBVIOUS
    <3>2. Allowed(o)' = Allowed(o)
      BY <1>3
    <3>. QED BY <1>1, <3>1, <3>2 DEF Allowed
  <2>. QED BY <1>1, <2>1 DEF Exceeds
<1>5. ASSUME NEW p \in Requests PROVE Fits(p)'
  <2>1. Allowed(req[p].user)' = Allowed(req[p].user)
    <3>1. PICK o : o = req[p].user
      OBVIOUS
    <3>2. Allowed(o)' = Allowed(o)
      BY <1>3
    <3>. QED BY <1>1, <3>1, <3>2 DEF Allowed
  <2>2. KeysOf(req[p].user)' = KeysOf(req[p].user) /\ KeysOf(req[p].user) \subseteq Keys
    BY <1>1 DEF KeysOf
  <2>. QED BY <1>1, <1>4, <2>1, <2>2 DEF Inv, Fits, ParametersFit, ReadsHoldToo, ReadsHold
<1>6. CacheFits'
  BY <1>1 DEF Inv, CacheFits, CachedCopyIsCurrent, IsCached, Copy
<1>. QED BY <1>1, <1>2, <1>5, <1>6 DEF Inv


----------------------------------------------------------------------------
(* The cache: what a set, a get and a delete leave in it.                  *)

\* Of one key: is it in the cache c, and as what.
In(c, k) == c.recent[k].live \/ c.old[k].live
As(c, k) == IF c.recent[k].live THEN c.recent[k] ELSE c.old[k]

Caches == [recent : [Keys -> Copies], old : [Keys -> Copies]]

LEMMA SetFacts ==
  ASSUME NEW c \in Caches, NEW k \in Keys, NEW copy \in Copies, copy.live
  PROVE  LET d == CacheSet(c, k, copy) IN
         /\ d \in Caches
         /\ In(d, k) /\ As(d, k) = copy
         /\ \A j \in Keys \ {k} : In(d, j) => In(c, j) /\ As(d, j) = As(c, j)
<1>. DEFINE recent == [c.recent EXCEPT ![k] = copy]
            full == ~c.recent[k].live /\ Size(recent) >= LruSize
<1>1. recent \in [Keys -> Copies] /\ \A j \in Keys : recent[j] = IF j = k THEN copy ELSE c.recent[j]
  BY DEF Caches
<1>2. CASE full
  <2>1. CacheSet(c, k, copy) = [recent |-> NoCopies, old |-> recent]
    BY <1>2 DEF CacheSet
  <2>. HIDE DEF recent
  <2>. QED BY <1>1, <2>1, CopyFacts DEF Caches, In, As
<1>3. CASE ~full
  <2>1. CacheSet(c, k, copy) = [c EXCEPT !.recent = recent]
    BY <1>3 DEF CacheSet
  <2>. HIDE DEF recent
  <2>. QED BY <1>1, <2>1 DEF Caches, In, As
<1>. QED BY <1>2, <1>3

LEMMA GetFacts ==
  ASSUME NEW c \in Caches, NEW k \in Keys, In(c, k)
  PROVE  LET d == CacheGet(c, k) IN
         d \in Caches /\ \A j \in Keys : In(d, j) => In(c, j) /\ As(d, j) = As(c, j)
<1>1. CASE c.recent[k].live
  BY <1>1 DEF CacheGet
<1>2. CASE ~c.recent[k].live
  <2>. DEFINE e == [c EXCEPT !.old[k] = CopyOf(NoKey)]
  <2>1. CacheGet(c, k) = CacheSet(e, k, c.old[k])
    BY <1>2 DEF CacheGet
  <2>2. e \in Caches /\ c.old[k] \in Copies /\ c.old[k].live /\ As(c, k) = c.old[k]
    BY <1>2, CopyFacts DEF Caches, In, As
  <2>3. e.recent = c.recent /\ \A j \in Keys \ {k} : e.old[j] = c.old[j]
    BY DEF Caches
  <2>4. \A j \in Keys \ {k} : (In(e, j) <=> In(c, j)) /\ As(e, j) = As(c, j)
    BY <2>3 DEF In, As
  <2>. HIDE DEF e
  <2>. QED BY <2>1, <2>2, <2>4, SetFacts
<1>. QED BY <1>1, <1>2

LEMMA DeleteFacts ==
  ASSUME NEW c \in Caches, NEW k \in Keys
  PROVE  LET d == CacheDelete(c, k) IN
         /\ d \in Caches /\ ~In(d, k)
         /\ \A j \in Keys \ {k} : In(d, j) => In(c, j) /\ As(d, j) = As(c, j)
<1>. DEFINE d == CacheDelete(c, k)
<1>1. /\ d \in Caches
      /\ d.recent[k] = CopyOf(NoKey) /\ d.old[k] = CopyOf(NoKey)
      /\ \A j \in Keys \ {k} : d.recent[j] = c.recent[j] /\ d.old[j] = c.old[j]
  BY CopyFacts DEF CacheDelete, Caches
<1>. HIDE DEF d
<1>. QED BY <1>1, CopyFacts DEF In, As, d

\* A step on the cache alone, which may end requests.
LEMMA CacheStepKeeps ==
  ASSUME Inv, UNCHANGED tables, CacheFits', req' \in [Requests -> Request],
         \A p \in Requests : req'[p] = req[p] \/ req'[p] = Idle
  PROVE  Inv'
<1>. UNCHANGED <<role, key, unused>>
  BY DEF tables
<1>1. TablesFit'
  BY DEF Inv, TablesFit, OwnerExists
<1>2. ASSUME NEW p \in Requests
      PROVE  Fits(p)'
  <2>1. CASE req'[p] = Idle
    BY <2>1, IdleFits
  <2>2. CASE req'[p] = req[p]
    <3>1. /\ Allowed(req[p].user)' = Allowed(req[p].user)
          /\ KeysOf(req[p].user)' = KeysOf(req[p].user)
          /\ KeysOf(req[p].user) \subseteq Keys
          /\ \A k \in Keys : Exceeds(k)' <=> Exceeds(k)
      BY <2>2 DEF Allowed, AllowedAs, AllowedToGroup, KeysOf, Exceeds
    <3>. QED BY <2>2, <3>1 DEF Inv, Fits, ParametersFit, ReadsHoldToo, ReadsHold
  <2>. QED BY <2>1, <2>2
<1>. QED BY <1>1, <1>2 DEF Inv

\* The copies of all keys but k are what they were or gone, as is what
\* accounts for them.
LEMMA OthersCached ==
  ASSUME Inv, NEW k, UNCHANGED <<key, unused>>, lru' \in Caches, left' \subseteq Keys,
         left \subseteq left' \cup {k},
         \A j \in Keys \ {k} : In(lru', j) => In(lru, j) /\ As(lru', j) = As(lru, j),
         \A p \in Requests : req[p].pc = "evict" /\ req[p].id # k => req'[p] = req[p],
         k \in Keys /\ In(lru', k) =>
           k \notin unused /\ (As(lru', k) = CopyOf(key[k]) \/ k \in left')
  PROVE  CacheFits'
<1>1. \A j \in Keys : (IsCached(j)' <=> In(lru', j)) /\ Copy(j)' = As(lru', j)
  BY DEF IsCached, Copy, In, As
<1>2. \A j \in Keys : (IsCached(j) <=> In(lru, j)) /\ Copy(j) = As(lru, j)
  BY DEF IsCached, Copy, In, As
<1>3. ASSUME NEW j \in Keys, IsCached(j)'
      PROVE  /\ j \notin unused'
             /\ \/ Copy(j)' = CopyOf(key'[j])
                \/ j \in left'
                \/ \E r \in Requests : req'[r].pc = "evict" /\ req'[r].id = j
  <2>1. CASE j = k
    BY <1>1, <1>3, <2>1
  <2>2. CASE j # k
    <3>1. IsCached(j) /\ Copy(j)' = Copy(j)
      BY <1>1, <1>2, <1>3, <2>2
    <3>2. /\ j \notin unused
          /\ \/ Copy(j) = CopyOf(key[j])
             \/ j \in left
             \/ \E r \in Requests : req[r].pc = "evict" /\ req[r].id = j
      BY <3>1 DEF Inv, CacheFits, CachedCopyIsCurrent
    <3>. QED BY <2>2, <3>1, <3>2
  <2>. QED BY <2>1, <2>2
<1>. QED BY <1>3 DEF CacheFits, CachedCopyIsCurrent, Caches

LEMMA EvictKeeps ==
  ASSUME Inv, NEW r \in Requests, EvictCopy(r)
  PROVE  Inv'
<1>1. /\ req[r].pc = "evict" /\ req[r].id \in Keys /\ lru \in Caches
      /\ lru' = CacheDelete(lru, req[r].id) /\ left' = left \ {req[r].id}
      /\ UNCHANGED <<role, key, unused>> /\ left \subseteq Keys
  BY DEF EvictCopy, tables, Inv, Fits, ParametersFit, CacheFits, Caches
<1>2. /\ req' \in [Requests -> Request] /\ req'[r] = Idle
      /\ \A p \in Requests \ {r} : req'[p] = req[p]
  BY IdleFits DEF EvictCopy, Reply, Become, Inv
<1>3. PICK k \in Keys : k = req[r].id
  BY <1>1
<1>4. CacheFits'
  BY <1>1, <1>2, <1>3, DeleteFacts, OthersCached
<1>. QED BY <1>1, <1>2, <1>4, CacheStepKeeps DEF tables

LEMMA ServeKeeps ==
  ASSUME Inv, NEW k \in Keys, ServeCopy(k)
  PROVE  Inv'
<1>1. /\ lru \in Caches /\ In(lru, k) /\ lru' = CacheGet(lru, k)
      /\ UNCHANGED <<role, key, unused, left, req>> /\ left \subseteq Keys
      /\ req \in [Requests -> Request]
  BY DEF ServeCopy, tables, Inv, CacheFits, Caches, IsCached, In
<1>2. lru' \in Caches /\ \A j \in Keys : In(lru', j) => In(lru, j) /\ As(lru', j) = As(lru, j)
  BY <1>1, GetFacts
<1>3. PICK none : none \notin Keys
  <2>1. None \notin Keys
    BY ApiKeysAssumption
  <2>. QED BY <2>1
<1>4. CacheFits'
  BY <1>1, <1>2, <1>3, OthersCached
<1>. QED BY <1>1, <1>4, CacheStepKeeps DEF tables

LEMMA FillKeeps ==
  ASSUME Inv, NEW r \in Requests, FillCache(r)
  PROVE  Inv'
<1>. DEFINE copy == CopyOf(req[r].found[req[r].id])
<1>1. /\ req[r].pc = "use_fill" /\ req[r].id \in Keys /\ req[r].id \notin unused
      /\ req[r].found[req[r].id] \in Key /\ req[r].found[req[r].id].live
      /\ req[r].stale \/ copy = CopyOf(key[req[r].id])
  BY DEF FillCache, Inv, Fits, ParametersFit, ReadsHoldToo, ReadsHold, Request
<1>2. /\ lru \in Caches /\ left \subseteq Keys /\ lru' = CacheSet(lru, req[r].id, copy)
      /\ left' = IF req[r].stale THEN left \cup {req[r].id} ELSE left \ {req[r].id}
      /\ UNCHANGED <<role, key, unused>>
  BY DEF FillCache, tables, Inv, CacheFits, Caches
<1>3. copy \in Copies /\ copy.live
  BY <1>1, KeyFacts
<1>. HIDE DEF copy
<1>4. /\ req' \in [Requests -> Request] /\ req'[r] = Idle
      /\ \A p \in Requests \ {r} : req'[p] = req[p]
  BY IdleFits DEF FillCache, Reply, Become, Inv
<1>5. PICK k \in Keys : k = req[r].id
  BY <1>1
<1>6. /\ lru' \in Caches /\ In(lru', k) /\ As(lru', k) = copy
      /\ \A j \in Keys \ {k} : In(lru', j) => In(lru, j) /\ As(lru', j) = As(lru, j)
  BY <1>2, <1>3, <1>5, SetFacts
<1>7. /\ left' \subseteq Keys /\ left \subseteq left' \cup {k}
      /\ copy = CopyOf(key[k]) \/ k \in left'
  BY <1>1, <1>2, <1>5
<1>8. \A p \in Requests : req[p].pc = "evict" => req'[p] = req[p]
  BY <1>1, <1>4
<1>9. CacheFits'
  BY <1>1, <1>2, <1>5, <1>6, <1>7, <1>8, OthersCached
<1>. QED BY <1>2, <1>4, <1>9, CacheStepKeeps DEF tables

LEMMA RestartKeeps ==
  ASSUME Inv, Restart
  PROVE  Inv'
<1>1. \A k \in Keys : ~IsCached(k)'
  BY CopyFacts DEF Restart, IsCached
<1>2. CacheFits'
  BY <1>1, CopyFacts DEF Restart, CacheFits, CachedCopyIsCurrent
<1>3. req' \in [Requests -> Request] /\ \A p \in Requests : req'[p] = Idle
  BY IdleFits DEF Restart
<1>. QED BY <1>2, <1>3, CacheStepKeeps DEF Restart

----------------------------------------------------------------------------
LEMMA NextKeeps ==
  ASSUME Inv, [Next]_vars
  PROVE  Inv'
<1>1. CASE UNCHANGED vars
  <2>1. CacheFits' /\ req' = req /\ UNCHANGED tables
    BY <1>1 DEF vars, tables, Inv, CacheFits, CachedCopyIsCurrent, IsCached, Copy
  <2>. QED BY <2>1, CacheStepKeeps DEF Inv
<1>2. ASSUME NEW u \in Users, Register(u)
      PROVE  Inv'
  BY <1>2, RegisterKeeps
<1>3. ASSUME NEW k \in Keys, ServeCopy(k)
      PROVE  Inv'
  BY <1>3, ServeKeeps
<1>4. ASSUME NEW r \in Requests, Arrive(r) \/ Resume(r) \/ Abort(r)
      PROVE  Inv'
  BY <1>4, ArriveKeeps, ReadersKeep, CreateKeeps, ScopesAndDeleteKeep, EvictKeeps, FillKeeps,
     RolesKeep, CleanKeeps, DeleteUserKeysKeeps, RemovalsKeep, MoveKeeps DEF Resume
<1>. QED BY <1>1, <1>2, <1>3, <1>4, RestartKeeps DEF Next

LEMMA InitFits == Init => Inv
<1>. SUFFICES ASSUME Init PROVE Inv
  OBVIOUS
<1>1. TablesFit
  BY KeyFacts, CopyFacts DEF Init, TablesFit
<1>2. \A k \in Keys : ~IsCached(k)
  BY CopyFacts DEF Init, IsCached
<1>3. CacheFits
  BY <1>2, CopyFacts DEF Init, CacheFits, CachedCopyIsCurrent
<1>4. req \in [Requests -> Request] /\ \A r \in Requests : req[r] = Idle
  BY IdleFits DEF Init
<1>5. \A r \in Requests : Fits(r)
  BY <1>4 DEF Idle, Fits, ParametersFit, ReadsHoldToo, ReadsHold
<1>. QED BY <1>1, <1>3, <1>4, <1>5 DEF Inv

LEMMA AlwaysInv == Spec => []Inv
  BY InitFits, NextKeeps, PTL DEF Spec

\* The tables, the cache and the requests in flight hold what they may hold.
THEOREM TypesCorrect == Spec => []TypeOK
<1>1. Inv => TypeOK
  BY InvGives
<1>. QED BY <1>1, AlwaysInv, PTL

\* A cached copy is what the database holds, or is accounted for: about to be
\* evicted, or left by a handler that evicts nothing (api-keys.service.ts).
THEOREM CacheCorrect == Spec => []CachedCopyIsCurrent
<1>1. Inv => CachedCopyIsCurrent
  BY InvGives
<1>. QED BY <1>1, AlwaysInv, PTL

\* What a handler has read holds when it acts on it, unless it was overtaken.
THEOREM ReadsCorrect == Spec => []HandlersReadCurrent
<1>1. Inv => HandlersReadCurrent
  BY InvGives
<1>. QED BY <1>1, AlwaysInv, PTL


----------------------------------------------------------------------------
(* Who may let a key carry more.                                           *)

\* The request that takes a step is seen to.
LEMMA Moves ==
  ASSUME NEW r \in Requests, req'[r].pc # req[r].pc \/ req'[r].found # req[r].found,
         req[r] \in Request, req'[r] \in Request
  PROVE  Acts(r)
<1>1. \A q \in Request : LET p == [q EXCEPT !.stale = FALSE] IN p.pc = q.pc /\ p.found = q.found
  BY DEF Request
<1>. QED BY <1>1 DEF Acts

\* Which steps write to keys and roles.
Writes(r) ==
  \/ CreateKeyRow(r) \/ WriteScopes(r) \/ DeleteKeyRow(r)
  \/ WriteRole(r) \/ MergeRole(r)
  \/ (\E k \in Keys : CleanKey(r, k) \/ MoveKey(r, k))
  \/ DeleteUserKeys(r) \/ DeleteUserRow(r) \/ DeleteMergedUser(r)

LEMMA WhoWrites ==
  ASSUME [Next]_vars
  PROVE  \/ UNCHANGED <<role, key>>
         \/ \E u \in Users : Register(u)
         \/ \E r \in Requests : Writes(r)
<1>1. ASSUME NEW r \in Requests, Arrive(r) PROVE UNCHANGED <<role, key>>
  BY <1>1 DEF Arrive, CreateApiKey, UpdateApiKey, DeleteApiKey, GetApiKeyFromKey, UpdateUser,
     RemoveUnauthorizedScopes, DeleteUser, MergeUsers, tables
<1>2. ASSUME NEW r \in Requests, Resume(r) PROVE UNCHANGED <<role, key>> \/ Writes(r)
  BY <1>2 DEF Resume, Writes, CleanScopes, EvictCopy, FindKey, FillCache, FindKeysToClean,
     ReadAllowedScopes, KeysCleaned, ScopesRemoved, FindKeysToMove, tables
<1>. QED BY <1>1, <1>2 DEF Next, vars, Abort, Restart, ServeCopy, tables

\* What a write does to the scopes and the owner of key k, and to the roles.
LEMMA WriteFacts ==
  ASSUME Inv, Inv', NEW r \in Requests, Writes(r), NEW k \in Keys, key'[k].live
  PROVE  \/ UNCHANGED <<role, key>>
         \/ /\ role' = role
            /\ \/ key'[k] = key[k]
               \/ /\ req[r].pc = "crt_write" /\ ~key[k].live
                  /\ key'[k].owner = req[r].user /\ key'[k].scopes = req[r].scopes
               \/ /\ req[r].pc = "upd_write" /\ key[k].live /\ k = req[r].id
                  /\ key'[k].owner = key[k].owner /\ key'[k].scopes = req[r].scopes
               \/ /\ req[r].pc = "chg_clean" /\ key[k].live /\ req[r].found[k].live
                  /\ key'[k].owner = key[k].owner
                  /\ key'[k].scopes = req[r].found[k].scopes \cap req[r].scopes
               \/ /\ req[r].pc = "mrg_move" /\ key[k].live
                  /\ key'[k].scopes = key[k].scopes
            /\ req'[r].pc # req[r].pc \/ req'[r].found # req[r].found
         \/ /\ key' = key /\ req[r].pc \in {"chg_same", "chg_write", "mrg_role"}
            /\ req'[r].pc # req[r].pc
         \/ /\ req[r].pc \in {"usr_row", "mrg_move"} /\ key[k].live
            /\ key'[k].scopes = key[k].scopes /\ req[r].user \in Users
            /\ key'[k].owner = IF key[k].owner = req[r].user THEN None ELSE key[k].owner
            /\ role' = [role EXCEPT ![req[r].user] = None]
<1>. DEFINE q == req[r]
<1>0. /\ q \in Request /\ req'[r] \in Request /\ ParametersFit(q) /\ TablesFit
      /\ key[k] \in Key /\ key'[k] \in Key
  BY DEF Inv, Fits, TablesFit
<1>1. CASE CreateKeyRow(r)
  <2>1. CASE ~(OwnerExists(q.user) /\ unused # {})
    BY <1>1, <2>1 DEF CreateKeyRow
  <2>2. CASE OwnerExists(q.user) /\ unused # {}
    <3>1. PICK j \in unused : Commit(r, role, [key EXCEPT ![j] = Record(q.user, q.scopes)], Idle)
      BY <1>1, <2>2 DEF CreateKeyRow
    <3>2. q.pc = "crt_write" /\ q.user \in Owners /\ q.scopes \in SUBSET Scopes
      BY <1>0, <1>1 DEF CreateKeyRow, ParametersFit, Request
    <3>3. role' = role /\ key' = [key EXCEPT ![j] = Record(q.user, q.scopes)] /\ req'[r] = Idle
      BY <3>1 DEF Commit
    <3>4. req'[r].pc # q.pc
      BY <3>2, <3>3 DEF Idle
    <3>5. CASE k = j
      <4>1. ~key[k].live
        BY <1>0, <3>5 DEF TablesFit
      <4>2. key'[k] = Record(q.user, q.scopes)
        BY <1>0, <3>3, <3>5 DEF TablesFit
      <4>. QED BY <3>2, <3>3, <3>4, <4>1, <4>2, KeyFacts
    <3>6. CASE k # j
      BY <1>0, <3>3, <3>4, <3>6 DEF TablesFit
    <3>. QED BY <3>5, <3>6
  <2>. QED BY <2>1, <2>2
<1>2. CASE WriteScopes(r)
  <2>1. CASE ~key[q.id].live
    BY <1>2, <2>1 DEF WriteScopes
  <2>2. CASE key[q.id].live
    <3>1. /\ q.pc = "upd_write" /\ q.id \in Keys /\ q.scopes \in SUBSET Scopes
          /\ Commit(r, role, [key EXCEPT ![q.id].scopes = q.scopes], Evicting(q))
      BY <1>0, <1>2, <2>2 DEF WriteScopes, ParametersFit, Request
    <3>2. /\ role' = role /\ req'[r] = Evicting(q)
          /\ key' = [key EXCEPT ![q.id] = [key[q.id] EXCEPT !.scopes = q.scopes]]
      BY <3>1 DEF Commit
    <3>3. req'[r].pc # q.pc
      BY <3>1, <3>2, EvictingFits
    <3>4. CASE k = q.id
      <4>1. key'[k] = [key[k] EXCEPT !.scopes = q.scopes]
        BY <1>0, <3>2, <3>4 DEF TablesFit
      <4>2. key'[k].owner = key[k].owner /\ key'[k].scopes = q.scopes
        BY <1>0, <2>2, <3>1, <3>4, <4>1, UpdatedKey
      <4>. QED BY <2>2, <3>1, <3>2, <3>3, <3>4, <4>2
    <3>5. CASE k # q.id
      BY <1>0, <3>2, <3>3, <3>5 DEF TablesFit
    <3>. QED BY <3>4, <3>5
  <2>. QED BY <2>1, <2>2
<1>3. CASE DeleteKeyRow(r)
  <2>1. CASE ~key[q.id].live
    BY <1>3, <2>1 DEF DeleteKeyRow
  <2>2. CASE key[q.id].live
    <3>1. /\ q.pc = "del_write" /\ q.id \in Keys
          /\ Commit(r, role, [key EXCEPT ![q.id] = NoKey], Evicting(q))
      BY <1>0, <1>3, <2>2 DEF DeleteKeyRow, ParametersFit
    <3>2. /\ role' = role /\ req'[r] = Evicting(q) /\ key' = [key EXCEPT ![q.id] = NoKey]
      BY <3>1 DEF Commit
    <3>3. req'[r].pc # q.pc
      BY <3>1, <3>2, EvictingFits
    <3>4. key'[k] = key[k]
      BY <1>0, <3>2, KeyFacts DEF TablesFit
    <3>. QED BY <3>2, <3>3, <3>4
  <2>. QED BY <2>1, <2>2
<1>4. CASE WriteRole(r)
  <2>1. UNCHANGED <<role, key>> \/
          (/\ key' = key /\ q.pc \in {"chg_same", "chg_write"}
           /\ req'[r] = IF q.pc = "chg_same" THEN Idle
                        ELSE [q EXCEPT !.pc = "chg_keys", !.role = None])
    BY <1>4 DEF WriteRole, Commit
  <2>2. [q EXCEPT !.pc = "chg_keys", !.role = None].pc = "chg_keys" /\ Idle.pc = "idle"
    BY <1>0 DEF Request, Idle
  <2>. QED BY <2>1, <2>2
<1>5. CASE MergeRole(r)
  <2>1. UNCHANGED <<role, key>> \/
          (/\ key' = key /\ q.pc = "mrg_role"
           /\ req'[r] = [q EXCEPT !.pc = "mrg_keys", !.role = None])
    BY <1>5 DEF MergeRole, Commit
  <2>2. [q EXCEPT !.pc = "mrg_keys", !.role = None].pc = "mrg_keys"
    BY <1>0 DEF Request
  <2>. QED BY <2>1, <2>2
<1>6. ASSUME NEW j \in Keys, CleanKey(r, j) \/ MoveKey(r, j)
      PROVE  \/ UNCHANGED <<role, key>>
             \/ /\ role' = role
                /\ \/ key'[k] = key[k]
                   \/ /\ q.pc = "chg_clean" /\ key[k].live /\ q.found[k].live
                      /\ key'[k].owner = key[k].owner
                      /\ key'[k].scopes = q.found[k].scopes \cap q.scopes
                   \/ /\ q.pc = "mrg_move" /\ key[k].live
                      /\ key'[k].scopes = key[k].scopes
                /\ req'[r].pc # q.pc \/ req'[r].found # q.found
  <2>. DEFINE next == [q EXCEPT !.found[j] = NoKey]
  <2>0. next.found # q.found /\ q.found[j].live
    <3>1. q.found[j].live
      BY <1>6 DEF CleanKey, MoveKey
    <3>2. next.found[j] = NoKey
      BY <1>0 DEF Request
    <3>. QED BY <3>1, <3>2, KeyFacts
  <2>. HIDE DEF next
  <2>1. CASE CleanKey(r, j) /\ key[j].live
    <3>. DEFINE S == q.found[j].scopes \cap q.scopes
    <3>1. q.pc = "chg_clean" /\ Commit(r, role, [key EXCEPT ![j].scopes = S], next)
      BY <2>1 DEF CleanKey, next
    <3>2. S \in SUBSET Scopes
      BY <1>0 DEF Request
    <3>. HIDE DEF S
    <3>3. /\ role' = role /\ req'[r] = next
          /\ key' = [key EXCEPT ![j] = [key[j] EXCEPT !.scopes = S]]
      BY <3>1 DEF Commit
    <3>4. CASE k = j
      <4>1. key'[k] = [key[k] EXCEPT !.scopes = S]
        BY <1>0, <3>3, <3>4 DEF TablesFit
      <4>2. key'[k].owner = key[k].owner /\ key'[k].scopes = S
        BY <1>0, <2>1, <3>2, <3>4, <4>1, UpdatedKey
      <4>. QED BY <2>0, <2>1, <3>1, <3>3, <3>4, <4>2 DEF S
    <3>5. CASE k # j
      BY <1>0, <2>0, <3>3, <3>5 DEF TablesFit
    <3>. QED BY <3>4, <3>5
  <2>2. CASE MoveKey(r, j) /\ key[j].live /\ role[q.base] # None
    <3>1. /\ q.pc = "mrg_move" /\ q.base \in Owners
          /\ Commit(r, role, [key EXCEPT ![j].owner = q.base], next)
      BY <1>0, <2>2 DEF MoveKey, next, ParametersFit, Owners
    <3>2. /\ role' = role /\ req'[r] = next
          /\ key' = [key EXCEPT ![j] = [key[j] EXCEPT !.owner = q.base]]
      BY <3>1 DEF Commit
    <3>3. CASE k = j
      <4>1. key'[k] = [key[k] EXCEPT !.owner = q.base]
        BY <1>0, <3>2, <3>3 DEF TablesFit
      <4>2. key'[k].scopes = key[k].scopes
        BY <1>0, <2>2, <3>1, <3>3, <4>1, UpdatedKey
      <4>. QED BY <2>0, <2>2, <3>1, <3>2, <3>3, <4>2
    <3>4. CASE k # j
      BY <1>0, <2>0, <3>2, <3>4 DEF TablesFit
    <3>. QED BY <3>3, <3>4
  <2>3. CASE ~key[j].live \/ (MoveKey(r, j) /\ role[q.base] = None)
    BY <1>6, <2>3 DEF CleanKey, MoveKey
  <2>. QED BY <1>6, <2>1, <2>2, <2>3
<1>7. CASE DeleteUserKeys(r)
  <2>1. /\ q.pc = "usr_keys" /\ role' = role
        /\ key' = [j \in Keys |-> IF j \in KeysOf(q.user) THEN NoKey ELSE key[j]]
        /\ req'[r] = [q EXCEPT !.pc = "usr_row"]
    BY <1>7 DEF DeleteUserKeys, Commit
  <2>2. key'[k] = key[k]
    BY <2>1, KeyFacts
  <2>3. req'[r].pc # q.pc
    BY <1>0, <2>1 DEF Request
  <2>. QED BY <2>1, <2>2, <2>3
<1>8. CASE DeleteUserRow(r) \/ DeleteMergedUser(r)
  <2>1. q.pc \in {"usr_row", "mrg_move"} /\ RemoveUser(r, q.user) /\ q.user \in Users
    BY <1>0, <1>8 DEF DeleteUserRow, DeleteMergedUser, ParametersFit
  <2>2. /\ role' = [role EXCEPT ![q.user] = None]
        /\ key'[k] = IF k \in KeysOf(q.user) THEN [key[k] EXCEPT !.owner = None] ELSE key[k]
    BY <2>1 DEF RemoveUser, Commit
  <2>3. q.user # None
    BY <2>1, ApiKeysAssumption
  <2>4. CASE k \in KeysOf(q.user)
    <3>1. key[k].live /\ key[k].owner = q.user
      BY <2>4 DEF KeysOf
    <3>2. key'[k].owner = None /\ key'[k].scopes = key[k].scopes
      BY <1>0, <2>2, <2>4, <3>1, UpdatedKey
    <3>. QED BY <2>1, <2>2, <3>1, <3>2
  <2>5. CASE k \notin KeysOf(q.user)
    <3>1. key'[k] = key[k] /\ key[k].owner # q.user
      BY <2>2, <2>5 DEF KeysOf
    <3>. QED BY <2>1, <2>2, <3>1
  <2>. QED BY <2>4, <2>5
<1>. QED BY <1>1, <1>2, <1>3, <1>4, <1>5, <1>6, <1>7, <1>8 DEF Writes


\* A key that comes to exceed what its owner may have.
LEMMA ExcessStep ==
  ASSUME Inv, Inv', [Next]_vars, NEW k \in Keys, ~Exceeds(k), Exceeds(k)'
  PROVE  \E r \in Requests :
           /\ Acts(r)
           /\ \/ req[r].pc \in {"chg_same", "chg_write", "mrg_role", "mrg_move"}
              \/ req[r].stale
<1>1. /\ key'[k].live /\ key'[k].owner # None /\ key'[k].owner \in Owners
      /\ ~(key'[k].scopes \subseteq Allowed(key[k].owner)')
  <2>1. key'[k] \in Key
    BY DEF Inv, TablesFit
  <2>. QED BY <2>1, KeyFacts DEF Exceeds
<1>2. PICK o \in Owners : o = key'[k].owner
  BY <1>1
<1>3. ~(key'[k].scopes \subseteq Allowed(o)')
  BY <1>1, <1>2 DEF Allowed
<1>4. ~(key[k].live /\ key[k].owner = o /\ key[k].scopes \subseteq key'[k].scopes
          /\ key'[k].scopes \subseteq key[k].scopes /\ Allowed(o)' = Allowed(o))
  BY <1>1, <1>2, <1>3 DEF Exceeds
<1>5. CASE UNCHANGED <<role, key>>
  <2>1. Allowed(o)' = Allowed(o)
    BY <1>5, AllowedStays
  <2>. QED BY <1>1, <1>2, <1>4, <1>5, <2>1
<1>6. ASSUME NEW u \in Users, Register(u)
      PROVE  FALSE
  <2>1. key' = key /\ role[u] = None /\ role' = [role EXCEPT ![u] = "USER"]
    BY <1>6 DEF Register
  <2>2. Allowed(o)' = Allowed(o)
    <3>1. CASE o \in Users
      <4>1. role'[o] = role[o] \/ (role[o] = None /\ role'[o] = "USER")
        BY <2>1, <3>1 DEF Inv, TablesFit
      <4>2. AllowedAs(o, role'[o]) = AllowedAs(o, role[o])
        BY <3>1, <4>1, AllowedFacts
      <4>. QED BY <3>1, <4>2 DEF Allowed
    <3>2. CASE o \notin Users
      BY <3>2, AllowedStays
    <3>. QED BY <3>1, <3>2
  <2>. QED BY <1>1, <1>2, <1>4, <2>1, <2>2
<1>7. ASSUME NEW r \in Requests, Writes(r)
      PROVE  \/ UNCHANGED <<role, key>>
             \/ /\ Acts(r)
                /\ \/ req[r].pc \in {"chg_same", "chg_write", "mrg_role", "mrg_move"}
                   \/ req[r].stale
  <2>. DEFINE q == req[r]
  <2>0. q \in Request /\ req'[r] \in Request /\ ParametersFit(q) /\ (q.stale \/ ReadsHold(q))
    BY DEF Inv, Fits, ReadsHoldToo
  <2>1. req'[r].pc # q.pc \/ req'[r].found # q.found => Acts(r)
    BY <2>0, Moves
  <2>2. role' = role => Allowed(o)' = Allowed(o)
    BY AllowedStays
  <2>3. role' = role /\ key'[k] = key[k] => FALSE
    BY <1>1, <1>2, <1>4, <2>2
  <2>4. role' = role /\ q.pc = "crt_write" /\ key'[k].owner = q.user /\ key'[k].scopes = q.scopes
          => q.stale
    BY <1>1, <1>2, <1>3, <2>0, <2>2 DEF ReadsHold
  <2>5. (/\ role' = role /\ q.pc = "upd_write" /\ key[k].live /\ k = q.id
         /\ key'[k].owner = key[k].owner /\ key'[k].scopes = q.scopes)
          => q.stale
    <3>. SUFFICES ASSUME role' = role, q.pc = "upd_write", key[k].live, k = q.id,
                         key'[k].owner = key[k].owner, key'[k].scopes = q.scopes, ~q.stale
                  PROVE  FALSE
      OBVIOUS
    <3>1. ReadsHold(q)
      BY <2>0
    <3>2. q.user = o
      BY <1>2, <3>1 DEF ReadsHold
    <3>3. q.scopes \subseteq Allowed(o)
      BY <1>1, <1>2, <3>1, <3>2 DEF ReadsHold
    <3>. QED BY <1>3, <2>2, <3>3
  <2>6. (/\ role' = role /\ q.pc = "chg_clean" /\ key[k].live /\ q.found[k].live
         /\ key'[k].owner = key[k].owner /\ key'[k].scopes = q.found[k].scopes \cap q.scopes)
          => q.stale
    <3>. SUFFICES ASSUME role' = role, q.pc = "chg_clean", key[k].live, q.found[k].live,
                         key'[k].owner = key[k].owner,
                         key'[k].scopes = q.found[k].scopes \cap q.scopes, ~q.stale
                  PROVE  FALSE
      OBVIOUS
    <3>1. ReadsHold(q) /\ q.found[k].owner = q.user
      BY <2>0 DEF ParametersFit
    <3>2. q.found[k] = key[k] /\ q.scopes = Allowed(q.user)
      BY <3>1 DEF ReadsHold
    <3>3. q.scopes = Allowed(o)
      BY <1>2, <3>1, <3>2
    <3>. QED BY <1>3, <2>2, <3>3
  <2>7. (/\ key[k].live /\ key'[k].scopes = key[k].scopes /\ q.user \in Users
         /\ key'[k].owner = IF key[k].owner = q.user THEN None ELSE key[k].owner
         /\ role' = [role EXCEPT ![q.user] = None])
          => FALSE
    <3>. SUFFICES ASSUME key[k].live, key'[k].scopes = key[k].scopes, q.user \in Users,
                         key'[k].owner = IF key[k].owner = q.user THEN None ELSE key[k].owner,
                         role' = [role EXCEPT ![q.user] = None]
                  PROVE  FALSE
      OBVIOUS
    <3>1. key[k].owner = o /\ o # q.user
      BY <1>1, <1>2
    <3>2. o \in Users => role'[o] = role[o]
      BY <3>1 DEF Inv, TablesFit
    <3>3. Allowed(o)' = Allowed(o)
      BY <3>2, AllowedStays
    <3>. QED BY <1>4, <3>1, <3>3
  <2>. QED BY <1>1, <1>7, <2>1, <2>3, <2>4, <2>5, <2>6, <2>7, WriteFacts
<1>. QED BY <1>5, <1>6, <1>7, WhoWrites

\* A key comes to carry scopes its owner may not have only by a change of the
\* owner's role, by merge, or by a write that was overtaken (cleanScopesForUser,
\* cleanAllApiKeysForUser).
THEOREM ExcessCorrect == Spec => ExcessOnlyFromRoleChange
<1>1. Inv /\ Inv' /\ [Next]_vars =>
        [\A k \in Keys :
           ~Exceeds(k) /\ Exceeds(k)' =>
             \E r \in Requests :
               /\ Acts(r)
               /\ \/ req[r].pc \in {"chg_same", "chg_write", "mrg_role", "mrg_move"}
                  \/ req[r].stale]_<<key, role>>
  BY ExcessStep
<1>. QED BY <1>1, AlwaysInv, PTL DEF Spec, ExcessOnlyFromRoleChange

LEMMA GrowthStep ==
  ASSUME Inv, Inv', [Next]_vars, NEW k \in Keys, key[k].live, key'[k].live,
         ~(key'[k].scopes \subseteq key[k].scopes)
  PROVE  \E r \in Requests :
           /\ Acts(r)
           /\ \/ req[r].pc = "upd_write"
              \/ req[r].pc = "chg_clean" /\ req[r].stale
<1>1. key'[k] # key[k] /\ ~UNCHANGED <<role, key>>
  OBVIOUS
<1>2. ASSUME NEW r \in Requests, Writes(r)
      PROVE  /\ Acts(r)
             /\ \/ req[r].pc = "upd_write"
                \/ req[r].pc = "chg_clean" /\ req[r].stale
  <2>1. req[r] \in Request /\ req'[r] \in Request /\ (req[r].stale \/ ReadsHold(req[r]))
    BY DEF Inv, Fits, ReadsHoldToo
  <2>2. req'[r].pc # req[r].pc \/ req'[r].found # req[r].found => Acts(r)
    BY <2>1, Moves
  <2>3. (/\ req[r].pc = "chg_clean" /\ req[r].found[k].live
         /\ key'[k].scopes = req[r].found[k].scopes \cap req[r].scopes)
          => req[r].stale
    <3>1. ReadsHold(req[r]) /\ req[r].pc = "chg_clean" /\ req[r].found[k].live =>
            req[r].found[k] = key[k]
      BY DEF ReadsHold
    <3>. QED BY <2>1, <3>1
  <2>4. ~(key'[k].scopes = key[k].scopes)
    OBVIOUS
  <2>. QED BY <1>1, <1>2, <2>2, <2>3, <2>4, WriteFacts
<1>3. ASSUME NEW u \in Users, Register(u) PROVE key' = key
  BY <1>3 DEF Register
<1>. QED BY <1>1, <1>2, <1>3, WhoWrites

\* The scopes of a key grow only by an update of it, or by a
\* cleanAllApiKeysForUser that was overtaken.
THEOREM GrowthCorrect == Spec => ScopesGrowByUpdate
<1>1. Inv /\ Inv' /\ [Next]_vars =>
        [\A k \in Keys :
           key[k].live /\ key'[k].live /\ ~(key'[k].scopes \subseteq key[k].scopes) =>
             \E r \in Requests :
               /\ Acts(r)
               /\ \/ req[r].pc = "upd_write"
                  \/ req[r].pc = "chg_clean" /\ req[r].stale]_key
  BY GrowthStep
<1>. QED BY <1>1, AlwaysInv, PTL DEF Spec, ScopesGrowByUpdate

----------------------------------------------------------------------------
(* Requests served one at a time: stale stands for nothing but races.      *)

\* No request takes a step while another is in flight; copies are served, users
\* register and the process restarts at any time.
OneAtATime ==
  \/ \E r \in Requests : /\ Arrive(r) \/ Resume(r) \/ Abort(r)
                         /\ \A p \in Requests \ {r} : req[p] = Idle
  \/ \E u \in Users : Register(u)
  \/ \E k \in Keys : ServeCopy(k)
  \/ Restart

NoneStale == \A r \in Requests : ~req[r].stale

\* A request that is not stale, with other fields changed.
LEMMA FieldsLeaveStale ==
  ASSUME NEW q \in Request, ~q.stale
  PROVE  \A a, b, c, d :
           /\ ~[q EXCEPT !.pc = a].stale
           /\ ~[q EXCEPT !.found = a].stale
           /\ ~[q EXCEPT !.pc = a, !.id = b].stale
           /\ ~[q EXCEPT !.pc = a, !.user = b].stale
           /\ ~[q EXCEPT !.pc = a, !.role = b].stale
           /\ ~[q EXCEPT !.pc = a, !.scopes = b].stale
           /\ ~[q EXCEPT !.pc = a, !.found = b].stale
           /\ ~[q EXCEPT !.pc = a, !.user = b, !.scopes = c].stale
           /\ ~[q EXCEPT !.pc = a, !.user = b, !.id = c].stale
           /\ ~[q EXCEPT !.pc = a, !.user = b, !.role = c].stale
           /\ ~[q EXCEPT !.pc = a, !.user = b, !.id = c, !.scopes = d].stale
           /\ ~[q EXCEPT !.pc = a, !.base = b, !.user = c, !.role = d].stale
  BY DEF Request

LEMMA BecomeIsFresh ==
  ASSUME Inv, NoneStale, NEW r \in Requests, NEW next, Become(r, next), ~next.stale
  PROVE  NoneStale'
  BY DEF Inv, NoneStale, Become

LEMMA CommitIsFresh ==
  ASSUME Inv, NoneStale, NEW r \in Requests, \A p \in Requests \ {r} : req[p] = Idle,
         NEW roles, NEW keys, NEW next, Commit(r, roles, keys, next), ~next.stale
  PROVE  NoneStale'
<1>1. ~Overtaken(Idle, roles, keys)
  BY DEF Overtaken, Idle
<1>2. ASSUME NEW p \in Requests \ {r}
      PROVE  ~req'[p].stale
  <2>1. req[p] = Idle /\ req'[p] = [req[p] EXCEPT !.stale = @ \/ Overtaken(req[p], roles, keys)]
    BY <1>2 DEF Commit
  <2>2. req'[p].stale = (Idle.stale \/ Overtaken(Idle, roles, keys))
    BY <2>1, IdleFits DEF Request
  <2>. QED BY <1>1, <2>2 DEF Idle
<1>. QED BY <1>2 DEF Commit, NoneStale

LEMMA ReplyIsFresh ==
  ASSUME Inv, NoneStale, NEW r \in Requests, Reply(r)
  PROVE  NoneStale'
  BY BecomeIsFresh DEF Reply, Idle

LEMMA ArriveIsFresh ==
  ASSUME Inv, NoneStale, NEW r \in Requests, Arrive(r)
  PROVE  NoneStale'
<1>. Idle \in Request /\ ~Idle.stale
  BY IdleFits DEF Idle
<1>1. ASSUME NEW owner \in Owners, NEW wish \in Wishes, CreateApiKey(r, owner, wish)
      PROVE  NoneStale'
  BY <1>1, BecomeIsFresh, FieldsLeaveStale DEF CreateApiKey
<1>2. ASSUME NEW owner \in Owners, NEW k \in Keys, NEW wish \in Wishes,
             UpdateApiKey(r, owner, k, wish)
      PROVE  NoneStale'
  <2>. DEFINE next == [Idle EXCEPT !.pc = "upd_role", !.user = owner, !.id = k, !.scopes = wish]
  <2>1. ~next.stale
    BY FieldsLeaveStale
  <2>2. Become(r, next)
    BY <1>2 DEF UpdateApiKey
  <2>. HIDE DEF next
  <2>. QED BY <2>1, <2>2, BecomeIsFresh
<1>3. ASSUME NEW owner \in Owners, NEW k \in Keys, DeleteApiKey(r, owner, k)
      PROVE  NoneStale'
  BY <1>3, BecomeIsFresh, FieldsLeaveStale DEF DeleteApiKey
<1>4. ASSUME NEW k \in Keys, GetApiKeyFromKey(r, k)
      PROVE  NoneStale'
  BY <1>4, BecomeIsFresh, FieldsLeaveStale DEF GetApiKeyFromKey
<1>5. ASSUME NEW u \in Users, NEW newRole \in Roles, UpdateUser(r, u, newRole)
      PROVE  NoneStale'
  <2>. DEFINE next == [Idle EXCEPT !.pc = IF role[u] = newRole THEN "chg_same" ELSE "chg_write",
                                   !.user = u, !.role = newRole]
  <2>1. ~next.stale
    BY FieldsLeaveStale
  <2>2. Become(r, next)
    BY <1>5 DEF UpdateUser
  <2>. HIDE DEF next
  <2>. QED BY <2>1, <2>2, BecomeIsFresh
<1>6. ASSUME NEW u \in Users, RemoveUnauthorizedScopes(r, u)
      PROVE  NoneStale'
  BY <1>6, BecomeIsFresh, FieldsLeaveStale DEF RemoveUnauthorizedScopes
<1>7. ASSUME NEW u \in Users, DeleteUser(r, u)
      PROVE  NoneStale'
  BY <1>7, BecomeIsFresh, FieldsLeaveStale DEF DeleteUser
<1>8. ASSUME NEW base \in Users, NEW other \in Users, MergeUsers(r, base, other)
      PROVE  NoneStale'
  BY <1>8, BecomeIsFresh, FieldsLeaveStale DEF MergeUsers
<1>. QED BY <1>1, <1>2, <1>3, <1>4, <1>5, <1>6, <1>7, <1>8 DEF Arrive

LEMMA ResumeIsFresh ==
  ASSUME Inv, NoneStale, NEW r \in Requests, \A p \in Requests \ {r} : req[p] = Idle, Resume(r)
  PROVE  NoneStale'
<1>. DEFINE q == req[r]
<1>. Idle \in Request /\ ~Idle.stale /\ q \in Request /\ ~q.stale
  BY IdleFits DEF Idle, Inv, NoneStale
<1>1. ~Evicting(q).stale
  BY FieldsLeaveStale DEF Evicting
<1>2. CASE CleanScopes(r)
  <2>. DEFINE next == [q EXCEPT !.pc = IF @ = "crt_role" THEN "crt_write" ELSE "upd_write",
                                !.scopes = @ \cap Allowed(q.user)]
  <2>1. ~next.stale
    BY FieldsLeaveStale
  <2>2. Become(r, next) \/ Reply(r)
    BY <1>2 DEF CleanScopes
  <2>. HIDE DEF next
  <2>. QED BY <2>1, <2>2, BecomeIsFresh, ReplyIsFresh
<1>3. CASE CreateKeyRow(r)
  BY <1>3, CommitIsFresh, ReplyIsFresh DEF CreateKeyRow
<1>4. CASE WriteScopes(r) \/ DeleteKeyRow(r)
  BY <1>1, <1>4, CommitIsFresh, ReplyIsFresh DEF WriteScopes, DeleteKeyRow
<1>5. CASE EvictCopy(r) \/ FillCache(r) \/ KeysCleaned(r) \/ ScopesRemoved(r)
  BY <1>5, ReplyIsFresh DEF EvictCopy, FillCache, KeysCleaned, ScopesRemoved
<1>6. CASE FindKey(r)
  BY <1>6, BecomeIsFresh, ReplyIsFresh, FieldsLeaveStale DEF FindKey
<1>7. CASE WriteRole(r)
  BY <1>7, CommitIsFresh, ReplyIsFresh, FieldsLeaveStale DEF WriteRole
<1>8. CASE FindKeysToClean(r)
  <2>. DEFINE next == [q EXCEPT !.pc = IF @ = "chg_keys" THEN "chg_role" ELSE "rmv_role",
                                !.found = Found(KeysOf(q.user))]
  <2>1. ~next.stale
    BY FieldsLeaveStale
  <2>2. Become(r, next) \/ Reply(r)
    BY <1>8 DEF FindKeysToClean
  <2>. HIDE DEF next
  <2>. QED BY <2>1, <2>2, BecomeIsFresh, ReplyIsFresh
<1>9. CASE ReadAllowedScopes(r)
  <2>. DEFINE next == [q EXCEPT !.pc = IF @ = "chg_role" THEN "chg_clean" ELSE "rmv_clean",
                                !.scopes = Allowed(q.user)]
  <2>1. ~next.stale
    BY FieldsLeaveStale
  <2>2. Become(r, next) \/ Reply(r)
    BY <1>9 DEF ReadAllowedScopes
  <2>. HIDE DEF next
  <2>. QED BY <2>1, <2>2, BecomeIsFresh, ReplyIsFresh
<1>10. ASSUME NEW k \in Keys, CleanKey(r, k) \/ MoveKey(r, k)
       PROVE  NoneStale'
  <2>. DEFINE next == [q EXCEPT !.found[k] = NoKey]
  <2>1. ~next.stale
    BY FieldsLeaveStale
  <2>2. (\E roles, keys : Commit(r, roles, keys, next)) \/ Reply(r)
    BY <1>10 DEF CleanKey, MoveKey
  <2>. HIDE DEF next
  <2>. QED BY <2>1, <2>2, CommitIsFresh, ReplyIsFresh
<1>11. CASE DeleteUserKeys(r)
  BY <1>11, CommitIsFresh, FieldsLeaveStale DEF DeleteUserKeys
<1>12. CASE DeleteUserRow(r) \/ DeleteMergedUser(r)
  BY <1>12, CommitIsFresh DEF DeleteUserRow, DeleteMergedUser, RemoveUser
<1>13. CASE MergeRole(r)
  BY <1>13, CommitIsFresh, ReplyIsFresh, FieldsLeaveStale DEF MergeRole
<1>14. CASE FindKeysToMove(r)
  BY <1>14, BecomeIsFresh, FieldsLeaveStale DEF FindKeysToMove
<1>. QED
  BY <1>2, <1>3, <1>4, <1>5, <1>6, <1>7, <1>8, <1>9, <1>10, <1>11, <1>12, <1>13, <1>14
     DEF Resume

\* Of requests served one at a time none is ever stale.
LEMMA NoneIsOvertaken == Spec /\ [][OneAtATime]_vars => []NoneStale
<1>1. Init => NoneStale
  BY DEF Init, NoneStale, Idle
<1>2. Inv /\ NoneStale /\ [OneAtATime]_vars => NoneStale'
  <2>1. Restart => NoneStale'
    BY DEF Restart, NoneStale, Idle
  <2>2. ASSUME UNCHANGED req
        PROVE  NoneStale => NoneStale'
    BY <2>2 DEF NoneStale
  <2>3. UNCHANGED vars \/ (\E u \in Users : Register(u)) \/ (\E k \in Keys : ServeCopy(k))
          => UNCHANGED req
    BY DEF vars, Register, ServeCopy
  <2>. QED BY <2>1, <2>2, <2>3, ArriveIsFresh, ResumeIsFresh, ReplyIsFresh DEF OneAtATime, Abort
<1>. QED BY <1>1, <1>2, AlwaysInv, PTL DEF Spec

\* With requests served one at a time, a key comes to carry scopes its owner may
\* not have only through a change of the owner's role or a merge, and grows only
\* by an update of its own.
THEOREM ScopesOneAtATime ==
  Spec /\ [][OneAtATime]_vars =>
    [][\A k \in Keys :
         /\ ~Exceeds(k) /\ Exceeds(k)' =>
              \E r \in Requests :
                Acts(r) /\ req[r].pc \in {"chg_same", "chg_write", "mrg_role", "mrg_move"}
         /\ key[k].live /\ key'[k].live /\ ~(key'[k].scopes \subseteq key[k].scopes) =>
              \E r \in Requests : Acts(r) /\ req[r].pc = "upd_write"]_vars
<1>1. ASSUME Inv, Inv', NoneStale, [Next]_vars, NEW k \in Keys, ~Exceeds(k), Exceeds(k)'
      PROVE  \E r \in Requests :
               Acts(r) /\ req[r].pc \in {"chg_same", "chg_write", "mrg_role", "mrg_move"}
  BY <1>1, ExcessStep DEF NoneStale
<1>2. ASSUME Inv, Inv', NoneStale, [Next]_vars, NEW k \in Keys, key[k].live, key'[k].live,
             ~(key'[k].scopes \subseteq key[k].scopes)
      PROVE  \E r \in Requests : Acts(r) /\ req[r].pc = "upd_write"
  BY <1>2, GrowthStep DEF NoneStale
<1>3. Inv /\ Inv' /\ NoneStale /\ [Next]_vars =>
    [\A k \in Keys :
         /\ ~Exceeds(k) /\ Exceeds(k)' =>
              \E r \in Requests :
                Acts(r) /\ req[r].pc \in {"chg_same", "chg_write", "mrg_role", "mrg_move"}
         /\ key[k].live /\ key'[k].live /\ ~(key'[k].scopes \subseteq key[k].scopes) =>
              \E r \in Requests : Acts(r) /\ req[r].pc = "upd_write"]_vars
  BY <1>1, <1>2
<1>. QED BY <1>3, AlwaysInv, NoneIsOvertaken, PTL DEF Spec

\* When cleanAllApiKeysForUser has gone through the keys of a user, and requests
\* are served one at a time, no key of the user carries more than its role allows.
THEOREM CleanedOneAtATime ==
  Spec /\ [][OneAtATime]_vars =>
    [][\A r \in Requests :
         KeysCleaned(r) => \A k \in Keys : key[k].owner = req[r].user => ~Exceeds(k)']_vars
<1>1. ASSUME Inv, NoneStale, NEW r \in Requests, KeysCleaned(r), NEW k \in Keys,
             key[k].owner = req[r].user
      PROVE  ~Exceeds(k)'
  <2>1. ReadsHold(req[r]) /\ req[r].pc = "chg_clean" /\ req[r].found = Nothing
    BY <1>1 DEF Inv, Fits, ReadsHoldToo, KeysCleaned, NoneStale
  <2>2. k \in KeysOf(req[r].user) => ~Exceeds(k)
    BY <2>1, KeyFacts, CopyFacts DEF ReadsHold
  <2>3. ~Exceeds(k)
    BY <1>1, <2>2 DEF KeysOf, Exceeds
  <2>4. role' = role /\ key' = key
    BY <1>1 DEF KeysCleaned, tables
  <2>. QED BY <2>3, <2>4 DEF Exceeds, Allowed, AllowedAs, AllowedToGroup
<1>2. Inv /\ NoneStale /\ [Next]_vars =>
        [\A r \in Requests :
           KeysCleaned(r) => \A k \in Keys : key[k].owner = req[r].user => ~Exceeds(k)']_vars
  BY <1>1
<1>. QED BY <1>2, AlwaysInv, NoneIsOvertaken, PTL DEF Spec
=============================================================================
