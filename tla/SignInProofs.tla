----------------------------- MODULE SignInProofs -----------------------------
(* The inductive invariant of SignIn and what follows from it, for any     *)
(* number of requests, codes, secrets and subnets and any size of a set of *)
(* backup codes.                                                           *)
EXTENDS SignIn, FiniteSetTheorems, TLAPS

\* The codes a run of regenerateBackupCodes has made are finitely many.
Finite(q) == q.pc = "gen_create" => IsFiniteSet(q.given)

Knows(q) == ReadsHold(q) /\ Earned(q)

Fits(r) == /\ ParametersFit(req[r]) /\ Finite(req[r])
           /\ req[r].stale \/ Knows(req[r])

TablesFit ==
  /\ method \in Methods \cup {"NONE"}
  /\ secret \in Secrets \cup {None}
  /\ proven \subseteq Secrets
  /\ checkLocation \in BOOLEAN
  /\ code \in [Codes -> {"none", "fresh", "used"}]
  /\ approved \in [Rows -> Subnets \cup {None}]

Inv == TablesFit /\ req \in [Requests -> Request] /\ \A r \in Requests : Fits(r)

LEMMA InvGives == Inv => SignInInv /\ SessionsEarned
<1>1. Inv => TypeOK
  BY DEF Inv, TablesFit, TypeOK
<1>. QED BY <1>1 DEF Inv, SignInInv, SessionsEarned, Fits, Knows

LEMMA IdleFits ==
  /\ Idle \in Request /\ Idle.pc = "idle"
  /\ \A r \in Requests : req'[r] = Idle => Fits(r)'
<1>1. Idle \in Request
  BY SignInAssumption DEF Idle, Request, PCs
<1>. QED BY <1>1 DEF Idle, Fits, ParametersFit, Finite, Knows, ReadsHold, Earned

----------------------------------------------------------------------------
(* What a waiting request has read survives a step that leaves it alone or *)
(* makes it stale.                                                         *)

\* What request p has read and still acts on does not change.
Intact(p) ==
  LET q == req[p] IN
  /\ q.pc \in {"req_write", "enb_write", "dis_write", "otp_codes", "otp_mark", "otp_session",
               "pwd_subnets", "pwd_recheck", "pwd_session"} => method' = method
  /\ q.pc \in {"enb_write", "otp_codes", "otp_mark", "otp_session"} => secret' = secret
  /\ q.pc = "gen_create" => Stored' = Stored
  /\ q.pc = "otp_mark" => code'[q.code] = code[q.code]
  /\ q.pc \in {"pwd_subnets", "pwd_recheck", "pwd_session"} => checkLocation' = checkLocation
  /\ q.pc \in {"pwd_recheck", "pwd_session", "ups_create"} =>
       (IsApproved(q.subnet) <=> \E i \in Rows : approved'[i] = q.subnet)
  /\ q.pc = "lnk_session" =>
       (IsApproved(q.subnet) => \E i \in Rows : approved'[i] = q.subnet)

\* A secret that has been proven and is about to be written stays so.
ProofsStay == \A p \in Requests : req[p].pc = "enb_write" => req[p].secret \in proven'

LEMMA OthersFit ==
  ASSUME Inv, NEW p \in Requests, NEW c \in BOOLEAN, ProofsStay, c \/ Intact(p),
         req'[p] = [req[p] EXCEPT !.stale = @ \/ c]
  PROVE  req'[p] \in Request /\ Fits(p)'
<1>. DEFINE q == req[p]
<1>. q \in Request /\ ParametersFit(q) /\ Finite(q) /\ (q.stale \/ Knows(q))
  BY DEF Inv, Fits
<1>1. (q.stale \/ c) \in BOOLEAN
  OBVIOUS
<1>2. /\ req'[p].pc = q.pc /\ req'[p].method = q.method /\ req'[p].secret = q.secret
      /\ req'[p].left = q.left /\ req'[p].given = q.given
      /\ req'[p].code = q.code /\ req'[p].subnet = q.subnet
  BY DEF Request
<1>3. req'[p].stale = (q.stale \/ c)
  BY DEF Request
<1>4. req'[p] \in Request
  <2>1. \A s \in BOOLEAN : [q EXCEPT !.stale = s] \in Request
    BY DEF Request
  <2>. QED BY <1>1, <2>1
<1>5. ParametersFit(req[p])' /\ Finite(req[p])'
  BY <1>2 DEF ParametersFit, Finite, ProofsStay
<1>6. ASSUME ~req'[p].stale
      PROVE  Intact(p) /\ Knows(q)
  BY <1>3, <1>6
<1>7. ASSUME Intact(p), Knows(q)
      PROVE  Knows(req[p])'
  <2>1. q.pc \in {"pwd_recheck", "pwd_session", "ups_create"} =>
          (IsApproved(req[p].subnet)' <=> IsApproved(q.subnet))
    BY <1>2, <1>7 DEF Intact, IsApproved
  <2>2. ReadsHold(req[p])'
    BY <1>2, <1>7, <2>1 DEF Intact, Knows, ReadsHold
  <2>3. q.pc = "lnk_session" /\ IsApproved(q.subnet) => IsApproved(req[p].subnet)'
    BY <1>2, <1>7 DEF Intact, IsApproved
  <2>4. Earned(req[p])'
    BY <1>2, <1>7, <2>1, <2>3 DEF Intact, Knows, Earned
  <2>. QED BY <2>2, <2>4 DEF Knows
<1>. QED BY <1>4, <1>5, <1>6, <1>7 DEF Fits

LEMMA CommitKeeps ==
  ASSUME Inv, NEW r \in Requests, NEW next \in Request, NEW changed, Commit(r, next, changed),
         TablesFit', ProofsStay, Fits(r)',
         \A p \in Requests \ {r} : p \in changed \/ Intact(p)
  PROVE  Inv'
<1>1. ASSUME NEW p \in Requests
      PROVE  req'[p] \in Request /\ Fits(p)'
  <2>1. CASE p = r
    BY <2>1 DEF Commit
  <2>2. CASE p # r
    <3>1. req'[p] = [req[p] EXCEPT !.stale = @ \/ p \in changed]
      BY <2>2 DEF Commit
    <3>2. CASE p \in changed
      <4>1. req'[p] = [req[p] EXCEPT !.stale = @ \/ TRUE]
        BY <3>1, <3>2
      <4>. QED BY <4>1, OthersFit
    <3>3. CASE p \notin changed
      <4>1. req'[p] = [req[p] EXCEPT !.stale = @ \/ FALSE]
        BY <3>1, <3>3
      <4>. QED BY <2>2, <3>3, <4>1, OthersFit
    <3>. QED BY <3>2, <3>3
  <2>. QED BY <2>1, <2>2
<1>. QED BY <1>1 DEF Commit, Inv

\* A step that writes nothing, but perhaps proves a secret.
LEMMA BecomeKeeps ==
  ASSUME Inv, NEW r \in Requests, NEW next \in Request, Become(r, next),
         UNCHANGED <<method, secret, checkLocation, code, approved>>,
         proven \subseteq proven', proven' \subseteq Secrets, Fits(r)'
  PROVE  Inv'
<1>1. TablesFit'
  BY DEF Inv, TablesFit
<1>2. ASSUME NEW p \in Requests, p # r
      PROVE  req'[p] \in Request /\ Fits(p)'
  <2>1. req'[p] = req[p] /\ Fits(p) /\ req[p] \in Request
    BY <1>2 DEF Become, Inv
  <2>2. IsApproved(req[p].subnet)' <=> IsApproved(req[p].subnet)
    BY <2>1 DEF IsApproved
  <2>. QED BY <2>1, <2>2 DEF Fits, ParametersFit, Finite, Knows, ReadsHold, Earned, Stored
<1>3. req'[r] = next
  BY DEF Become, Inv
<1>. QED BY <1>1, <1>2, <1>3 DEF Become, Inv

LEMMA ReplyKeeps ==
  ASSUME Inv, NEW r \in Requests, Reply(r), UNCHANGED database
  PROVE  Inv'
<1>1. req'[r] = Idle
  BY DEF Reply, Become, Inv
<1>. QED BY <1>1, IdleFits, BecomeKeeps DEF Reply, database, factor, Inv, TablesFit

----------------------------------------------------------------------------
(* The steps that only read.                                               *)

LEMMA ReadersKeep ==
  ASSUME Inv, NEW r \in Requests, \/ RequestMfa(r) \/ (\E m \in Methods : EnableMfaMethod(r, m))
                               \/ DisableMfa(r) \/ RegenerateBackupCodes(r)
                               \/ LoginUserWithTotpCode(r) \/ LoginUnasked(r)
                               \/ (\E s \in Subnets : LoginWithPassword(r, s) \/ FollowLink(r, s))
                               \/ (\E c \in Codes : FindBackupCode(r, c))
                               \/ CheckLoginSubnet(r) \/ RecheckLocation(r) \/ UpsertNewSubnet(r)
                               \/ GiveCodes(r) \/ CreateSession(r) \/ Abort(r)
  PROVE  Inv'
<1>. req \in [Requests -> Request] /\ req[r] \in Request /\ Fits(r) /\ TablesFit
  BY DEF Inv
<1>1. CASE RequestMfa(r)
  <2>. DEFINE next == [Idle EXCEPT !.pc = "req_write"]
  <2>1. /\ Become(r, next) /\ UNCHANGED <<method, secret, checkLocation, code, approved>>
        /\ proven \subseteq proven' /\ proven' \subseteq Secrets
        /\ method = "NONE"
    BY <1>1 DEF RequestMfa, database, factor, Inv, TablesFit
  <2>2. next \in Request
    BY <1>1, <2>1, IdleFits DEF Request, PCs, Idle, Inv, TablesFit
  <2>3. req'[r] = next
    BY <2>1 DEF Become, Inv
  <2>4. /\ req'[r].pc = "req_write" /\ req'[r].given = {}
    BY <2>1, <2>3 DEF Request, Idle
  <2>. HIDE DEF next
  <2>5. Fits(r)'
    BY <1>1, <2>1, <2>4
    DEF Fits, ParametersFit, Finite, Knows, ReadsHold, Earned
  <2>. QED BY <2>1, <2>2, <2>5, BecomeKeeps
<1>2. ASSUME NEW m \in Methods, EnableMfaMethod(r, m)
      PROVE  Inv'
  <2>. DEFINE next == [Idle EXCEPT !.pc = "enb_write", !.method = m, !.secret = secret]
  <2>1. /\ Become(r, next) /\ UNCHANGED <<method, secret, checkLocation, code, approved>>
        /\ proven \subseteq proven' /\ proven' \subseteq Secrets
        /\ method = "NONE" /\ secret \in proven' /\ secret \in Secrets
    BY <1>2 DEF EnableMfaMethod, database, factor, Inv, TablesFit
  <2>2. next \in Request
    BY <1>2, <2>1, IdleFits DEF Request, PCs, Idle, Inv, TablesFit
  <2>3. req'[r] = next
    BY <2>1 DEF Become, Inv
  <2>4. /\ req'[r].pc = "enb_write" /\ req'[r].given = {} /\ req'[r].method = m
        /\ req'[r].secret = secret
    BY <2>1, <2>3 DEF Request, Idle
  <2>. HIDE DEF next
  <2>5. Fits(r)'
    BY <1>2, <2>1, <2>4
    DEF Fits, ParametersFit, Finite, Knows, ReadsHold, Earned
  <2>. QED BY <2>1, <2>2, <2>5, BecomeKeeps
<1>3. CASE DisableMfa(r)
  <2>. DEFINE next == [Idle EXCEPT !.pc = "dis_write"]
  <2>1. /\ Become(r, next) /\ UNCHANGED <<method, secret, checkLocation, code, approved>>
        /\ proven \subseteq proven' /\ proven' \subseteq Secrets
        /\ method # "NONE"
    BY <1>3 DEF DisableMfa, database, factor, Inv, TablesFit
  <2>2. next \in Request
    BY <1>3, <2>1, IdleFits DEF Request, PCs, Idle, Inv, TablesFit
  <2>3. req'[r] = next
    BY <2>1 DEF Become, Inv
  <2>4. /\ req'[r].pc = "dis_write" /\ req'[r].given = {}
    BY <2>1, <2>3 DEF Request, Idle
  <2>. HIDE DEF next
  <2>5. Fits(r)'
    BY <1>3, <2>1, <2>4
    DEF Fits, ParametersFit, Finite, Knows, ReadsHold, Earned
  <2>. QED BY <2>1, <2>2, <2>5, BecomeKeeps
<1>4. CASE RegenerateBackupCodes(r)
  <2>. DEFINE next == [Idle EXCEPT !.pc = "gen_delete"]
  <2>1. /\ Become(r, next) /\ UNCHANGED <<method, secret, checkLocation, code, approved>>
        /\ proven \subseteq proven' /\ proven' \subseteq Secrets
    BY <1>4 DEF RegenerateBackupCodes, database, factor, Inv, TablesFit
  <2>2. next \in Request
    BY <1>4, <2>1, IdleFits DEF Request, PCs, Idle, Inv, TablesFit
  <2>3. req'[r] = next
    BY <2>1 DEF Become, Inv
  <2>4. /\ req'[r].pc = "gen_delete" /\ req'[r].given = {}
    BY <2>1, <2>3 DEF Request, Idle
  <2>. HIDE DEF next
  <2>5. Fits(r)'
    BY <1>4, <2>1, <2>4
    DEF Fits, ParametersFit, Finite, Knows, ReadsHold, Earned
  <2>. QED BY <2>1, <2>2, <2>5, BecomeKeeps
<1>5. CASE LoginUserWithTotpCode(r)
  <2>. PICK pc \in {"otp_session", "otp_codes"} :
         Become(r, [Idle EXCEPT !.pc = pc, !.secret = secret])
    BY <1>5 DEF LoginUserWithTotpCode
  <2>. DEFINE next == [Idle EXCEPT !.pc = pc, !.secret = secret]
  <2>1. /\ Become(r, next) /\ UNCHANGED <<method, secret, checkLocation, code, approved>>
        /\ proven \subseteq proven' /\ proven' \subseteq Secrets
        /\ method # "NONE" /\ secret \in Secrets
    BY <1>5 DEF LoginUserWithTotpCode, database, factor, Inv, TablesFit
  <2>2. next \in Request
    BY <1>5, <2>1, IdleFits DEF Request, PCs, Idle, Inv, TablesFit
  <2>3. req'[r] = next
    BY <2>1 DEF Become, Inv
  <2>4. /\ req'[r].pc = pc /\ req'[r].given = {} /\ req'[r].secret = secret
    BY <2>1, <2>3 DEF Request, Idle
  <2>. HIDE DEF next
  <2>5. Fits(r)'
    BY <1>5, <2>1, <2>4
    DEF Fits, ParametersFit, Finite, Knows, ReadsHold, Earned
  <2>. QED BY <2>1, <2>2, <2>5, BecomeKeeps
<1>6. ASSUME NEW s \in Subnets, LoginWithPassword(r, s)
      PROVE  Inv'
  <2>. DEFINE next == [Idle EXCEPT !.pc = IF checkLocation THEN "pwd_subnets" ELSE "pwd_session",
                              !.subnet = s]
  <2>1. /\ Become(r, next) /\ UNCHANGED <<method, secret, checkLocation, code, approved>>
        /\ proven \subseteq proven' /\ proven' \subseteq Secrets
        /\ method = "NONE"
    BY <1>6 DEF LoginWithPassword, database, factor, Inv, TablesFit
  <2>2. next \in Request
    BY <1>6, <2>1, IdleFits, ZenonT(40) DEF Request, PCs, Idle, Inv, TablesFit
  <2>3. req'[r] = next
    BY <2>1 DEF Become, Inv
  <2>4. /\ req'[r].pc = IF checkLocation THEN "pwd_subnets" ELSE "pwd_session"
        /\ req'[r].given = {} /\ req'[r].subnet = s
    BY <2>1, <2>3 DEF Request, Idle
  <2>. HIDE DEF next
  <2>5. Fits(r)'
    BY <1>6, <2>1, <2>4
    DEF Fits, ParametersFit, Finite, Knows, ReadsHold, Earned
  <2>. QED BY <2>1, <2>2, <2>5, BecomeKeeps
<1>7. ASSUME NEW s \in Subnets, FollowLink(r, s)
      PROVE  Inv'
  <2>. DEFINE next == [Idle EXCEPT !.pc = "ups_find", !.subnet = s]
  <2>1. /\ Become(r, next) /\ UNCHANGED <<method, secret, checkLocation, code, approved>>
        /\ proven \subseteq proven' /\ proven' \subseteq Secrets
    BY <1>7 DEF FollowLink, database, factor, Inv, TablesFit
  <2>2. next \in Request
    BY <1>7, <2>1, IdleFits DEF Request, PCs, Idle, Inv, TablesFit
  <2>3. req'[r] = next
    BY <2>1 DEF Become, Inv
  <2>4. /\ req'[r].pc = "ups_find" /\ req'[r].given = {} /\ req'[r].subnet = s
    BY <2>1, <2>3 DEF Request, Idle
  <2>. HIDE DEF next
  <2>5. Fits(r)'
    BY <1>7, <2>1, <2>4
    DEF Fits, ParametersFit, Finite, Knows, ReadsHold, Earned
  <2>. QED BY <2>1, <2>2, <2>5, BecomeKeeps
<1>8. ASSUME NEW c \in Codes, FindBackupCode(r, c)
      PROVE  Inv'
  <2>1. CASE code[c] # "fresh"
    BY <1>8, <2>1, ReplyKeeps DEF FindBackupCode
  <2>2. CASE code[c] = "fresh"
    <3>. DEFINE next == [req[r] EXCEPT !.pc = "otp_mark", !.code = c]
    <3>1. /\ Become(r, next) /\ UNCHANGED <<method, secret, checkLocation, code, approved>>
          /\ proven \subseteq proven' /\ proven' \subseteq Secrets
          /\ req[r].pc = "otp_codes"
      BY <1>8, <2>2 DEF FindBackupCode, database, factor, Inv, TablesFit
    <3>2. next \in Request
      BY <1>8, <2>2, <3>1, IdleFits DEF Request, PCs, Inv, TablesFit
    <3>3. req'[r] = next
      BY <3>1 DEF Become, Inv
    <3>4. /\ req'[r].pc = "otp_mark" /\ req'[r].code = c /\ req'[r].secret = req[r].secret
          /\ req'[r].given = req[r].given /\ req'[r].stale = req[r].stale
      BY <3>1, <3>3 DEF Request, Idle
    <3>. HIDE DEF next
    <3>5. Fits(r)'
      BY <1>8, <2>2, <3>1, <3>4
      DEF Fits, ParametersFit, Finite, Knows, ReadsHold, Earned
    <3>. QED BY <3>1, <3>2, <3>5, BecomeKeeps
  <2>. QED BY <2>1, <2>2
<1>9. CASE CheckLoginSubnet(r)
  <2>. DEFINE next == [req[r] EXCEPT !.pc = IF IsApproved(req[r].subnet) THEN "pwd_session"
                                                                 ELSE "pwd_recheck"]
  <2>1. /\ Become(r, next) /\ UNCHANGED <<method, secret, checkLocation, code, approved>>
        /\ proven \subseteq proven' /\ proven' \subseteq Secrets
        /\ req[r].pc = "pwd_subnets"
    BY <1>9 DEF CheckLoginSubnet, database, factor, Inv, TablesFit
  <2>2. next \in Request
    BY <1>9, <2>1, IdleFits DEF Request, PCs, Inv, TablesFit
  <2>3. req'[r] = next
    BY <2>1 DEF Become, Inv
  <2>4. /\ req'[r].pc = IF IsApproved(req[r].subnet) THEN "pwd_session" ELSE "pwd_recheck"
        /\ req'[r].subnet = req[r].subnet /\ req'[r].given = req[r].given
        /\ req'[r].stale = req[r].stale
    BY <2>1, <2>3 DEF Request, Idle
  <2>. HIDE DEF next
  <2>5. Fits(r)'
    BY <1>9, <2>1, <2>4
    DEF Fits, ParametersFit, Finite, Knows, ReadsHold, Earned, IsApproved
  <2>. QED BY <2>1, <2>2, <2>5, BecomeKeeps
<1>10. CASE RecheckLocation(r)
  <2>1. CASE checkLocation
    BY <1>10, <2>1, ReplyKeeps DEF RecheckLocation
  <2>2. CASE ~checkLocation
    <3>. DEFINE next == [req[r] EXCEPT !.pc = "pwd_session"]
    <3>1. /\ Become(r, next) /\ UNCHANGED <<method, secret, checkLocation, code, approved>>
          /\ proven \subseteq proven' /\ proven' \subseteq Secrets
          /\ req[r].pc = "pwd_recheck"
      BY <1>10, <2>2 DEF RecheckLocation, database, factor, Inv, TablesFit
    <3>2. next \in Request
      BY <1>10, <2>2, <3>1, IdleFits DEF Request, PCs, Inv, TablesFit
    <3>3. req'[r] = next
      BY <3>1 DEF Become, Inv
    <3>4. /\ req'[r].pc = "pwd_session" /\ req'[r].subnet = req[r].subnet
          /\ req'[r].given = req[r].given /\ req'[r].stale = req[r].stale
      BY <3>1, <3>3 DEF Request, Idle
    <3>. HIDE DEF next
    <3>5. Fits(r)'
      BY <1>10, <2>2, <3>1, <3>4
      DEF Fits, ParametersFit, Finite, Knows, ReadsHold, Earned
    <3>. QED BY <3>1, <3>2, <3>5, BecomeKeeps
  <2>. QED BY <2>1, <2>2
<1>11. CASE UpsertNewSubnet(r)
  <2>. DEFINE next == [req[r] EXCEPT !.pc = IF IsApproved(req[r].subnet) THEN "lnk_session"
                                                                 ELSE "ups_create"]
  <2>1. /\ Become(r, next) /\ UNCHANGED <<method, secret, checkLocation, code, approved>>
        /\ proven \subseteq proven' /\ proven' \subseteq Secrets
        /\ req[r].pc = "ups_find"
    BY <1>11 DEF UpsertNewSubnet, database, factor, Inv, TablesFit
  <2>2. next \in Request
    BY <1>11, <2>1, IdleFits DEF Request, PCs, Inv, TablesFit
  <2>3. req'[r] = next
    BY <2>1 DEF Become, Inv
  <2>4. /\ req'[r].pc = IF IsApproved(req[r].subnet) THEN "lnk_session" ELSE "ups_create"
        /\ req'[r].subnet = req[r].subnet /\ req'[r].given = req[r].given
        /\ req'[r].stale = req[r].stale
    BY <2>1, <2>3 DEF Request, Idle
  <2>. HIDE DEF next
  <2>5. Fits(r)'
    BY <1>11, <2>1, <2>4
    DEF Fits, ParametersFit, Finite, Knows, ReadsHold, Earned, IsApproved
  <2>. QED BY <2>1, <2>2, <2>5, BecomeKeeps
<1>12. CASE GiveCodes(r) \/ CreateSession(r) \/ Abort(r)
  BY <1>12, ReplyKeeps DEF GiveCodes, CreateSession, Abort
<1>13. CASE LoginUnasked(r)
  <2>. DEFINE next == [Idle EXCEPT !.pc = "any_session"]
  <2>1. /\ Become(r, next) /\ UNCHANGED <<method, secret, checkLocation, code, approved>>
        /\ proven \subseteq proven' /\ proven' \subseteq Secrets
    BY <1>13 DEF LoginUnasked, database, factor, Inv, TablesFit
  <2>2. next \in Request
    BY <1>13, <2>1, IdleFits DEF Request, PCs, Idle, Inv, TablesFit
  <2>3. req'[r] = next
    BY <2>1 DEF Become, Inv
  <2>4. /\ req'[r].pc = "any_session" /\ req'[r].given = {}
    BY <2>1, <2>3 DEF Request, Idle
  <2>. HIDE DEF next
  <2>5. Fits(r)'
    BY <1>13, <2>1, <2>4
    DEF Fits, ParametersFit, Finite, Knows, ReadsHold, Earned
  <2>. QED BY <2>1, <2>2, <2>5, BecomeKeeps
<1>. QED BY <1>1, <1>2, <1>3, <1>4, <1>5, <1>6, <1>7, <1>8, <1>9, <1>10, <1>11, <1>12, <1>13

----------------------------------------------------------------------------
(* The steps that write.                                                   *)

LEMMA SubnetWritten ==
  ASSUME Inv, NEW i \in Rows, NEW s \in Subnets, approved[i] = None,
         approved' = [approved EXCEPT ![i] = s],
         UNCHANGED <<method, secret, checkLocation, code>>
  PROVE  \A p \in Requests : p \in ReadersOf(s) \/ Intact(p)
<1>. SUFFICES ASSUME NEW p \in Requests, p \notin ReadersOf(s)
              PROVE  Intact(p)
  OBVIOUS
<1>1. ASSUME req[p].pc \in {"pwd_recheck", "pwd_session", "ups_create"}
      PROVE  IsApproved(req[p].subnet) <=> \E j \in Rows : approved'[j] = req[p].subnet
  <2>1. req[p].subnet # s /\ req[p].subnet # None
    BY <1>1, SignInAssumption DEF ReadersOf, SubnetReaders, At, Inv, Fits, ParametersFit
  <2>. QED BY <2>1 DEF IsApproved, Inv, TablesFit
<1>2. IsApproved(req[p].subnet) /\ req[p].pc = "lnk_session" =>
        \E j \in Rows : approved'[j] = req[p].subnet
  <2>1. req[p].pc = "lnk_session" => req[p].subnet # None
    BY SignInAssumption DEF Inv, Fits, ParametersFit
  <2>. QED BY <2>1 DEF IsApproved, Inv, TablesFit
<1>. QED BY <1>1, <1>2 DEF Intact, Stored

LEMMA SubnetDeleted ==
  ASSUME Inv, NEW i \in Rows, approved' = [approved EXCEPT ![i] = None],
         UNCHANGED <<method, secret, checkLocation, code>>
  PROVE  \A p \in Requests : p \in ReadersOf(approved[i]) \cup FollowersOf(approved[i]) \/ Intact(p)
<1>. SUFFICES ASSUME NEW p \in Requests, p \notin ReadersOf(approved[i]) \cup FollowersOf(approved[i])
              PROVE  Intact(p)
  OBVIOUS
<1>1. ASSUME req[p].pc \in {"pwd_recheck", "pwd_session", "ups_create"}
      PROVE  IsApproved(req[p].subnet) <=> \E j \in Rows : approved'[j] = req[p].subnet
  <2>1. req[p].subnet # approved[i] /\ req[p].subnet # None
    BY <1>1, SignInAssumption DEF ReadersOf, SubnetReaders, At, Inv, Fits, ParametersFit
  <2>. QED BY <2>1 DEF IsApproved, Inv, TablesFit
<1>2. IsApproved(req[p].subnet) /\ req[p].pc = "lnk_session" =>
        \E j \in Rows : approved'[j] = req[p].subnet
  <2>1. req[p].pc = "lnk_session" => req[p].subnet # approved[i]
    BY DEF FollowersOf, At
  <2>. QED BY <2>1 DEF IsApproved, Inv, TablesFit
<1>. QED BY <1>1, <1>2 DEF Intact, Stored

LEMMA WritersKeep ==
  ASSUME Inv, NEW r \in Requests, \/ (\E s \in Secrets : WriteSecret(r, s))
                               \/ WriteMethod(r) \/ WriteNoMethod(r)
                               \/ (\E m \in Methods \cup {"NONE"}, check \in BOOLEAN :
                                     UpdateUser(r, m, check))
                               \/ DeleteCodes(r) \/ (\E c \in Codes : CreateCode(r, c))
                               \/ MarkCode(r)
                               \/ (\E i \in Rows : ApproveNewSubnet(r, i))
                               \/ (\E i \in Rows, s \in Subnets : ApproveSubnet(r, i, s))
                               \/ (\E i \in Rows : DeleteApprovedSubnet(r, i))
  PROVE  Inv'
<1>. req \in [Requests -> Request] /\ req[r] \in Request /\ Fits(r) /\ TablesFit
  BY DEF Inv
<1>1. ASSUME NEW s \in Secrets, WriteSecret(r, s)
      PROVE  Inv'
  <2>1. /\ secret' = s /\ proven' = proven \ {s} /\ FreshSecret(s)
        /\ Commit(r, Idle, At({"enb_write", "otp_codes", "otp_mark", "otp_session"}))
        /\ UNCHANGED <<method, checkLocation, code, approved>>
    BY <1>1 DEF WriteSecret
  <2>2. TablesFit'
    BY <2>1 DEF TablesFit
  <2>3. ProofsStay
    BY <2>1 DEF ProofsStay, FreshSecret, Inv, Fits, ParametersFit
  <2>4. \A p \in Requests :
          p \in At({"enb_write", "otp_codes", "otp_mark", "otp_session"}) \/ Intact(p)
    BY <2>1 DEF At, Intact, IsApproved, Stored
  <2>5. Fits(r)'
    BY <2>1, IdleFits DEF Commit
  <2>. QED BY <2>1, <2>2, <2>3, <2>4, <2>5, IdleFits, CommitKeeps
<1>2. CASE WriteMethod(r)
  <2>. DEFINE next == [Idle EXCEPT !.pc = "gen_delete"]
  <2>1. /\ req[r].pc = "enb_write" /\ method' = req[r].method /\ secret' = req[r].secret
        /\ Commit(r, next, MethodReaders)
        /\ UNCHANGED <<proven, checkLocation, code, approved>>
    BY <1>2 DEF WriteMethod
  <2>2. TablesFit' /\ ProofsStay
    BY <2>1 DEF TablesFit, ProofsStay, Inv, Fits, ParametersFit
  <2>3. \A p \in Requests : p \in MethodReaders \/ Intact(p)
    BY <2>1 DEF MethodReaders, At, Intact, IsApproved, Stored
  <2>4. next \in Request
    BY IdleFits DEF Request, PCs, Idle
  <2>5. req'[r].pc = "gen_delete" /\ req'[r].given = {}
    BY <2>1 DEF Commit, Idle
  <2>. HIDE DEF next
  <2>6. Fits(r)'
    BY <2>5 DEF Fits, ParametersFit, Finite, Knows, ReadsHold, Earned
  <2>. QED BY <2>1, <2>2, <2>3, <2>4, <2>6, CommitKeeps
<1>3. CASE WriteNoMethod(r)
  <2>1. /\ method' = "NONE" /\ secret' = None /\ Commit(r, Idle, MethodReaders)
        /\ UNCHANGED <<proven, checkLocation, code, approved>>
    BY <1>3 DEF WriteNoMethod
  <2>2. TablesFit' /\ ProofsStay
    BY <2>1 DEF TablesFit, ProofsStay, Inv, Fits, ParametersFit
  <2>3. \A p \in Requests : p \in MethodReaders \/ Intact(p)
    BY <2>1 DEF MethodReaders, At, Intact, IsApproved, Stored
  <2>4. Fits(r)'
    BY <2>1, IdleFits DEF Commit
  <2>. QED BY <2>1, <2>2, <2>3, <2>4, IdleFits, CommitKeeps
<1>4. ASSUME NEW m \in Methods \cup {"NONE"}, NEW check \in BOOLEAN, UpdateUser(r, m, check)
      PROVE  Inv'
  <2>. DEFINE changed == (IF m # method THEN MethodReaders ELSE {})
                           \cup (IF check # checkLocation THEN LocationReaders ELSE {})
  <2>1. /\ method' = m /\ checkLocation' = check /\ Commit(r, Idle, changed)
        /\ UNCHANGED <<secret, proven, code, approved>>
    BY <1>4 DEF UpdateUser
  <2>2. TablesFit' /\ ProofsStay
    BY <2>1 DEF TablesFit, ProofsStay, Inv, Fits, ParametersFit
  <2>3. ASSUME NEW p \in Requests, p \notin changed
        PROVE  Intact(p)
    <3>1. m = method \/ p \notin MethodReaders
      BY <2>3
    <3>2. check = checkLocation \/ p \notin LocationReaders
      BY <2>3
    <3>. QED BY <2>1, <3>1, <3>2 DEF MethodReaders, LocationReaders, At, Intact, IsApproved, Stored
  <2>4. Fits(r)'
    BY <2>1, IdleFits DEF Commit
  <2>. HIDE DEF changed
  <2>. QED BY <2>1, <2>2, <2>3, <2>4, IdleFits, CommitKeeps
<1>5. CASE DeleteCodes(r)
  <2>. DEFINE next == [Idle EXCEPT !.pc = "gen_create", !.left = SetSize]
              changed == (IF Stored # {} THEN CodeMakers ELSE {}) \cup UsersOf(Stored)
  <2>1. /\ code' = [c \in Codes |-> "none"] /\ Commit(r, next, changed)
        /\ UNCHANGED <<method, secret, proven, checkLocation, approved>>
    BY <1>5 DEF DeleteCodes, factor
  <2>2. TablesFit' /\ ProofsStay
    BY <2>1 DEF TablesFit, ProofsStay, Inv, Fits, ParametersFit
  <2>3. Stored' = {}
    BY <2>1 DEF Stored
  <2>4. ASSUME NEW p \in Requests, p \notin changed
        PROVE  Intact(p)
    <3>1. req[p].pc = "gen_create" => Stored = {}
      BY <2>4 DEF CodeMakers, At
    <3>2. req[p].pc = "otp_mark" => req[p].code \notin Stored /\ req[p].code \in Codes
      BY <2>4 DEF UsersOf, Inv, Fits, ParametersFit
    <3>3. req[p].pc = "otp_mark" => code'[req[p].code] = code[req[p].code]
      BY <2>1, <3>2 DEF Stored
    <3>. QED BY <2>1, <2>3, <3>1, <3>3 DEF Intact, IsApproved
  <2>5. next \in Request
    <3>1. SetSize \in 0..SetSize
      BY SignInAssumption
    <3>. QED BY <3>1, IdleFits DEF Request, PCs, Idle
  <2>6. req'[r].pc = "gen_create" /\ req'[r].given = {} /\ req'[r].left = SetSize
    BY <2>1 DEF Commit, Idle
  <2>. HIDE DEF next, changed
  <2>7. IsFiniteSet({}) /\ Cardinality({}) + SetSize = SetSize
    BY FS_EmptySet, SignInAssumption
  <2>8. Fits(r)'
    BY <2>3, <2>6, <2>7 DEF Fits, ParametersFit, Finite, Knows, ReadsHold, Earned
  <2>. QED BY <2>1, <2>2, <2>4, <2>5, <2>8, CommitKeeps
<1>6. ASSUME NEW c \in Codes, CreateCode(r, c)
      PROVE  Inv'
  <2>. DEFINE q == req[r]
              next == [q EXCEPT !.left = @ - 1, !.given = @ \cup {c}]
  <2>1. /\ q.pc = "gen_create" /\ q.left > 0 /\ code[c] = "none"
        /\ \A p \in Requests : c # req[p].code /\ c \notin req[p].given
        /\ code' = [code EXCEPT ![c] = "fresh"] /\ Commit(r, next, CodeMakers)
        /\ UNCHANGED <<method, secret, proven, checkLocation, approved>>
    BY <1>6 DEF CreateCode, factor
  <2>2. TablesFit' /\ ProofsStay
    BY <2>1 DEF TablesFit, ProofsStay, Inv, Fits, ParametersFit
  <2>3. Stored' = Stored \cup {c}
    BY <2>1 DEF Stored, TablesFit
  <2>4. \A p \in Requests : p \in CodeMakers \/ Intact(p)
    <3>1. \A p \in Requests : req[p].pc = "otp_mark" => code'[req[p].code] = code[req[p].code]
      BY <2>1 DEF Inv, Fits, ParametersFit, TablesFit
    <3>. QED BY <2>1, <3>1 DEF CodeMakers, At, Intact, IsApproved
  <2>5. q.left \in 1..SetSize /\ q.left - 1 \in 0..SetSize
    BY <2>1, SignInAssumption DEF Request
  <2>6. next \in Request
    BY <2>5 DEF Request
  <2>7. /\ req'[r].pc = "gen_create" /\ req'[r].stale = q.stale
        /\ req'[r].given = q.given \cup {c} /\ req'[r].left = q.left - 1
    BY <2>1 DEF Commit, Request
  <2>. HIDE DEF next
  <2>8. /\ IsFiniteSet(q.given) /\ c \notin q.given
        /\ q.stale \/ (Stored = q.given /\ Cardinality(q.given) + q.left = SetSize)
    BY <2>1 DEF Fits, Finite, Knows, ReadsHold
  <2>9. /\ IsFiniteSet(q.given \cup {c}) /\ Cardinality(q.given \cup {c}) = Cardinality(q.given) + 1
        /\ Cardinality(q.given) \in Nat
    BY <2>8, FS_AddElement, FS_CardinalityType
  <2>10. q.stale \/ (Stored' = req'[r].given /\ Cardinality(req'[r].given) + req'[r].left = SetSize)
    BY <2>3, <2>5, <2>7, <2>8, <2>9
  <2>11. Fits(r)'
    BY <2>7, <2>9, <2>10 DEF Fits, ParametersFit, Finite, Knows, ReadsHold, Earned
  <2>. QED BY <2>1, <2>2, <2>4, <2>6, <2>11, CommitKeeps
<1>7. CASE MarkCode(r)
  <2>. DEFINE q == req[r]
              next == [q EXCEPT !.pc = "otp_session", !.code = None]
  <2>1. q.pc = "otp_mark" /\ q.code \in Codes
    BY <1>7 DEF MarkCode, Fits, ParametersFit
  <2>2. CASE code[q.code] = "none"
    BY <1>7, <2>2, ReplyKeeps DEF MarkCode, database, factor
  <2>3. CASE code[q.code] # "none"
    <3>1. /\ code' = [code EXCEPT ![q.code] = "used"] /\ Commit(r, next, UsersOf({q.code}))
          /\ UNCHANGED <<method, secret, proven, checkLocation, approved>>
      BY <1>7, <2>3 DEF MarkCode, factor
    <3>2. TablesFit' /\ ProofsStay
      BY <3>1 DEF TablesFit, ProofsStay, Inv, Fits, ParametersFit
    <3>3. Stored' = Stored
      BY <2>3, <3>1 DEF Stored, TablesFit
    <3>4. \A p \in Requests : p \in UsersOf({q.code}) \/ Intact(p)
      <4>1. \A p \in Requests : req[p].pc = "otp_mark" /\ req[p].code # q.code =>
              code'[req[p].code] = code[req[p].code]
        BY <3>1 DEF Inv, Fits, ParametersFit, TablesFit
      <4>. QED BY <3>1, <3>3, <4>1 DEF UsersOf, Intact, IsApproved
    <3>5. next \in Request
      BY DEF Request, PCs
    <3>6. /\ req'[r].pc = "otp_session" /\ req'[r].stale = q.stale
          /\ req'[r].given = q.given /\ req'[r].secret = q.secret
      BY <3>1 DEF Commit, Request
    <3>. HIDE DEF next
    <3>7. Fits(r)'
      BY <2>1, <3>1, <3>6 DEF Fits, ParametersFit, Finite, Knows, ReadsHold, Earned
    <3>. QED BY <3>1, <3>2, <3>4, <3>5, <3>7, CommitKeeps
  <2>. QED BY <2>2, <2>3
<1>8. ASSUME NEW i \in Rows, NEW s \in Subnets, s = req[r].subnet, ApproveNewSubnet(r, i)
      PROVE  Inv'
  <2>. DEFINE next == [req[r] EXCEPT !.pc = "lnk_session"]
  <2>1. /\ req[r].pc = "ups_create" /\ approved[i] = None /\ approved' = [approved EXCEPT ![i] = s]
        /\ Commit(r, next, ReadersOf(s))
        /\ UNCHANGED <<method, secret, proven, checkLocation, code>>
    BY <1>8 DEF ApproveNewSubnet, factor
  <2>2. TablesFit' /\ ProofsStay
    BY <2>1 DEF TablesFit, ProofsStay, Inv, Fits, ParametersFit
  <2>3. \A p \in Requests : p \in ReadersOf(s) \/ Intact(p)
    BY <2>1, SubnetWritten
  <2>4. next \in Request
    BY IdleFits DEF Request, PCs
  <2>5. req'[r].pc = "lnk_session" /\ req'[r].given = {} /\ req'[r].subnet = s
    BY <1>8, <2>1 DEF Commit, Request, Idle, Fits, ParametersFit
  <2>6. IsApproved(req[r].subnet)'
    BY <2>1, <2>5 DEF IsApproved, TablesFit
  <2>. HIDE DEF next
  <2>7. Fits(r)'
    BY <2>5, <2>6 DEF Fits, ParametersFit, Finite, Knows, ReadsHold, Earned
  <2>. QED BY <2>1, <2>2, <2>3, <2>4, <2>7, CommitKeeps
<1>9. ASSUME NEW i \in Rows, NEW s \in Subnets, ApproveSubnet(r, i, s)
      PROVE  Inv'
  <2>. DEFINE next == [Idle EXCEPT !.pc = "lnk_session", !.subnet = s]
  <2>1. /\ approved[i] = None /\ approved' = [approved EXCEPT ![i] = s]
        /\ Commit(r, next, ReadersOf(s))
        /\ UNCHANGED <<method, secret, proven, checkLocation, code>>
    BY <1>9 DEF ApproveSubnet, factor
  <2>2. TablesFit' /\ ProofsStay
    BY <2>1 DEF TablesFit, ProofsStay, Inv, Fits, ParametersFit
  <2>3. \A p \in Requests : p \in ReadersOf(s) \/ Intact(p)
    BY <2>1, SubnetWritten
  <2>4. next \in Request
    BY IdleFits DEF Request, PCs, Idle
  <2>5. req'[r].pc = "lnk_session" /\ req'[r].given = {} /\ req'[r].subnet = s
    BY <1>9, <2>1 DEF Commit, Request, Idle, Fits, ParametersFit
  <2>6. IsApproved(req[r].subnet)'
    BY <2>1, <2>5 DEF IsApproved, TablesFit
  <2>. HIDE DEF next
  <2>7. Fits(r)'
    BY <2>5, <2>6 DEF Fits, ParametersFit, Finite, Knows, ReadsHold, Earned
  <2>. QED BY <2>1, <2>2, <2>3, <2>4, <2>7, CommitKeeps
<1>10. ASSUME NEW i \in Rows, DeleteApprovedSubnet(r, i)
      PROVE  Inv'
  <2>1. /\ approved[i] # None /\ approved' = [approved EXCEPT ![i] = None]
        /\ Commit(r, Idle, ReadersOf(approved[i]) \cup FollowersOf(approved[i]))
        /\ UNCHANGED <<method, secret, proven, checkLocation, code>>
    BY <1>10 DEF DeleteApprovedSubnet, factor
  <2>2. TablesFit' /\ ProofsStay
    BY <2>1 DEF TablesFit, ProofsStay, Inv, Fits, ParametersFit
  <2>3. \A p \in Requests :
          p \in ReadersOf(approved[i]) \cup FollowersOf(approved[i]) \/ Intact(p)
    BY <2>1, SubnetDeleted
  <2>4. Fits(r)'
    BY <2>1, IdleFits DEF Commit
  <2>. QED BY <2>1, <2>2, <2>3, <2>4, IdleFits, CommitKeeps
<1>11. \A i \in Rows : ApproveNewSubnet(r, i) => req[r].subnet \in Subnets
  BY DEF ApproveNewSubnet, Fits, ParametersFit
<1>. QED BY <1>1, <1>2, <1>3, <1>4, <1>5, <1>6, <1>7, <1>8, <1>9, <1>10, <1>11


----------------------------------------------------------------------------
LEMMA NextKeeps ==
  ASSUME Inv, [Next]_vars
  PROVE  Inv'
<1>1. CASE UNCHANGED vars
  <2>1. \A r \in Requests : Fits(r)'
    BY <1>1 DEF vars, Inv, Fits, ParametersFit, Finite, Knows, ReadsHold, Earned, Stored, IsApproved
  <2>. QED BY <1>1, <2>1 DEF vars, Inv, TablesFit
<1>2. ASSUME NEW r \in Requests, Arrive(r) \/ Resume(r) \/ Abort(r)
      PROVE  Inv'
  BY <1>2, ReadersKeep, WritersKeep DEF Arrive, Resume
<1>. QED BY <1>1, <1>2 DEF Next

LEMMA InitFits == Init => Inv
<1>. SUFFICES ASSUME Init PROVE Inv
  OBVIOUS
<1>1. TablesFit
  BY DEF Init, TablesFit
<1>2. req \in [Requests -> Request] /\ \A r \in Requests : req[r] = Idle
  BY IdleFits DEF Init
<1>3. \A r \in Requests : Fits(r)
  BY <1>2 DEF Idle, Fits, ParametersFit, Finite, Knows, ReadsHold, Earned
<1>. QED BY <1>1, <1>2, <1>3 DEF Inv

LEMMA AlwaysInv == Spec => []Inv
  BY InitFits, NextKeeps, PTL DEF Spec

\* What the handlers of the second factor, of the backup codes and of the approved
\* subnets have read holds when they act on it, unless they were overtaken.
THEOREM SignInCorrect == Spec => []SignInInv
<1>1. Inv => SignInInv
  BY InvGives
<1>. QED BY <1>1, AlwaysInv, PTL

\* A sign-in gets its session for what its way to sign in asks for, unless it was
\* overtaken: a password alone with the factor off and from an approved subnet or with
\* the check off (checkLoginSubnet), a code (loginUserWithTotpCode), a link from a subnet
\* that is approved by then (upsertNewSubnet, approveNewSubnet).  Links are asked no
\* second factor: of them it says no more.
THEOREM SessionsCorrect == Spec => []SessionsEarned
<1>1. Inv => SessionsEarned
  BY InvGives
<1>. QED BY <1>1, AlwaysInv, PTL

----------------------------------------------------------------------------
(* Who may lock the user out.                                              *)

LEMMA LockStep ==
  ASSUME Inv, Inv', NEW r \in Requests, Arrive(r) \/ Resume(r) \/ Abort(r), Locked', ~Locked
  PROVE  \/ \E m \in Methods, check \in BOOLEAN : UpdateUser(r, m, check)
         \/ Acts(r) /\ req[r].pc = "req_write" /\ req[r].stale
<1>. /\ req \in [Requests -> Request] /\ req[r] \in Request /\ ParametersFit(req[r])
     /\ req[r].stale \/ ReadsHold(req[r])
  BY DEF Inv, Fits, Knows
<1>1. method' # "NONE" /\ secret' \notin proven' /\ (method = "NONE" \/ secret \in proven)
  BY DEF Locked
<1>2. ASSUME UNCHANGED <<method, secret>>, proven \subseteq proven'
      PROVE  FALSE
  BY <1>1, <1>2
<1>3. CASE \/ RequestMfa(r) \/ DisableMfa(r) \/ RegenerateBackupCodes(r)
           \/ LoginUserWithTotpCode(r) \/ LoginUnasked(r) \/ (\E m \in Methods : EnableMfaMethod(r, m))
           \/ (\E s \in Subnets : LoginWithPassword(r, s) \/ FollowLink(r, s))
           \/ (\E i \in Rows, s \in Subnets : ApproveSubnet(r, i, s))
           \/ (\E i \in Rows : DeleteApprovedSubnet(r, i))
  BY <1>2, <1>3 DEF RequestMfa, DisableMfa, RegenerateBackupCodes, LoginUserWithTotpCode,
     LoginUnasked, EnableMfaMethod, LoginWithPassword, FollowLink, ApproveSubnet, DeleteApprovedSubnet,
     database, factor
<1>4. CASE \/ DeleteCodes(r) \/ GiveCodes(r) \/ MarkCode(r) \/ CheckLoginSubnet(r)
           \/ (\E c \in Codes : CreateCode(r, c) \/ FindBackupCode(r, c))
           \/ RecheckLocation(r) \/ CreateSession(r) \/ UpsertNewSubnet(r) \/ Abort(r)
           \/ (\E i \in Rows : ApproveNewSubnet(r, i))
  BY <1>2, <1>4 DEF DeleteCodes, GiveCodes, MarkCode, CheckLoginSubnet, CreateCode, FindBackupCode,
     RecheckLocation, CreateSession, UpsertNewSubnet, Abort, ApproveNewSubnet, database, factor
<1>5. ASSUME NEW m \in Methods \cup {"NONE"}, NEW check \in BOOLEAN, UpdateUser(r, m, check)
      PROVE  m \in Methods
  BY <1>1, <1>5 DEF UpdateUser
<1>6. ASSUME NEW s \in Secrets, WriteSecret(r, s)
      PROVE  Acts(r) /\ req[r].pc = "req_write" /\ req[r].stale
  <2>1. req[r].pc = "req_write" /\ method' = method /\ req'[r] = Idle
    BY <1>6 DEF WriteSecret, Commit
  <2>2. req[r].stale
    BY <1>1, <2>1 DEF ReadsHold
  <2>. QED BY <2>1, <2>2, IdleFits DEF Acts
<1>7. ~WriteMethod(r) /\ ~WriteNoMethod(r)
  BY <1>1 DEF WriteMethod, WriteNoMethod, ParametersFit
<1>. QED BY <1>3, <1>4, <1>5, <1>6, <1>7 DEF Arrive, Resume

\* A user is locked out by a second factor it has shown no code of only by PATCH of
\* twoFactorMethod, or by an overtaken request for a new secret.
THEOREM LockedCorrect == Spec => SecretIsProven
<1>1. Inv /\ Inv' /\ [Next]_vars =>
        [Locked' /\ ~Locked =>
           \/ \E r \in Requests, m \in Methods, check \in BOOLEAN : UpdateUser(r, m, check)
           \/ \E r \in Requests : Acts(r) /\ req[r].pc = "req_write" /\ req[r].stale]_vars
  BY LockStep DEF Next
<1>. QED BY <1>1, AlwaysInv, PTL DEF Spec, SecretIsProven

\* regenerateBackupCodes answers with the codes there are, SetSize of them, unless
\* another run came in between.
THEOREM RegenerationCorrect == Spec => RegenerationLeavesItsCodes
<1>1. ASSUME Inv, NEW r \in Requests, GiveCodes(r)
      PROVE  req[r].stale \/ (Stored = req[r].given /\ Cardinality(Stored) = SetSize)
  <2>1. /\ req[r].pc = "gen_create" /\ req[r].left = 0 /\ IsFiniteSet(req[r].given)
        /\ \/ req[r].stale
           \/ Stored = req[r].given /\ Cardinality(req[r].given) + req[r].left = SetSize
    BY <1>1 DEF GiveCodes, Inv, Fits, Finite, Knows, ReadsHold
  <2>2. Cardinality(req[r].given) \in Nat
    BY <2>1, FS_CardinalityType
  <2>. QED BY <2>1, <2>2
<1>2. Inv /\ [Next]_vars =>
        [\A r \in Requests :
           GiveCodes(r) => req[r].stale \/ (Stored = req[r].given
                                              /\ Cardinality(Stored) = SetSize)]_vars
  BY <1>1
<1>. QED BY <1>2, AlwaysInv, PTL DEF Spec, RegenerationLeavesItsCodes

----------------------------------------------------------------------------
(* Requests served one at a time: stale stands for nothing but races.      *)

\* A request takes the step, and no other is in flight.
OneAtATime ==
  \E r \in Requests : /\ Arrive(r) \/ Resume(r) \/ Abort(r)
                      /\ \A p \in Requests \ {r} : req[p] = Idle

NoneStale == \A r \in Requests : ~req[r].stale

\* A request that is not stale, with other fields changed.
LEMMA FieldsLeaveStale ==
  ASSUME NEW q \in Request, ~q.stale
  PROVE  \A a, b, c :
           /\ ~[q EXCEPT !.pc = a].stale
           /\ ~[q EXCEPT !.pc = a, !.left = b].stale
           /\ ~[q EXCEPT !.pc = a, !.code = b].stale
           /\ ~[q EXCEPT !.pc = a, !.secret = b].stale
           /\ ~[q EXCEPT !.pc = a, !.subnet = b].stale
           /\ ~[q EXCEPT !.left = a, !.given = b].stale
           /\ ~[q EXCEPT !.pc = a, !.method = b, !.secret = c].stale
  BY DEF Request

LEMMA BecomeIsFresh ==
  ASSUME Inv, NoneStale, NEW r \in Requests, NEW next, Become(r, next), ~next.stale
  PROVE  NoneStale'
  BY DEF Inv, NoneStale, Become

\* Those that a step makes stale are in flight.
LEMMA CommitIsFresh ==
  ASSUME Inv, NoneStale, NEW r \in Requests, \A p \in Requests \ {r} : req[p] = Idle,
         NEW next, NEW changed, Commit(r, next, changed), ~next.stale,
         \A p \in changed : req[p].pc # "idle"
  PROVE  NoneStale'
<1>1. ASSUME NEW p \in Requests \ {r}
      PROVE  ~req'[p].stale
  <2>1. p \notin changed
    BY IdleFits
  <2>2. req'[p].stale = (req[p].stale \/ p \in changed)
    BY DEF Commit, Inv, Request
  <2>. QED BY <2>1, <2>2 DEF NoneStale
<1>. QED BY <1>1 DEF Commit, NoneStale

LEMMA ReadersAreInFlight ==
  /\ \A p \in MethodReaders \cup CodeMakers \cup LocationReaders : req[p].pc # "idle"
  /\ \A p \in At({"enb_write", "otp_codes", "otp_mark", "otp_session"}) : req[p].pc # "idle"
  /\ \A codes : \A p \in UsersOf(codes) : req[p].pc # "idle"
  /\ \A s : \A p \in ReadersOf(s) \cup FollowersOf(s) : req[p].pc # "idle"
  BY DEF MethodReaders, CodeMakers, LocationReaders, UsersOf, ReadersOf, SubnetReaders,
     FollowersOf, At

LEMMA ArriveIsFresh ==
  ASSUME Inv, NoneStale, NEW r \in Requests, \A p \in Requests \ {r} : req[p] = Idle, Arrive(r)
  PROVE  NoneStale'
<1>. Idle \in Request /\ ~Idle.stale
  BY IdleFits DEF Idle
<1>1. CASE RequestMfa(r)
  BY <1>1, BecomeIsFresh, FieldsLeaveStale DEF RequestMfa
<1>2. ASSUME NEW m \in Methods, EnableMfaMethod(r, m)
      PROVE  NoneStale'
  BY <1>2, BecomeIsFresh, FieldsLeaveStale DEF EnableMfaMethod
<1>3. CASE DisableMfa(r) \/ RegenerateBackupCodes(r) \/ LoginUnasked(r)
  BY <1>3, BecomeIsFresh, FieldsLeaveStale DEF DisableMfa, RegenerateBackupCodes, LoginUnasked
<1>4. ASSUME NEW m \in Methods \cup {"NONE"}, NEW check \in BOOLEAN, UpdateUser(r, m, check)
      PROVE  NoneStale'
  <2>. DEFINE changed == (IF m # method THEN MethodReaders ELSE {})
                           \cup (IF check # checkLocation THEN LocationReaders ELSE {})
  <2>1. \A p \in changed : req[p].pc # "idle"
    BY ReadersAreInFlight
  <2>2. Commit(r, Idle, changed)
    BY <1>4 DEF UpdateUser
  <2>. QED BY <2>1, <2>2, CommitIsFresh
<1>5. CASE LoginUserWithTotpCode(r)
  BY <1>5, BecomeIsFresh, FieldsLeaveStale DEF LoginUserWithTotpCode
<1>6. ASSUME NEW s \in Subnets, LoginWithPassword(r, s)
      PROVE  NoneStale'
  <2>1. \A pc : ~[Idle EXCEPT !.pc = pc, !.subnet = s].stale
    BY FieldsLeaveStale
  <2>. QED BY <1>6, <2>1, BecomeIsFresh DEF LoginWithPassword
<1>7. ASSUME NEW s \in Subnets, FollowLink(r, s)
      PROVE  NoneStale'
  BY <1>7, BecomeIsFresh, FieldsLeaveStale DEF FollowLink
<1>8. ASSUME NEW i \in Rows, NEW s \in Subnets, ApproveSubnet(r, i, s)
      PROVE  NoneStale'
  BY <1>8, CommitIsFresh, FieldsLeaveStale, ReadersAreInFlight DEF ApproveSubnet
<1>9. ASSUME NEW i \in Rows, DeleteApprovedSubnet(r, i)
      PROVE  NoneStale'
  BY <1>9, CommitIsFresh, ReadersAreInFlight DEF DeleteApprovedSubnet
<1>. QED BY <1>1, <1>2, <1>3, <1>4, <1>5, <1>6, <1>7, <1>8, <1>9 DEF Arrive

LEMMA ResumeIsFresh ==
  ASSUME Inv, NoneStale, NEW r \in Requests, \A p \in Requests \ {r} : req[p] = Idle, Resume(r)
  PROVE  NoneStale'
<1>. Idle \in Request /\ ~Idle.stale /\ req[r] \in Request /\ ~req[r].stale
  BY IdleFits DEF Idle, Inv, NoneStale
<1>1. ASSUME NEW s \in Secrets, WriteSecret(r, s)
      PROVE  NoneStale'
  BY <1>1, CommitIsFresh, ReadersAreInFlight DEF WriteSecret
<1>2. CASE WriteMethod(r)
  BY <1>2, CommitIsFresh, FieldsLeaveStale, ReadersAreInFlight DEF WriteMethod
<1>3. CASE WriteNoMethod(r)
  BY <1>3, CommitIsFresh, ReadersAreInFlight DEF WriteNoMethod
<1>4. CASE DeleteCodes(r)
  <2>. DEFINE changed == (IF Stored # {} THEN CodeMakers ELSE {}) \cup UsersOf(Stored)
  <2>1. \A p \in changed : req[p].pc # "idle"
    BY ReadersAreInFlight
  <2>2. Commit(r, [Idle EXCEPT !.pc = "gen_create", !.left = SetSize], changed)
    BY <1>4 DEF DeleteCodes
  <2>. QED BY <2>1, <2>2, CommitIsFresh, FieldsLeaveStale
<1>5. CASE GiveCodes(r) \/ CreateSession(r)
  BY <1>5, BecomeIsFresh DEF GiveCodes, CreateSession, Reply
<1>6. ASSUME NEW c \in Codes, CreateCode(r, c)
      PROVE  NoneStale'
  BY <1>6, CommitIsFresh, FieldsLeaveStale, ReadersAreInFlight DEF CreateCode
<1>7. ASSUME NEW c \in Codes, FindBackupCode(r, c)
      PROVE  NoneStale'
  BY <1>7, BecomeIsFresh, FieldsLeaveStale DEF FindBackupCode, Reply
<1>8. CASE MarkCode(r)
  <2>. DEFINE next == [req[r] EXCEPT !.pc = "otp_session", !.code = None]
  <2>1. ~next.stale
    BY FieldsLeaveStale
  <2>2. Commit(r, next, UsersOf({req[r].code})) \/ Become(r, Idle)
    BY <1>8 DEF MarkCode, Reply
  <2>. HIDE DEF next
  <2>. QED BY <2>1, <2>2, BecomeIsFresh, CommitIsFresh, ReadersAreInFlight
<1>9. CASE CheckLoginSubnet(r) \/ UpsertNewSubnet(r)
  <2>1. \A pc : ~[req[r] EXCEPT !.pc = pc].stale
    BY FieldsLeaveStale
  <2>. QED BY <1>9, <2>1, BecomeIsFresh DEF CheckLoginSubnet, UpsertNewSubnet
<1>10. CASE RecheckLocation(r)
  BY <1>10, BecomeIsFresh, FieldsLeaveStale DEF RecheckLocation, Reply
<1>11. ASSUME NEW i \in Rows, ApproveNewSubnet(r, i)
       PROVE  NoneStale'
  BY <1>11, CommitIsFresh, FieldsLeaveStale, ReadersAreInFlight DEF ApproveNewSubnet
<1>. QED
  BY <1>1, <1>2, <1>3, <1>4, <1>5, <1>6, <1>7, <1>8, <1>9, <1>10, <1>11 DEF Resume

\* Of requests served one at a time none is ever stale.
LEMMA NoneIsOvertaken == Spec /\ [][OneAtATime]_vars => []NoneStale
<1>1. Init => NoneStale
  BY DEF Init, NoneStale, Idle
<1>2. Inv /\ NoneStale /\ [OneAtATime]_vars => NoneStale'
  <2>1. ASSUME Inv, NoneStale, NEW r \in Requests, Abort(r)
        PROVE  NoneStale'
    BY <2>1, BecomeIsFresh DEF Abort, Reply, Idle
  <2>2. UNCHANGED vars /\ NoneStale => NoneStale'
    BY DEF vars, NoneStale
  <2>. QED BY <2>1, <2>2, ArriveIsFresh, ResumeIsFresh DEF OneAtATime
<1>. QED BY <1>1, <1>2, AlwaysInv, PTL DEF Spec

\* Served one at a time, every sign-in about to get its session has given what its way
\* to sign in asks for at that moment (checkLoginSubnet, loginUserWithTotpCode, and of
\* links, which are asked no second factor, upsertNewSubnet and approveNewSubnet), and no
\* used backup code gets that far: what SessionsEarned leaves open comes of races alone.
THEOREM EarnedOneAtATime ==
  Spec /\ [][OneAtATime]_vars => [](\A r \in Requests : Earned(req[r]))
<1>1. SessionsEarned /\ NoneStale => \A r \in Requests : Earned(req[r])
  BY DEF SessionsEarned, NoneStale
<1>. QED BY <1>1, SessionsCorrect, NoneIsOvertaken, PTL

\* Served one at a time, only a PATCH of twoFactorMethod locks the user out.
THEOREM LockedOneAtATime ==
  Spec /\ [][OneAtATime]_vars =>
    [][Locked' /\ ~Locked =>
         \E r \in Requests, m \in Methods, check \in BOOLEAN : UpdateUser(r, m, check)]_vars
<1>1. NoneStale /\ [Locked' /\ ~Locked =>
        \/ \E r \in Requests, m \in Methods, check \in BOOLEAN : UpdateUser(r, m, check)
        \/ \E r \in Requests : Acts(r) /\ req[r].pc = "req_write" /\ req[r].stale]_vars =>
      [Locked' /\ ~Locked =>
         \E r \in Requests, m \in Methods, check \in BOOLEAN : UpdateUser(r, m, check)]_vars
  BY DEF NoneStale
<1>. QED BY <1>1, LockedCorrect, NoneIsOvertaken, PTL DEF SecretIsProven
=============================================================================
