------------------------------- MODULE SignIn -------------------------------
(***************************************************************************)
(* The second factor, the backup codes and the approved subnets of one     *)
(* user, and the ways to sign in, those that ask for them and those that   *)
(* do not (multi-factor-authentication.service.ts, auth.service.ts,        *)
(* approved-subnets.service.ts).  Users share none of this, so one user is *)
(* enough; it stays, and merging it with another is left out.              *)
(*                                                                         *)
(* A request in flight is a record whose pc names the database call it is  *)
(* about to make.  Comparing with bcrypt takes time but changes nothing:   *)
(* it belongs to the read before it.                                       *)
(***************************************************************************)
EXTENDS Naturals, FiniteSets

CONSTANTS
  Methods,    \* the second factors: TOTP, SMS, EMAIL
  Secrets,    \* secrets of authenticators
  Codes,      \* backup codes
  SetSize,    \* how many backup codes are made at a time (10)
  Subnets,    \* anonymized addresses
  Rows,       \* ids of approved subnets
  Requests,   \* slots for requests in flight
  None        \* null or no row

ASSUME SignInAssumption ==
  /\ Methods \subseteq {"TOTP", "SMS", "EMAIL"}
  /\ SetSize \in Nat \ {0}
  /\ None \notin Secrets \cup Codes \cup Subnets \cup Rows

VARIABLES
  method,        \* twoFactorMethod
  secret,        \* twoFactorSecret
  proven,        \* history: the secrets a code of which has been checked
  checkLocation, \* checkLocationOnLogin
  code,          \* table BackupCode: "none" without a row
  approved,      \* table ApprovedSubnet, by id
  req            \* requests in flight

vars == <<method, secret, proven, checkLocation, code, approved, req>>

factor == <<method, secret, proven>>
database == <<factor, checkLocation, code, approved>>

Stored == {c \in Codes : code[c] # "none"}
IsApproved(s) == \E i \in Rows : approved[i] = s

Idle == [pc |-> "idle", method |-> None, secret |-> None, left |-> 0, given |-> {},
         code |-> None, subnet |-> None, stale |-> FALSE]

PCs == {"idle", "req_write", "enb_write", "dis_write", "gen_delete", "gen_create",
        "otp_codes", "otp_mark", "pwd_subnets", "pwd_recheck", "pwd_session", "otp_session",
        "ups_find", "ups_create", "lnk_session", "any_session"}

Request == [pc : PCs, method : Methods \cup {None}, secret : Secrets \cup {None},
            left : 0..SetSize, given : SUBSET Codes, code : Codes \cup {None},
            subnet : Subnets \cup {None}, stale : BOOLEAN]

TypeOK ==
  /\ method \in Methods \cup {"NONE"}
  /\ secret \in Secrets \cup {None}
  /\ proven \subseteq Secrets
  /\ checkLocation \in BOOLEAN
  /\ code \in [Codes -> {"none", "fresh", "used"}]
  /\ approved \in [Rows -> Subnets \cup {None}]
  /\ req \in [Requests -> Request]

\* A new user: no second factor, and the address it registered from approved.
Init ==
  /\ method = "NONE"
  /\ secret = None
  /\ proven = {}
  /\ checkLocation = TRUE
  /\ code = [c \in Codes |-> "none"]
  /\ \E i \in Rows, s \in Subnets : approved = [j \in Rows |-> IF j = i THEN s ELSE None]
  /\ req = [r \in Requests |-> Idle]

----------------------------------------------------------------------------
(* How a step of request r ends.  The history field stale of the others    *)
(* records that what they have read, and still act on, has changed.        *)

Become(r, next) == req' = [req EXCEPT ![r] = next]
Reply(r) == Become(r, Idle)

\* Of a step that ends in next and makes the requests changed stale.
Commit(r, next, changed) ==
  req' = [p \in Requests |->
            IF p = r THEN next
            ELSE [req[p] EXCEPT !.stale = @ \/ p \in changed]]

At(pcs) == {r \in Requests : req[r].pc \in pcs}

MethodReaders == At({"req_write", "enb_write", "dis_write", "otp_codes", "otp_mark",
                     "otp_session", "pwd_subnets", "pwd_recheck", "pwd_session"})
CodeMakers == At({"gen_create"})
UsersOf(codes) == {r \in Requests : req[r].pc = "otp_mark" /\ req[r].code \in codes}
SubnetReaders == At({"pwd_recheck", "pwd_session", "ups_create"})
LocationReaders == At({"pwd_subnets", "pwd_recheck", "pwd_session"})

\* A random secret that nobody has.
FreshSecret(s) == s # secret /\ \A r \in Requests : req[r].secret # s

----------------------------------------------------------------------------
(* Turning the second factor on and off                                    *)

\* requestTotpMfa, requestSmsMfa and requestEmailMfa, which refuse while a factor
\* is on: MFA_ENABLED_CONFLICT.
RequestMfa(r) ==
  /\ req[r] = Idle
  /\ method = "NONE"
  /\ Become(r, [Idle EXCEPT !.pc = "req_write"])
  /\ UNCHANGED database

WriteSecret(r, s) ==
  /\ req[r].pc = "req_write"
  /\ FreshSecret(s)
  /\ secret' = s
  /\ proven' = proven \ {s}
  /\ Commit(r, Idle, At({"enb_write", "otp_codes", "otp_mark", "otp_session"}))
  /\ UNCHANGED <<method, checkLocation, code, approved>>

\* Mutant: the code is not checked.
EnableMfaMethodUnchecked(r, m) ==
  /\ req[r] = Idle
  /\ method = "NONE"
  /\ secret # None
  /\ Become(r, [Idle EXCEPT !.pc = "enb_write", !.method = m, !.secret = secret])
  /\ UNCHANGED database

\* enableMfaMethod checks a code of the user against the secret it reads; there is
\* none for a secret the user has not been given.
EnableMfaMethod(r, m) ==
  /\ req[r] = Idle
  /\ method = "NONE"
  /\ secret # None
  /\ proven' = proven \cup {secret}
  /\ Become(r, [Idle EXCEPT !.pc = "enb_write", !.method = m, !.secret = secret])
  /\ UNCHANGED <<method, secret, checkLocation, code, approved>>

WriteMethod(r) ==
  LET q == req[r] IN
  /\ q.pc = "enb_write"
  /\ method' = q.method
  /\ secret' = q.secret
  /\ Commit(r, [Idle EXCEPT !.pc = "gen_delete"], MethodReaders)
  /\ UNCHANGED <<proven, checkLocation, code, approved>>

DisableMfa(r) ==
  /\ req[r] = Idle
  /\ method # "NONE"
  /\ Become(r, [Idle EXCEPT !.pc = "dis_write"])
  /\ UNCHANGED database

WriteNoMethod(r) ==
  /\ req[r].pc = "dis_write"
  /\ method' = "NONE"
  /\ secret' = None
  /\ Commit(r, Idle, MethodReaders)
  /\ UNCHANGED <<proven, checkLocation, code, approved>>

\* updateUser: the fields of UpdateUserDto that matter here, written as they come.
UpdateUser(r, m, check) ==
  /\ req[r] = Idle
  /\ m # "SMS"
  /\ method' = m
  /\ checkLocation' = check
  /\ Commit(r, Idle, (IF m # method THEN MethodReaders ELSE {})
                       \cup (IF check # checkLocation THEN LocationReaders ELSE {}))
  /\ UNCHANGED <<secret, proven, code, approved>>

----------------------------------------------------------------------------
(* Backup codes                                                            *)

RegenerateBackupCodes(r) ==
  /\ req[r] = Idle
  /\ Become(r, [Idle EXCEPT !.pc = "gen_delete"])
  /\ UNCHANGED database

\* Mutant: the old codes stay.
DeleteNoCodes(r) ==
  /\ req[r].pc = "gen_delete"
  /\ Become(r, [Idle EXCEPT !.pc = "gen_create", !.left = SetSize])
  /\ UNCHANGED database

DeleteCodes(r) ==
  /\ req[r].pc = "gen_delete"
  /\ code' = [c \in Codes |-> "none"]
  /\ Commit(r, [Idle EXCEPT !.pc = "gen_create", !.left = SetSize],
            (IF Stored # {} THEN CodeMakers ELSE {}) \cup UsersOf(Stored))
  /\ UNCHANGED <<factor, checkLocation, approved>>

\* A random code that nobody holds.
CreateCode(r, c) ==
  LET q == req[r] IN
  /\ q.pc = "gen_create"
  /\ q.left > 0
  /\ code[c] = "none"
  /\ \A p \in Requests : c # req[p].code /\ c \notin req[p].given
  /\ code' = [code EXCEPT ![c] = "fresh"]
  /\ Commit(r, [q EXCEPT !.left = @ - 1, !.given = @ \cup {c}], CodeMakers)
  /\ UNCHANGED <<factor, checkLocation, approved>>

GiveCodes(r) ==
  /\ req[r].pc = "gen_create"
  /\ req[r].left = 0
  /\ Reply(r)
  /\ UNCHANGED database

----------------------------------------------------------------------------
(* Signing in with a code: loginWithTotp, or with a password and a code.   *)

\* A code of the authenticator is accepted at once; another may be a backup code.
LoginUserWithTotpCode(r) ==
  /\ req[r] = Idle
  /\ method # "NONE" /\ secret # None             \* MFA_NOT_ENABLED
  /\ \E pc \in {"otp_session", "otp_codes"} :
       Become(r, [Idle EXCEPT !.pc = pc, !.secret = secret])
  /\ UNCHANGED database

FindBackupCode(r, c) ==
  /\ req[r].pc = "otp_codes"
  /\ IF code[c] = "fresh"
       THEN Become(r, [req[r] EXCEPT !.pc = "otp_mark", !.code = c])
       ELSE Reply(r)                    \* MFA_BACKUP_CODE_USED, INVALID_MFA_CODE
  /\ UNCHANGED database

\* Fails when the code is gone.
MarkCode(r) ==
  LET q == req[r] IN
  /\ q.pc = "otp_mark"
  /\ IF code[q.code] # "none"
       THEN /\ code' = [code EXCEPT ![q.code] = "used"]
            /\ Commit(r, [q EXCEPT !.pc = "otp_session", !.code = None], UsersOf({q.code}))
       ELSE Reply(r) /\ UNCHANGED code
  /\ UNCHANGED <<factor, checkLocation, approved>>

----------------------------------------------------------------------------
(* Signing in with a password, from a subnet.                              *)

\* Mutant: the second factor is not asked for.
LoginWithPasswordOnly(r, s) ==
  /\ req[r] = Idle
  /\ Become(r, [Idle EXCEPT !.pc = IF checkLocation THEN "pwd_subnets" ELSE "pwd_session",
                            !.subnet = s])
  /\ UNCHANGED database

\* With a factor on, the answer is a token that asks for a code (mfaResponse).
LoginWithPassword(r, s) ==
  /\ req[r] = Idle
  /\ method = "NONE"
  /\ Become(r, [Idle EXCEPT !.pc = IF checkLocation THEN "pwd_subnets" ELSE "pwd_session",
                            !.subnet = s])
  /\ UNCHANGED database

CheckLoginSubnet(r) ==
  LET q == req[r] IN
  /\ q.pc = "pwd_subnets"
  /\ Become(r, [q EXCEPT !.pc = IF IsApproved(q.subnet) THEN "pwd_session" ELSE "pwd_recheck"])
  /\ UNCHANGED database

\* checkLoginSubnet reads the user again before it sends the link and refuses.
RecheckLocation(r) ==
  /\ req[r].pc = "pwd_recheck"
  /\ IF checkLocation
       THEN Reply(r)                              \* UNVERIFIED_LOCATION
       ELSE Become(r, [req[r] EXCEPT !.pc = "pwd_session"])
  /\ UNCHANGED database

\* loginResponse, at the end of every way to sign in.
CreateSession(r) ==
  /\ req[r].pc \in {"pwd_session", "otp_session", "lnk_session", "any_session"}
  /\ Reply(r)
  /\ UNCHANGED database

----------------------------------------------------------------------------
(* Links from a mail, and approved subnets.  Nothing here looks at the     *)
(* second factor.                                                          *)

\* verifyEmail and thirdPartyLogin: a session for who has the link, or an account
\* of the third party.
LoginUnasked(r) ==
  /\ req[r] = Idle
  /\ Become(r, [Idle EXCEPT !.pc = "any_session"])
  /\ UNCHANGED database

\* loginWithEmailToken, and resetPassword once the password is written.
FollowLink(r, s) ==
  /\ req[r] = Idle
  /\ Become(r, [Idle EXCEPT !.pc = "ups_find", !.subnet = s])
  /\ UNCHANGED database

\* Mutant: the subnet is added without a look for it.
UpsertBlindly(r) ==
  /\ req[r].pc = "ups_find"
  /\ Become(r, [req[r] EXCEPT !.pc = "ups_create"])
  /\ UNCHANGED database

UpsertNewSubnet(r) ==
  LET q == req[r] IN
  /\ q.pc = "ups_find"
  /\ Become(r, [q EXCEPT !.pc = IF IsApproved(q.subnet) THEN "lnk_session" ELSE "ups_create"])
  /\ UNCHANGED database

\* Those who have looked for the subnet already.
ReadersOf(s) == {r \in SubnetReaders : req[r].subnet = s}

\* Those who have approved the subnet, or found it approved, and get a session now.
FollowersOf(s) == {r \in At({"lnk_session"}) : req[r].subnet = s}

ApproveNewSubnet(r, i) ==
  LET s == req[r].subnet IN
  /\ req[r].pc = "ups_create"
  /\ approved[i] = None
  /\ approved' = [approved EXCEPT ![i] = s]
  /\ Commit(r, [req[r] EXCEPT !.pc = "lnk_session"], ReadersOf(s))
  /\ UNCHANGED <<factor, checkLocation, code>>

\* approveSubnet: a link that approves the subnet it is followed from, known or not.
ApproveSubnet(r, i, s) ==
  /\ req[r] = Idle
  /\ approved[i] = None
  /\ approved' = [approved EXCEPT ![i] = s]
  /\ Commit(r, [Idle EXCEPT !.pc = "lnk_session", !.subnet = s], ReadersOf(s))
  /\ UNCHANGED <<factor, checkLocation, code>>

\* The row is read first; its user never changes, and a row that is gone fails.
DeleteApprovedSubnet(r, i) ==
  /\ req[r] = Idle
  /\ approved[i] # None
  /\ approved' = [approved EXCEPT ![i] = None]
  /\ Commit(r, Idle, ReadersOf(approved[i]) \cup FollowersOf(approved[i]))
  /\ UNCHANGED <<factor, checkLocation, code>>

\* A call fails, or the process stops.
Abort(r) ==
  /\ req[r] # Idle
  /\ Reply(r)
  /\ UNCHANGED database

----------------------------------------------------------------------------
Arrive(r) ==
  \/ RequestMfa(r)
  \/ \E m \in Methods : EnableMfaMethod(r, m)
  \/ DisableMfa(r)
  \/ \E m \in Methods \cup {"NONE"}, check \in BOOLEAN : UpdateUser(r, m, check)
  \/ RegenerateBackupCodes(r)
  \/ LoginUserWithTotpCode(r) \/ LoginUnasked(r)
  \/ \E s \in Subnets : LoginWithPassword(r, s) \/ FollowLink(r, s)
  \/ \E i \in Rows, s \in Subnets : ApproveSubnet(r, i, s)
  \/ \E i \in Rows : DeleteApprovedSubnet(r, i)

Resume(r) ==
  \/ \E s \in Secrets : WriteSecret(r, s)
  \/ WriteMethod(r) \/ WriteNoMethod(r)
  \/ DeleteCodes(r) \/ GiveCodes(r)
  \/ \E c \in Codes : CreateCode(r, c) \/ FindBackupCode(r, c)
  \/ MarkCode(r)
  \/ CheckLoginSubnet(r) \/ RecheckLocation(r)
  \/ CreateSession(r)
  \/ UpsertNewSubnet(r)
  \/ \E i \in Rows : ApproveNewSubnet(r, i)

Next == \E r \in Requests : Arrive(r) \/ Resume(r) \/ Abort(r)

Spec == Init /\ [][Next]_vars

----------------------------------------------------------------------------
Acts(r) == req'[r] # req[r]

ReadsHold(q) ==
  /\ q.pc \in {"req_write", "enb_write"} => method = "NONE"
  /\ q.pc = "enb_write" => secret = q.secret
  /\ q.pc = "dis_write" => method # "NONE"
  /\ q.pc = "gen_create" => Stored = q.given /\ Cardinality(q.given) + q.left = SetSize
  /\ q.pc = "pwd_subnets" => checkLocation
  /\ q.pc = "pwd_recheck" => checkLocation /\ ~IsApproved(q.subnet)
  /\ q.pc = "ups_create" => ~IsApproved(q.subnet)

ParametersFit(q) ==
  /\ q.pc = "enb_write" => q.method \in Methods /\ q.secret \in proven
  /\ q.pc \in {"otp_codes", "otp_mark", "otp_session"} => q.secret \in Secrets
  /\ q.pc = "otp_mark" => q.code \in Codes
  /\ q.pc \in {"pwd_subnets", "pwd_recheck", "pwd_session",
               "ups_find", "ups_create", "lnk_session"} => q.subnet \in Subnets
  /\ q.pc # "gen_create" => q.given = {}

\* What a handler has read still holds when it acts on it, unless overtaken.
SignInInv ==
  /\ TypeOK
  /\ \A r \in Requests : ParametersFit(req[r]) /\ (req[r].stale \/ ReadsHold(req[r]))

Earned(q) ==
  /\ q.pc \in {"pwd_subnets", "pwd_recheck", "pwd_session"} => method = "NONE"
  /\ q.pc = "pwd_session" => ~checkLocation \/ IsApproved(q.subnet)
  /\ q.pc \in {"otp_codes", "otp_mark", "otp_session"} => method # "NONE" /\ secret = q.secret
  /\ q.pc = "otp_mark" => code[q.code] = "fresh"
  /\ q.pc = "lnk_session" => IsApproved(q.subnet)

\* A sign-in about to get its session has given what its way to sign in asks for,
\* unless overtaken.  With a password alone the second factor is off, and the subnet
\* approved or the check off (checkLoginSubnet); with a code the factor is on and
\* the code is of its secret, or a backup code that is not used
\* (loginUserWithTotpCode); with a link to log in, to reset the password or to
\* approve a subnet, the subnet is approved.  The exception: a link asks for no
\* second factor, and verifyEmail and thirdPartyLogin ask for nothing at all
\* (WaysAskForFactor).
SessionsEarned == \A r \in Requests : req[r].stale \/ Earned(req[r])

\* With a second factor on, a password or a link to log in without a code is not the
\* way to a session (docs/authentication.md:9, of both).  The code does otherwise:
\* loginWithEmailToken looks at no factor, and login sends the link of its own accord
\* when it comes without a password.  MCSignIn_WaysAskForFactor.cfg shows it; its
\* factors leave out EMAIL, of which the link is a part.
WaysAskForFactor ==
  [][\A r \in Requests :
       /\ Acts(r)
       /\ req[r] = Idle
       /\ req'[r].pc \in {"pwd_subnets", "pwd_session", "ups_find"}
       => method = "NONE"]_vars

Locked == method # "NONE" /\ secret \notin proven

\* A second factor whose secret the user has never shown to know, or that has none,
\* locks the user out.  It comes about only by PATCH of twoFactorMethod (updateUser)
\* or when a request for a new secret is overtaken by the factor being turned on.
SecretIsProven ==
  [][Locked' /\ ~Locked =>
       \/ \E r \in Requests, m \in Methods, check \in BOOLEAN : UpdateUser(r, m, check)
       \/ \E r \in Requests : Acts(r) /\ req[r].pc = "req_write" /\ req[r].stale]_vars

\* regenerateBackupCodes answers with SetSize codes and leaves these and no others,
\* unless another run of it came in between.
RegenerationLeavesItsCodes ==
  [][\A r \in Requests :
       GiveCodes(r) => req[r].stale \/ (Stored = req[r].given
                                          /\ Cardinality(Stored) = SetSize)]_vars
=============================================================================
