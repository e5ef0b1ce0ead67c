---------------------------- MODULE EmailsProofs ----------------------------
(* The inductive invariant of Emails and its three action properties, for  *)
(* any number of users, emails and requests.                               *)
EXTENDS Emails, TLAPS

Fits(r) == ParametersFit(req[r]) /\ (req[r].stale \/ ReadsHold(req[r]))

\* What a step leaves of the tables.
TablesFit ==
  /\ users \subseteq Users
  /\ prefers \in [Users -> Emails \cup {None}]
  /\ owner \in [Emails -> Users \cup {None}]
  /\ unused \subseteq Emails
  /\ adrift \subseteq Users
  /\ KeysHold

LEMMA InvSplits ==
  EmailsInv <=> TablesFit /\ req \in [Requests -> Request] /\ \A r \in Requests : Fits(r)
  BY DEF EmailsInv, TypeOK, TablesFit, Fits

LEMMA IdleFits ==
  /\ Idle \in Request
  /\ \A r \in Requests : req'[r] = Idle => Fits(r)'
  BY DEF Idle, Request, PCs, Fits, ParametersFit, ReadsHold

\* What a waiting request knows survives the step of another one.
LEMMA OthersFit ==
  ASSUME EmailsInv, NEW p \in Requests, req[p] # Idle, TablesFit', unused' \subseteq unused,
         req'[p] = [req[p] EXCEPT !.stale = @ \/ Overtaken(req[p], owner', prefers')]
  PROVE  req'[p] \in Request /\ Fits(p)'
<1>. DEFINE q == req[p]
            o == Overtaken(q, owner', prefers')
<1>. q \in Request /\ ParametersFit(q) /\ (q.stale \/ ReadsHold(q)) /\ q.user \in Users
  BY DEF EmailsInv, TypeOK, ParametersFit
<1>1. (q.stale \/ o) \in BOOLEAN
  OBVIOUS
<1>2. /\ req'[p].pc = q.pc /\ req'[p].user = q.user /\ req'[p].base = q.base
      /\ req'[p].email = q.email /\ req'[p].other = q.other /\ req'[p].left = q.left
  BY DEF Request
<1>3. req'[p].stale = (q.stale \/ o)
  BY DEF Request
<1>4. req'[p] \in Request
  <2>1. \A s \in BOOLEAN : [q EXCEPT !.stale = s] \in Request
    BY DEF Request
  <2>. QED BY <1>1, <2>1
<1>5. ParametersFit(req[p])'
  BY <1>2 DEF ParametersFit
<1>6. ASSUME ~req'[p].stale
      PROVE  ~o /\ ReadsHold(q)
  BY <1>3, <1>6
<1>7. ASSUME ~o, ReadsHold(q)
      PROVE  ReadsHold(req[p])'
  <2>1. prefers'[q.user] = prefers[q.user]
    BY <1>7 DEF Overtaken
  <2>2. \A e \in Emails : owner[e] = q.user => owner'[e] = q.user
    BY <1>7 DEF Overtaken
  <2>. QED BY <1>2, <1>7, <2>1, <2>2 DEF ReadsHold, ParametersFit
<1>. QED BY <1>4, <1>5, <1>6, <1>7 DEF Fits

\* A step that writes: what the request that takes it has to show.
LEMMA CommitKeeps ==
  ASSUME EmailsInv, NEW r \in Requests, NEW owners, NEW preferred, NEW next,
         Commit(r, owners, preferred, next), TablesFit', unused' \subseteq unused,
         next \in Request, Fits(r)'
  PROVE  EmailsInv'
<1>1. ASSUME NEW p \in Requests
      PROVE  req'[p] \in Request /\ Fits(p)'
  <2>1. CASE p = r
    BY <2>1 DEF Commit
  <2>2. CASE p # r /\ req[p] = Idle
    BY <2>2, IdleFits DEF Commit
  <2>3. CASE p # r /\ req[p] # Idle
    BY <2>3, OthersFit DEF Commit
  <2>. QED BY <2>1, <2>2, <2>3
<1>2. req' \in [Requests -> Request]
  BY <1>1 DEF Commit
<1>. QED BY <1>1, <1>2 DEF EmailsInv, TypeOK, TablesFit, Fits

\* A step that writes nothing.
LEMMA BecomeKeeps ==
  ASSUME EmailsInv, NEW r \in Requests, NEW next, Become(r, next), UNCHANGED database,
         next \in Request, Fits(r)'
  PROVE  EmailsInv'
<1>1. TablesFit'
  BY InvSplits DEF TablesFit, KeysHold, database
<1>2. ASSUME NEW p \in Requests
      PROVE  req'[p] \in Request /\ Fits(p)'
  <2>1. CASE p = r
    BY <2>1 DEF Become, EmailsInv, TypeOK
  <2>2. CASE p # r
    BY <2>2 DEF Become, EmailsInv, TypeOK, Fits, ParametersFit, ReadsHold, database
  <2>. QED BY <2>1, <2>2
<1>3. req' \in [Requests -> Request]
  BY <1>2 DEF Become, EmailsInv, TypeOK
<1>. QED BY <1>1, <1>2, <1>3 DEF EmailsInv, TypeOK, TablesFit, Fits

\* A request that ends, and one that ends with a write.
LEMMA ReplyKeeps ==
  ASSUME EmailsInv, NEW r \in Requests, Reply(r), UNCHANGED database
  PROVE  EmailsInv'
<1>1. req'[r] = Idle
  BY DEF Reply, Become, EmailsInv, TypeOK
<1>. QED BY <1>1, IdleFits, BecomeKeeps DEF Reply

LEMMA CommitIdleKeeps ==
  ASSUME EmailsInv, NEW r \in Requests, NEW owners, NEW preferred,
         Commit(r, owners, preferred, Idle), TablesFit', unused' \subseteq unused
  PROVE  EmailsInv'
<1>1. req'[r] = Idle
  BY DEF Commit
<1>. QED BY <1>1, IdleFits, CommitKeeps

----------------------------------------------------------------------------
(* Every action keeps the invariant.                                       *)

LEMMA ArriveKeeps ==
  ASSUME EmailsInv, NEW r \in Requests, Arrive(r)
  PROVE  EmailsInv'
<1>. TablesFit
  BY InvSplits
<1>1. ASSUME NEW u \in Users, NEW e \in Emails, Register(r, u, e)
      PROVE  EmailsInv'
  <2>. DEFINE next == [Idle EXCEPT !.pc = "reg_prefer", !.user = u, !.email = e]
  <2>1. TablesFit' /\ unused' \subseteq unused
    BY <1>1, EmailsAssumption DEF Register, Commit, TablesFit, KeysHold
  <2>2. next \in Request /\ req'[r] = next
    BY <1>1 DEF Register, Commit, Idle, Request, PCs
  <2>3. /\ req'[r].pc = "reg_prefer" /\ req'[r].user = u /\ req'[r].email = e
        /\ req'[r].left = {}
    BY <2>2 DEF Idle
  <2>4. owner'[e] = u /\ e \notin unused'
    BY <1>1 DEF Register, Commit, TablesFit
  <2>5. Fits(r)'
    BY <2>3, <2>4 DEF Fits, ParametersFit, ReadsHold
  <2>. QED BY <1>1, <2>1, <2>2, <2>5, CommitKeeps DEF Register
<1>2. ASSUME NEW u \in Users, NEW e \in Emails, CreateEmail(r, u, e)
      PROVE  EmailsInv'
  <2>1. TablesFit' /\ unused' \subseteq unused
    BY <1>2, EmailsAssumption DEF CreateEmail, Commit, TablesFit, KeysHold
  <2>. QED BY <1>2, <2>1, CommitIdleKeeps DEF CreateEmail
<1>3. ASSUME NEW u \in Users, NEW e \in Emails, DeleteEmail(r, u, e)
      PROVE  EmailsInv'
  <2>. DEFINE next == [Idle EXCEPT !.pc = "del_user", !.user = u, !.email = e]
  <2>1. CASE owner[e] = u
    <3>1. next \in Request /\ Become(r, next)
      BY <1>3, <2>1 DEF DeleteEmail, Idle, Request, PCs
    <3>2. /\ req'[r].pc = "del_user" /\ req'[r].user = u /\ req'[r].email = e
          /\ req'[r].left = {}
      BY <3>1 DEF Become, EmailsInv, TypeOK, Idle
    <3>3. Fits(r)'
      BY <1>3, <2>1, <3>2, EmailsAssumption
         DEF DeleteEmail, Fits, ParametersFit, ReadsHold, TablesFit, KeysHold, database
    <3>. QED BY <1>3, <3>1, <3>3, BecomeKeeps DEF DeleteEmail
  <2>2. CASE owner[e] # u
    BY <1>3, <2>2, ReplyKeeps DEF DeleteEmail
  <2>. QED BY <2>1, <2>2
<1>4. ASSUME NEW base \in Users, NEW u \in Users, MergeUsers(r, base, u)
      PROVE  EmailsInv'
  <2>. DEFINE next == [Idle EXCEPT !.pc = "mrg_list", !.user = u, !.base = base]
  <2>1. next \in Request /\ Become(r, next)
    BY <1>4 DEF MergeUsers, Idle, Request, PCs
  <2>2. /\ req'[r].pc = "mrg_list" /\ req'[r].user = u /\ req'[r].base = base
        /\ req'[r].left = {}
    BY <2>1 DEF Become, EmailsInv, TypeOK, Idle
  <2>3. Fits(r)'
    BY <1>4, <2>2 DEF MergeUsers, Fits, ParametersFit, ReadsHold
  <2>. QED BY <1>4, <2>1, <2>3, BecomeKeeps DEF MergeUsers
<1>5. ASSUME NEW u \in Users, DeleteUser(r, u)
      PROVE  EmailsInv'
  <2>. DEFINE next == [Idle EXCEPT !.pc = "rmv_emails", !.user = u]
  <2>1. next \in Request /\ Become(r, next)
    BY <1>5 DEF DeleteUser, Idle, Request, PCs
  <2>2. req'[r].pc = "rmv_emails" /\ req'[r].user = u /\ req'[r].left = {}
    BY <2>1 DEF Become, EmailsInv, TypeOK, Idle
  <2>3. Fits(r)'
    BY <2>2 DEF Fits, ParametersFit, ReadsHold
  <2>. QED BY <1>5, <2>1, <2>3, BecomeKeeps DEF DeleteUser
<1>. QED BY <1>1, <1>2, <1>3, <1>4, <1>5 DEF Arrive

\* The write of a primary email: PreferFirst and PreferOther.
LEMMA PreferKeeps ==
  ASSUME EmailsInv, NEW r \in Requests, NEW e \in Emails, NEW next \in Request,
         Prefer(r, e, next), UNCHANGED <<users, unused>>,
         req'[r] = next /\ owner[e] # None /\ prefers' = [prefers EXCEPT ![req[r].user] = e]
           /\ owner' = owner => Fits(r)'
  PROVE  EmailsInv'
<1>. DEFINE q == req[r]
<1>1. CASE q.user \in users /\ owner[e] # None
  <2>1. Commit(r, owner, [prefers EXCEPT ![q.user] = e], next)
    BY <1>1 DEF Prefer
  <2>2. TablesFit'
    BY <1>1, InvSplits, EmailsAssumption DEF Prefer, Commit, TablesFit, KeysHold
  <2>3. Fits(r)'
    BY <1>1, <2>1 DEF Commit
  <2>. QED BY <1>1, <2>1, <2>2, <2>3, CommitKeeps
<1>2. CASE ~(q.user \in users /\ owner[e] # None)
  BY <1>2, ReplyKeeps DEF Prefer, database
<1>. QED BY <1>1, <1>2

LEMMA ResumeKeeps ==
  ASSUME EmailsInv, NEW r \in Requests, Resume(r)
  PROVE  EmailsInv'
<1>. DEFINE q == req[r]
<1>. TablesFit /\ q \in Request /\ Fits(r)
  BY InvSplits
<1>1. CASE PreferFirst(r)
  <2>1. q.email \in Emails
    BY <1>1 DEF PreferFirst, Fits, ParametersFit
  <2>2. req'[r] = Idle => Fits(r)'
    BY IdleFits
  <2>. QED BY <1>1, <2>1, <2>2, IdleFits, PreferKeeps DEF PreferFirst
<1>2. CASE ReadPrimaryEmail(r)
  <2>. DEFINE pc == IF prefers[q.user] = q.email THEN "del_others" ELSE "del_row"
              next == [q EXCEPT !.pc = pc]
  <2>1. CASE q.user \notin users \/ prefers[q.user] = None
    BY <1>2, <2>1, ReplyKeeps DEF ReadPrimaryEmail
  <2>2. CASE ~(q.user \notin users \/ prefers[q.user] = None)
    <3>1. next \in Request /\ Become(r, next)
      BY <1>2, <2>2 DEF ReadPrimaryEmail, Request, PCs
    <3>2. /\ req'[r].pc = pc /\ req'[r].user = q.user /\ req'[r].email = q.email
          /\ req'[r].left = q.left /\ req'[r].stale = q.stale
      BY <3>1 DEF Become, EmailsInv, TypeOK, Request
    <3>3. UNCHANGED <<users, owner, prefers, unused>>
      BY <1>2 DEF ReadPrimaryEmail, database
    <3>4. q.user \in Users
      BY <1>2 DEF ReadPrimaryEmail, Fits, ParametersFit, Idle
    <3>5. ParametersFit(req[r])'
      BY <1>2, <3>2, <3>3, <3>4 DEF ReadPrimaryEmail, Fits, ParametersFit
    <3>6. ReadsHold(q) => ReadsHold(req[r])'
      BY <1>2, <2>2, <3>2, <3>3 DEF ReadPrimaryEmail, ReadsHold
    <3>7. Fits(r)'
      BY <3>2, <3>5, <3>6 DEF Fits
    <3>. QED BY <1>2, <3>1, <3>7, BecomeKeeps DEF ReadPrimaryEmail
  <2>. QED BY <2>1, <2>2
<1>3. CASE FindOtherEmails(r)
  <2>. DEFINE others == EmailsOf(q.user) \ {q.email}
  <2>1. CASE others = {}
    BY <1>3, <2>1, ReplyKeeps DEF FindOtherEmails
  <2>2. CASE others # {}
    <3>1. PICK e \in others : Become(r, [q EXCEPT !.pc = "del_prefer", !.other = e])
      BY <1>3, <2>2 DEF FindOtherEmails
    <3>. DEFINE next == [q EXCEPT !.pc = "del_prefer", !.other = e]
    <3>2. next \in Request
      BY DEF EmailsOf, Request, PCs
    <3>3. /\ req'[r].pc = "del_prefer" /\ req'[r].user = q.user /\ req'[r].email = q.email
          /\ req'[r].other = e /\ req'[r].left = q.left /\ req'[r].stale = q.stale
      BY <3>1 DEF Become, EmailsInv, TypeOK, Request
    <3>4. UNCHANGED <<users, owner, prefers, unused>>
      BY <1>3 DEF FindOtherEmails, database
    <3>5. q.user \in Users
      <4>1. q.pc = "del_others"
        BY <1>3 DEF FindOtherEmails
      <4>. QED BY <4>1 DEF Fits, ParametersFit, Idle
    <3>6. ParametersFit(req[r])'
      BY <1>3, <3>3, <3>4, <3>5, EmailsAssumption
         DEF FindOtherEmails, Fits, ParametersFit, EmailsOf, TablesFit, KeysHold
    <3>7. ReadsHold(q) => ReadsHold(req[r])'
      BY <1>3, <3>3, <3>4 DEF FindOtherEmails, ReadsHold, EmailsOf
    <3>8. Fits(r)'
      BY <3>3, <3>6, <3>7 DEF Fits
    <3>. QED BY <1>3, <3>1, <3>2, <3>8, BecomeKeeps DEF FindOtherEmails
  <2>. QED BY <2>1, <2>2
<1>4. CASE PreferOther(r)
  <2>. DEFINE next == [q EXCEPT !.pc = "del_row", !.other = None]
  <2>1. q.other \in Emails /\ q.user \in Users
    BY <1>4 DEF PreferOther, Fits, ParametersFit, Idle
  <2>2. next \in Request
    BY DEF Request, PCs
  <2>3. ASSUME req'[r] = next, owner[q.other] # None, owner' = owner,
               prefers' = [prefers EXCEPT ![q.user] = q.other]
        PROVE  Fits(r)'
    <3>1. /\ req'[r].pc = "del_row" /\ req'[r].user = q.user /\ req'[r].email = q.email
          /\ req'[r].left = q.left /\ req'[r].stale = q.stale
      BY <2>3 DEF Request
    <3>2. prefers'[q.user] = q.other
      BY <2>1, <2>3 DEF TablesFit
    <3>3. ParametersFit(req[r])'
      BY <1>4, <2>1, <3>1 DEF PreferOther, Fits, ParametersFit
    <3>4. ReadsHold(q) => ReadsHold(req[r])'
      BY <1>4, <2>1, <2>3, <3>1, <3>2, EmailsAssumption DEF PreferOther, ReadsHold
    <3>. QED BY <3>1, <3>3, <3>4 DEF Fits
  <2>. QED BY <1>4, <2>1, <2>2, <2>3, PreferKeeps DEF PreferOther
<1>5. CASE DeleteEmailRow(r)
  <2>1. CASE owner[q.email] # None
    <3>1. Commit(r, Without({q.email}), Unprefer({q.email}), Idle)
      BY <1>5, <2>1 DEF DeleteEmailRow
    <3>2. TablesFit' /\ unused' \subseteq unused
      BY <1>5, <3>1, EmailsAssumption
         DEF DeleteEmailRow, Commit, Without, Unprefer, TablesFit, KeysHold
    <3>. QED BY <3>1, <3>2, CommitIdleKeeps
  <2>2. CASE owner[q.email] = None
    BY <1>5, <2>2, ReplyKeeps DEF DeleteEmailRow, database
  <2>. QED BY <2>1, <2>2
<1>6. CASE ListEmails(r)
  <2>. DEFINE next == [q EXCEPT !.pc = "mrg_move", !.left = EmailsOf(q.user)]
  <2>1. next \in Request /\ Become(r, next)
    BY <1>6 DEF ListEmails, EmailsOf, Request, PCs
  <2>2. /\ req'[r].pc = "mrg_move" /\ req'[r].user = q.user /\ req'[r].base = q.base
        /\ req'[r].left = EmailsOf(q.user) /\ req'[r].stale = q.stale
    BY <2>1 DEF Become, EmailsInv, TypeOK, Request
  <2>3. q.user \in Users /\ q.base \in Users \ {q.user}
    BY <1>6 DEF ListEmails, Fits, ParametersFit, Idle
  <2>4. EmailsOf(q.user) \cap unused = {}
    BY <2>3, EmailsAssumption DEF EmailsOf, TablesFit, KeysHold
  <2>5. Fits(r)'
    BY <1>6, <2>2, <2>3, <2>4 DEF ListEmails, Fits, ParametersFit, ReadsHold, database
  <2>. QED BY <1>6, <2>1, <2>5, BecomeKeeps DEF ListEmails
<1>7. ASSUME NEW e \in Emails, MoveEmail(r, e)
      PROVE  EmailsInv'
  <2>. DEFINE next == [q EXCEPT !.left = @ \ {e}]
  <2>1. CASE owner[e] # None /\ q.base \in users
    <3>1. Commit(r, [owner EXCEPT ![e] = q.base], prefers, next)
      BY <1>7, <2>1 DEF MoveEmail
    <3>2. q.user \in Users /\ q.base \in Users \ {q.user} /\ q.left \cap unused = {}
      BY <1>7 DEF MoveEmail, Fits, ParametersFit, Idle
    <3>3. TablesFit' /\ unused' = unused
      BY <1>7, <2>1, <3>1, <3>2, EmailsAssumption DEF MoveEmail, Commit, TablesFit, KeysHold
    <3>4. next \in Request /\ req'[r] = next
      BY <3>1 DEF Commit, Request
    <3>5. /\ req'[r].pc = "mrg_move" /\ req'[r].user = q.user /\ req'[r].base = q.base
          /\ req'[r].left = q.left \ {e}
      BY <1>7, <3>4 DEF MoveEmail, Request
    <3>6. Fits(r)'
      BY <3>2, <3>3, <3>5 DEF Fits, ParametersFit, ReadsHold
    <3>. QED BY <3>1, <3>3, <3>4, <3>6, CommitKeeps
  <2>2. CASE ~(owner[e] # None /\ q.base \in users)
    BY <1>7, <2>2, ReplyKeeps DEF MoveEmail, database
  <2>. QED BY <2>1, <2>2
<1>8. CASE EndMove(r)
  <2>. DEFINE next == [q EXCEPT !.pc = "mrg_user"]
  <2>1. next \in Request /\ Become(r, next)
    BY <1>8 DEF EndMove, Request, PCs
  <2>2. /\ req'[r].pc = "mrg_user" /\ req'[r].user = q.user /\ req'[r].base = q.base
        /\ req'[r].left = q.left
    BY <2>1 DEF Become, EmailsInv, TypeOK, Request
  <2>3. Fits(r)'
    BY <1>8, <2>2 DEF EndMove, Fits, ParametersFit, ReadsHold, Idle, database
  <2>. QED BY <1>8, <2>1, <2>3, BecomeKeeps DEF EndMove
<1>9. CASE DeleteUserRow(r)
  <2>1. CASE q.user \in users /\ EmailsOf(q.user) = {}
    <3>1. Commit(r, owner, [prefers EXCEPT ![q.user] = None], Idle)
      BY <1>9, <2>1 DEF DeleteUserRow
    <3>2. TablesFit' /\ unused' = unused
      BY <1>9, <2>1, <3>1, EmailsAssumption
         DEF DeleteUserRow, EmailsOf, Commit, TablesFit, KeysHold
    <3>. QED BY <3>1, <3>2, CommitIdleKeeps
  <2>2. CASE ~(q.user \in users /\ EmailsOf(q.user) = {})
    BY <1>9, <2>2, ReplyKeeps DEF DeleteUserRow, database
  <2>. QED BY <2>1, <2>2
<1>10. CASE DeleteEmailsOfUser(r)
  <2>. DEFINE next == [q EXCEPT !.pc = "rmv_user"]
              gone == EmailsOf(q.user)
  <2>1. Commit(r, Without(gone), Unprefer(gone), next)
    BY <1>10 DEF DeleteEmailsOfUser
  <2>2. TablesFit' /\ unused' = unused
    BY <1>10, <2>1, EmailsAssumption
       DEF DeleteEmailsOfUser, EmailsOf, Commit, Without, Unprefer, TablesFit, KeysHold
  <2>3. next \in Request /\ req'[r] = next
    BY <2>1 DEF Commit, Request, PCs
  <2>4. req'[r].pc = "rmv_user" /\ req'[r].user = q.user /\ req'[r].left = q.left
    BY <2>3 DEF Request
  <2>5. Fits(r)'
    BY <1>10, <2>2, <2>4 DEF DeleteEmailsOfUser, Fits, ParametersFit, ReadsHold, Idle
  <2>. QED BY <2>1, <2>2, <2>3, <2>5, CommitKeeps
<1>. QED
  BY <1>1, <1>2, <1>3, <1>4, <1>5, <1>6, <1>7, <1>8, <1>9, <1>10 DEF Resume

LEMMA NextKeeps == EmailsInv /\ [Next]_vars => EmailsInv'
<1>. SUFFICES ASSUME EmailsInv, [Next]_vars
              PROVE  EmailsInv'
  OBVIOUS
<1>1. CASE UNCHANGED vars
  BY <1>1 DEF vars, EmailsInv, TypeOK, KeysHold, ParametersFit, ReadsHold
<1>. QED BY <1>1, ArriveKeeps, ResumeKeeps, ReplyKeeps DEF Next, Abort

LEMMA InitFits == Init => EmailsInv
  BY EmailsAssumption
     DEF Init, EmailsInv, TypeOK, KeysHold, ParametersFit, ReadsHold, Idle, Request, PCs

\* The foreign keys of users and emails hold, and what register and deleteEmail
\* have read does unless they were overtaken: the inductive invariant.
THEOREM EmailsCorrect == Spec => []EmailsInv
<1>. QED BY InitFits, NextKeeps, PTL DEF Spec

----------------------------------------------------------------------------
(* The action properties.                                                  *)

\* What a step that is not idle leads to: the request that takes it, and its call.
Step(r) == Arrive(r) \/ Resume(r) \/ Abort(r)

\* Owners change only by these actions.
LEMMA OwnerWrites ==
  ASSUME EmailsInv, NEW r \in Requests, Step(r), NEW e \in Emails, owner[e] # None,
         owner'[e] # owner[e]
  PROVE  \/ DeleteEmailRow(r) /\ e = req[r].email /\ owner' = Without({e})
         \/ MoveEmail(r, e) /\ req[r].pc = "mrg_move"
         \/ DeleteEmailsOfUser(r) /\ owner[e] = req[r].user
<1>. DEFINE q == req[r]
<1>. TablesFit
  BY InvSplits
<1>1. ASSUME NEW u \in Users, NEW f \in Emails, Register(r, u, f) \/ CreateEmail(r, u, f)
      PROVE  FALSE
  BY <1>1 DEF Register, CreateEmail, Commit, TablesFit, KeysHold
<1>2. ASSUME NEW f \in Emails, MoveEmail(r, f)
      PROVE  f = e /\ q.pc = "mrg_move"
  BY <1>2 DEF MoveEmail, Commit, TablesFit
<1>3. CASE DeleteEmailRow(r)
  BY <1>3 DEF DeleteEmailRow, Commit, Without
<1>4. CASE DeleteEmailsOfUser(r)
  BY <1>4 DEF DeleteEmailsOfUser, Commit, Without, EmailsOf
<1>5. ASSUME NEW f, NEW next, Prefer(r, f, next)
      PROVE  FALSE
  BY <1>5 DEF Prefer, Commit
<1>6. DeleteUserRow(r) => owner' = owner
  BY DEF DeleteUserRow, Commit
<1>. QED
  BY <1>1, <1>2, <1>3, <1>4, <1>5, <1>6
     DEF Step, Arrive, Resume, Abort, DeleteEmail, MergeUsers, DeleteUser, PreferFirst,
         ReadPrimaryEmail, FindOtherEmails, PreferOther, ListEmails, EndMove, database

\* The primary email becomes null only by these actions.
LEMMA PreferenceWrites ==
  ASSUME EmailsInv, NEW r \in Requests, Step(r), NEW u \in Users, prefers[u] # None,
         prefers'[u] = None, u \in users'
  PROVE  \/ DeleteEmailRow(r) /\ prefers[u] = req[r].email
         \/ DeleteEmailsOfUser(r) /\ owner[prefers[u]] = req[r].user
<1>. DEFINE q == req[r]
<1>. TablesFit
  BY InvSplits
<1>1. ASSUME NEW f \in Emails, NEW next, Prefer(r, f, next)
      PROVE  FALSE
  BY <1>1, EmailsAssumption DEF Prefer, Commit, TablesFit
<1>2. CASE PreferFirst(r) \/ PreferOther(r)
  <2>1. q.email \in Emails \/ ~PreferFirst(r)
    BY InvSplits DEF PreferFirst, Fits, ParametersFit
  <2>2. q.other \in Emails \/ ~PreferOther(r)
    BY InvSplits DEF PreferOther, Fits, ParametersFit
  <2>. QED BY <1>1, <1>2, <2>1, <2>2 DEF PreferFirst, PreferOther
<1>3. CASE DeleteEmailRow(r)
  BY <1>3 DEF DeleteEmailRow, Commit, Unprefer
<1>4. CASE DeleteEmailsOfUser(r)
  BY <1>4 DEF DeleteEmailsOfUser, Commit, Unprefer, EmailsOf
<1>5. CASE DeleteUserRow(r)
  BY <1>5 DEF DeleteUserRow, Commit, TablesFit
<1>6. ASSUME NEW e \in Emails, MoveEmail(r, e)
      PROVE  prefers' = prefers
  BY <1>6 DEF MoveEmail, Commit
<1>7. ASSUME NEW v \in Users, NEW e \in Emails, Register(r, v, e) \/ CreateEmail(r, v, e)
      PROVE  prefers' = prefers
  BY <1>7 DEF Register, CreateEmail, Commit
<1>. QED
  BY <1>2, <1>3, <1>4, <1>5, <1>6, <1>7
     DEF Step, Arrive, Resume, Abort, DeleteEmail, MergeUsers, DeleteUser,
         ReadPrimaryEmail, FindOtherEmails, ListEmails, EndMove, database

\* The request that makes one of these writes acts.
LEMMA WritersAct ==
  ASSUME EmailsInv, NEW r \in Requests
  PROVE  /\ DeleteEmailRow(r) => req[r].pc = "del_row" /\ Acts(r)
         /\ DeleteEmailsOfUser(r) => req[r].pc = "rmv_emails" /\ Acts(r)
         /\ \A e \in Emails : MoveEmail(r, e) => req[r].pc = "mrg_move" /\ Acts(r)
<1>. DEFINE q == req[r]
<1>. q \in Request
  BY InvSplits
<1>1. ASSUME DeleteEmailRow(r)
      PROVE  req[r].pc = "del_row" /\ req'[r] = Idle
  BY <1>1 DEF DeleteEmailRow, Commit, Reply, Become, EmailsInv, TypeOK
<1>2. ASSUME DeleteEmailsOfUser(r)
      PROVE  req[r].pc = "rmv_emails" /\ req'[r].pc = "rmv_user"
  BY <1>2 DEF DeleteEmailsOfUser, Commit, Request
<1>3. ASSUME NEW e \in Emails, MoveEmail(r, e)
      PROVE  req[r].pc = "mrg_move" /\ (req'[r] = Idle \/ e \notin req'[r].left)
  BY <1>3 DEF MoveEmail, Commit, Reply, Become, EmailsInv, TypeOK, Request
<1>4. ASSUME NEW e \in Emails, MoveEmail(r, e)
      PROVE  e \in req[r].left
  BY <1>4 DEF MoveEmail
<1>. QED BY <1>1, <1>2, <1>3, <1>4 DEF Acts, Idle

LEMMA LastEmailGoes ==
  ASSUME EmailsInv, [Next]_vars, NEW u \in Users, EmailsOf(u) # {}, EmailsOf(u)' = {}
  PROVE  \E r \in Requests :
           LET q == req[r] IN
           /\ Acts(r)
           /\ q.pc \in {"rmv_emails", "mrg_move", "del_row"}
           /\ q.pc = "del_row" => q.stale \/ q.user \in adrift
<1>. TablesFit
  BY InvSplits
<1>1. ~UNCHANGED vars
  BY DEF vars, EmailsOf
<1>2. PICK r \in Requests : Step(r)
  BY <1>1 DEF Next, Step
<1>3. PICK e \in Emails : owner[e] = u /\ owner'[e] # u
  BY DEF EmailsOf
<1>4. owner[e] # None
  BY <1>3, EmailsAssumption
<1>5. CASE DeleteEmailRow(r)
  <2>. DEFINE q == req[r]
  <2>1. e = q.email /\ owner' = Without({e})
    BY <1>2, <1>3, <1>4, <1>5, OwnerWrites
       DEF DeleteEmailRow, MoveEmail, DeleteEmailsOfUser
  <2>2. ASSUME ~q.stale, q.user \notin adrift
        PROVE  FALSE
    <3>1. owner[q.email] = q.user /\ prefers[q.user] \notin {q.email, None}
      BY <1>5, <2>2, InvSplits DEF Fits, ReadsHold, DeleteEmailRow
    <3>2. q.user = u
      BY <1>3, <2>1, <3>1
    <3>3. owner[prefers[u]] = u /\ prefers[u] \in Emails
      BY <2>2, <3>1, <3>2 DEF TablesFit, KeysHold
    <3>4. owner'[prefers[u]] = u
      BY <2>1, <3>1, <3>2, <3>3 DEF Without
    <3>. QED BY <3>3, <3>4 DEF EmailsOf
  <2>. QED BY <1>5, <2>2, WritersAct
<1>. QED BY <1>2, <1>3, <1>4, <1>5, OwnerWrites, WritersAct

\* deleteEmail takes the last email of a user only when it has been overtaken or
\* the primary one has been merged away; deleteUser and merge take all.
THEOREM LastEmailsStay == Spec => LastEmailStays
<1>1. EmailsInv /\ [Next]_vars =>
        [\A u \in Users :
           (EmailsOf(u) # {} /\ EmailsOf(u)' = {}) =>
             \E r \in Requests :
               LET q == req[r] IN
               /\ Acts(r)
               /\ q.pc \in {"rmv_emails", "mrg_move", "del_row"}
               /\ q.pc = "del_row" => q.stale \/ q.user \in adrift]_vars
  BY LastEmailGoes
<1>. QED BY <1>1, EmailsCorrect, PTL DEF Spec, LastEmailStays

LEMMA PrimaryEmailGoes ==
  ASSUME EmailsInv, [Next]_vars, NEW u \in Users, prefers[u] # None, u \in users',
         prefers'[u] = None, u \notin adrift
  PROVE  \E r \in Requests :
           LET q == req[r] IN
           /\ Acts(r)
           /\ \/ q.pc = "rmv_emails" /\ q.user = u
              \/ q.pc = "del_row" /\ q.stale
<1>. TablesFit
  BY InvSplits
<1>1. ~UNCHANGED vars
  BY DEF vars
<1>2. PICK r \in Requests : Step(r)
  BY <1>1 DEF Next, Step
<1>3. owner[prefers[u]] = u
  BY DEF TablesFit, KeysHold
<1>4. CASE DeleteEmailRow(r) /\ prefers[u] = req[r].email
  <2>1. ~ReadsHold(req[r])
    BY <1>3, <1>4 DEF ReadsHold, DeleteEmailRow
  <2>2. req[r].stale
    BY <2>1, InvSplits DEF Fits
  <2>. QED BY <1>4, <2>2, WritersAct
<1>5. CASE DeleteEmailsOfUser(r) /\ owner[prefers[u]] = req[r].user
  BY <1>3, <1>5, WritersAct
<1>. QED BY <1>2, <1>4, <1>5, PreferenceWrites

\* A user that stays loses the primary email only through deleteUser, a deletion
\* that was overtaken, or when the email had been merged away.
THEOREM PrimaryEmailsStay == Spec => PrimaryEmailStays
<1>1. EmailsInv /\ [Next]_vars =>
        [\A u \in Users :
           (prefers[u] # None /\ u \in users' /\ prefers'[u] = None) =>
             \/ u \in adrift
             \/ \E r \in Requests :
                  LET q == req[r] IN
                  /\ Acts(r)
                  /\ \/ q.pc = "rmv_emails" /\ q.user = u
                     \/ q.pc = "del_row" /\ q.stale]_vars
  BY PrimaryEmailGoes
<1>. QED BY <1>1, EmailsCorrect, PTL DEF Spec, PrimaryEmailStays

LEMMA EmailsStray ==
  ASSUME EmailsInv, [Next]_vars, NEW u \in Users, u \in adrift', u \notin adrift
  PROVE  \E r \in Requests :
           /\ Acts(r)
           /\ \/ req[r].pc = "mrg_move"
              \/ req[r].pc \in {"reg_prefer", "del_prefer"} /\ req[r].stale
<1>. TablesFit
  BY InvSplits
<1>1. ~UNCHANGED vars
  BY DEF vars
<1>2. PICK r \in Requests : Step(r)
  BY <1>1 DEF Next, Step
<1>. DEFINE q == req[r]
<1>. q \in Request /\ Fits(r)
  BY InvSplits
<1>3. PreferFirst(r) \/ PreferOther(r) \/ \E e \in Emails : MoveEmail(r, e)
  <2>1. ~Arrive(r) /\ ~Abort(r)
    BY DEF Arrive, Abort, Register, CreateEmail, DeleteEmail, MergeUsers, DeleteUser, database
  <2>2. /\ ~ReadPrimaryEmail(r) /\ ~FindOtherEmails(r) /\ ~DeleteEmailRow(r) /\ ~ListEmails(r)
        /\ ~EndMove(r) /\ ~DeleteUserRow(r) /\ ~DeleteEmailsOfUser(r)
    BY DEF ReadPrimaryEmail, FindOtherEmails, DeleteEmailRow, ListEmails, EndMove,
           DeleteUserRow, DeleteEmailsOfUser, database
  <2>. QED BY <1>2, <2>1, <2>2 DEF Step, Resume
<1>4. CASE PreferFirst(r)
  <2>1. q.pc = "reg_prefer" /\ owner[q.email] # q.user /\ req'[r] = Idle
    BY <1>4 DEF PreferFirst, Prefer, Commit, Reply, Become, EmailsInv, TypeOK
  <2>2. q.stale
    BY <2>1 DEF Fits, ReadsHold
  <2>. QED BY <2>1, <2>2 DEF Acts, Idle
<1>5. CASE PreferOther(r)
  <2>1. q.pc = "del_prefer" /\ owner[q.other] # q.user
    BY <1>5 DEF PreferOther, Prefer
  <2>2. q.stale
    BY <2>1 DEF Fits, ReadsHold
  <2>3. req'[r] = [q EXCEPT !.pc = "del_row", !.other = None]
    BY <1>5 DEF PreferOther, Prefer, Commit
  <2>4. req'[r].pc = "del_row"
    BY <2>3 DEF Request
  <2>. QED BY <2>1, <2>2, <2>4 DEF Acts
<1>. QED BY <1>3, <1>4, <1>5, WritersAct

\* A user's primary email comes to be another user's only through a merge, which
\* moves it or has overtaken the request that prefers it.
THEOREM PrimaryEmailsAreOwn == Spec => PrimaryEmailIsOwn
<1>1. EmailsInv /\ [Next]_vars =>
        [\A u \in Users :
           (u \in adrift' /\ u \notin adrift) =>
             \E r \in Requests :
               /\ Acts(r)
               /\ \/ req[r].pc = "mrg_move"
                  \/ req[r].pc \in {"reg_prefer", "del_prefer"} /\ req[r].stale]_vars
  BY EmailsStray
<1>. QED BY <1>1, EmailsCorrect, PTL DEF Spec, PrimaryEmailIsOwn

----------------------------------------------------------------------------
(* Requests served one at a time: stale stands for nothing but races.      *)

\* A request takes the step, and no other is in flight.
OneAtATime ==
  \E r \in Requests : /\ Arrive(r) \/ Resume(r) \/ Abort(r)
                      /\ \A p \in Requests \ {r} : req[p] = Idle

NoneStale == \A r \in Requests : ~req[r].stale

\* A request that is not stale, with other fields changed.
LEMMA FieldsLeaveStale ==
  ASSUME NEW q \in Request, ~q.stale
  PROVE  \A a, b, c :
           /\ ~[q EXCEPT !.pc = a].stale
           /\ ~[q EXCEPT !.left = a].stale
           /\ ~[q EXCEPT !.pc = a, !.left = b].stale
           /\ ~[q EXCEPT !.pc = a, !.user = b].stale
           /\ ~[q EXCEPT !.pc = a, !.other = b].stale
           /\ ~[q EXCEPT !.pc = a, !.user = b, !.email = c].stale
           /\ ~[q EXCEPT !.pc = a, !.user = b, !.base = c].stale
  BY DEF Request

LEMMA BecomeIsFresh ==
  ASSUME EmailsInv, NoneStale, NEW r \in Requests, NEW next, Become(r, next), ~next.stale
  PROVE  NoneStale'
  BY DEF EmailsInv, TypeOK, NoneStale, Become

LEMMA CommitIsFresh ==
  ASSUME NEW r \in Requests, \A p \in Requests \ {r} : req[p] = Idle,
         NEW owners, NEW preferred, NEW next, Commit(r, owners, preferred, next), ~next.stale
  PROVE  NoneStale'
<1>1. ASSUME NEW p \in Requests \ {r}
      PROVE  req'[p] = Idle
  BY <1>1 DEF Commit
<1>. QED BY <1>1 DEF Commit, NoneStale, Idle

LEMMA ArriveIsFresh ==
  ASSUME EmailsInv, NoneStale, NEW r \in Requests, \A p \in Requests \ {r} : req[p] = Idle,
         Arrive(r)
  PROVE  NoneStale'
<1>. Idle \in Request /\ ~Idle.stale
  BY IdleFits DEF Idle
<1>1. ASSUME NEW u \in Users, NEW e \in Emails, Register(r, u, e)
      PROVE  NoneStale'
  BY <1>1, CommitIsFresh, FieldsLeaveStale DEF Register
<1>2. ASSUME NEW u \in Users, NEW e \in Emails, CreateEmail(r, u, e)
      PROVE  NoneStale'
  BY <1>2, CommitIsFresh DEF CreateEmail
<1>3. ASSUME NEW u \in Users, NEW e \in Emails, DeleteEmail(r, u, e)
      PROVE  NoneStale'
  BY <1>3, BecomeIsFresh, FieldsLeaveStale DEF DeleteEmail, Reply
<1>4. ASSUME NEW base \in Users, NEW u \in Users, MergeUsers(r, base, u)
      PROVE  NoneStale'
  BY <1>4, BecomeIsFresh, FieldsLeaveStale DEF MergeUsers
<1>5. ASSUME NEW u \in Users, DeleteUser(r, u)
      PROVE  NoneStale'
  BY <1>5, BecomeIsFresh, FieldsLeaveStale DEF DeleteUser
<1>. QED BY <1>1, <1>2, <1>3, <1>4, <1>5 DEF Arrive

LEMMA ResumeIsFresh ==
  ASSUME EmailsInv, NoneStale, NEW r \in Requests, \A p \in Requests \ {r} : req[p] = Idle,
         Resume(r)
  PROVE  NoneStale'
<1>. Idle \in Request /\ ~Idle.stale /\ req[r] \in Request /\ ~req[r].stale
  BY IdleFits DEF Idle, EmailsInv, TypeOK, NoneStale
<1>1. ASSUME NEW e, NEW next, Prefer(r, e, next), ~next.stale
      PROVE  NoneStale'
  BY <1>1, CommitIsFresh, BecomeIsFresh DEF Prefer, Reply
<1>2. CASE PreferFirst(r)
  BY <1>1, <1>2 DEF PreferFirst
<1>3. CASE ReadPrimaryEmail(r)
  BY <1>3, BecomeIsFresh, FieldsLeaveStale DEF ReadPrimaryEmail, Reply
<1>4. CASE FindOtherEmails(r)
  BY <1>4, BecomeIsFresh, FieldsLeaveStale DEF FindOtherEmails, Reply
<1>5. CASE PreferOther(r)
  BY <1>1, <1>5, FieldsLeaveStale DEF PreferOther
<1>6. CASE DeleteEmailRow(r) \/ DeleteUserRow(r)
  BY <1>6, CommitIsFresh, BecomeIsFresh DEF DeleteEmailRow, DeleteUserRow, Reply
<1>7. CASE ListEmails(r) \/ EndMove(r)
  BY <1>7, BecomeIsFresh, FieldsLeaveStale DEF ListEmails, EndMove
<1>8. ASSUME NEW e \in Emails, MoveEmail(r, e)
      PROVE  NoneStale'
  <2>1. ~[req[r] EXCEPT !.left = @ \ {e}].stale
    BY FieldsLeaveStale
  <2>. QED BY <1>8, <2>1, CommitIsFresh, BecomeIsFresh DEF MoveEmail, Reply
<1>9. CASE DeleteEmailsOfUser(r)
  BY <1>9, CommitIsFresh, FieldsLeaveStale DEF DeleteEmailsOfUser
<1>. QED BY <1>2, <1>3, <1>4, <1>5, <1>6, <1>7, <1>8, <1>9 DEF Resume

\* Of requests served one at a time none is ever stale.
LEMMA NoneIsOvertaken == Spec /\ [][OneAtATime]_vars => []NoneStale
<1>1. Init => NoneStale
  BY DEF Init, NoneStale, Idle
<1>2. EmailsInv /\ NoneStale /\ [OneAtATime]_vars => NoneStale'
  <2>1. ASSUME EmailsInv, NoneStale, NEW r \in Requests, Abort(r)
        PROVE  NoneStale'
    BY <2>1, BecomeIsFresh DEF Abort, Reply, Idle
  <2>2. UNCHANGED vars /\ NoneStale => NoneStale'
    BY DEF vars, NoneStale
  <2>. QED BY <2>1, <2>2, ArriveIsFresh, ResumeIsFresh DEF OneAtATime
<1>. QED BY <1>1, <1>2, EmailsCorrect, PTL DEF Spec

\* deleteEmail leaves the last email alone of a user that prefers one of its own.
LEMMA OwnEmailGoes ==
  ASSUME EmailsInv, NoneStale, [Next]_vars, NEW u \in Users \ adrift, EmailsOf(u) # {},
         EmailsOf(u)' = {}
  PROVE  \E r \in Requests : Acts(r) /\ req[r].pc \in {"rmv_emails", "mrg_move"}
<1>. TablesFit
  BY InvSplits
<1>1. ~UNCHANGED vars
  BY DEF vars, EmailsOf
<1>2. PICK r \in Requests : Step(r)
  BY <1>1 DEF Next, Step
<1>3. PICK e \in Emails : owner[e] = u /\ owner'[e] # u
  BY DEF EmailsOf
<1>4. owner[e] # None
  BY <1>3, EmailsAssumption
<1>5. ASSUME DeleteEmailRow(r), e = req[r].email, owner' = Without({e})
      PROVE  FALSE
  <2>1. owner[e] = req[r].user /\ prefers[req[r].user] \notin {e, None}
    BY <1>5, InvSplits DEF Fits, ReadsHold, DeleteEmailRow, NoneStale
  <2>2. owner[prefers[u]] = u /\ prefers[u] \in Emails \ {e}
    BY <1>3, <2>1 DEF TablesFit, KeysHold
  <2>3. owner'[prefers[u]] = u
    BY <1>5, <2>2 DEF Without
  <2>. QED BY <2>2, <2>3 DEF EmailsOf
<1>. QED BY <1>2, <1>3, <1>4, <1>5, OwnerWrites, WritersAct

\* With requests served one at a time, a user that has not lost its primary email
\* to a merge cannot delete its last email, nor the primary one without another
\* taking its place: both go only with the user, by deleteUser or merge.
THEOREM DeletionsOneAtATime ==
  Spec /\ [][OneAtATime]_vars =>
    [][\A u \in Users \ adrift :
         /\ (EmailsOf(u) # {} /\ EmailsOf(u)' = {}) =>
              \E r \in Requests : Acts(r) /\ req[r].pc \in {"rmv_emails", "mrg_move"}
         /\ (prefers[u] # None /\ u \in users' /\ prefers'[u] = None) =>
              \E r \in Requests : Acts(r) /\ req[r].pc = "rmv_emails" /\ req[r].user = u]_vars
<1>1. ASSUME EmailsInv, NoneStale, [Next]_vars, NEW u \in Users \ adrift, EmailsOf(u) # {},
             EmailsOf(u)' = {}
      PROVE  \E r \in Requests : Acts(r) /\ req[r].pc \in {"rmv_emails", "mrg_move"}
  BY <1>1, OwnEmailGoes DEF NoneStale
<1>2. ASSUME EmailsInv, NoneStale, [Next]_vars, NEW u \in Users \ adrift, prefers[u] # None,
             u \in users', prefers'[u] = None
      PROVE  \E r \in Requests : Acts(r) /\ req[r].pc = "rmv_emails" /\ req[r].user = u
  BY <1>2, PrimaryEmailGoes DEF NoneStale
<1>3. EmailsInv /\ NoneStale /\ [Next]_vars =>
    [\A u \in Users \ adrift :
         /\ (EmailsOf(u) # {} /\ EmailsOf(u)' = {}) =>
              \E r \in Requests : Acts(r) /\ req[r].pc \in {"rmv_emails", "mrg_move"}
         /\ (prefers[u] # None /\ u \in users' /\ prefers'[u] = None) =>
              \E r \in Requests : Acts(r) /\ req[r].pc = "rmv_emails" /\ req[r].user = u]_vars
  BY <1>1, <1>2
<1>. QED BY <1>3, EmailsCorrect, NoneIsOvertaken, PTL DEF Spec

\* With requests served one at a time, only merge leaves a user to prefer an
\* email that is somebody else's.
THEOREM PrefersOwnOneAtATime ==
  Spec /\ [][OneAtATime]_vars =>
    [][\A u \in Users : (u \in adrift' /\ u \notin adrift) =>
         \E r \in Requests : Acts(r) /\ req[r].pc = "mrg_move"]_vars
<1>1. EmailsInv /\ NoneStale /\ [Next]_vars =>
        [\A u \in Users : (u \in adrift' /\ u \notin adrift) =>
           \E r \in Requests : Acts(r) /\ req[r].pc = "mrg_move"]_vars
  BY EmailsStray DEF NoneStale
<1>. QED BY <1>1, EmailsCorrect, NoneIsOvertaken, PTL DEF Spec
=============================================================================
