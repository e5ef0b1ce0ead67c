--------------------------- MODULE AccountsProofs ---------------------------
(* The inductive invariant of Accounts and its two safety action           *)
(* properties, for any number of users, sessions and requests and for any  *)
(* limits in days.                                                         *)
EXTENDS Accounts, TLAPS

Fits(r) == ParametersFit(req[r]) /\ (req[r].stale \/ ReadsHold(req[r]))

\* What a step leaves of the tables: rows whose users exist, and ids not used again.
RowsFit(users, mail, sessions) ==
  /\ users \in [Users -> States]
  /\ mail \subseteq Users
  /\ sessions \in [Sessions -> Session]
  /\ \A u \in mail : users[u] # "none"

RowsLive(users, sessions, free) ==
  \A s \in Sessions : sessions[s] # NoSession => s \notin free /\ users[sessions[s].user] # "none"

LEMMA IdleFits ==
  /\ Idle \in Request
  /\ \A r \in Slots : req'[r] = Idle => Fits(r)'
  BY DEF Idle, Request, PCs, States, Fits, ParametersFit, ReadsHold

LEMMA RowsFitNow ==
  ASSUME AccountsInv
  PROVE  RowsFit(user, emails, session) /\ RowsLive(user, session, unused)
  BY DEF AccountsInv, TypeOK, RowsFit, RowsLive, Live

\* What a waiting request knows survives the step of another one.
LEMMA OthersFit ==
  ASSUME AccountsInv, NEW p \in Slots,
         req'[p] = [req[p] EXCEPT !.stale = @ \/ Overtaken(req[p], user', emails', session')]
  PROVE  req'[p] \in Request /\ Fits(p)'
<1>. DEFINE q == req[p]
            o == Overtaken(q, user', emails', session')
<1>. q \in Request /\ ParametersFit(q) /\ (q.stale \/ ReadsHold(q))
  BY DEF AccountsInv, TypeOK
<1>1. (q.stale \/ o) \in BOOLEAN
  OBVIOUS
<1>2. /\ req'[p].pc = q.pc /\ req'[p].user = q.user /\ req'[p].base = q.base
      /\ req'[p].id = q.id /\ req'[p].was = q.was /\ req'[p].found = q.found
      /\ req'[p].move = q.move
  BY DEF Request
<1>3. req'[p].stale = (q.stale \/ o)
  BY DEF Request
<1>4. req'[p] \in Request
  <2>1. \A s \in BOOLEAN : [q EXCEPT !.stale = s] \in Request
    BY DEF Request
  <2>. QED BY <1>1, <2>1
<1>5. ParametersFit(req[p])'
  BY <1>2 DEF ParametersFit
<1>6. ASSUME ~req'[p].stale
      PROVE  ~o /\ ReadsHold(q)
  BY <1>3, <1>6
<1>7. ASSUME ~o, ReadsHold(q)
      PROVE  ReadsHold(req[p])'
  <2>1. /\ Judged(req[p])' = Judged(q)
        /\ \A u \in Judged(q) : user'[u] = user[u]
    BY <1>2, <1>7 DEF Overtaken, Judged
  <2>2. q.pc = "log_create" => q.user \in Judged(q)
    BY AccountsAssumption DEF Judged, ParametersFit
  <2>3. q.pc \in {"del_sessions", "del_row"} => q.user \notin emails'
    BY <1>7 DEF Overtaken, ReadsHold
  <2>4. q.pc = "del_row" => \A s \in Sessions : session'[s].user # q.user
    BY <1>7 DEF Overtaken, ReadsHold, SessionsOf
  <2>. QED BY <1>2, <1>7, <2>1, <2>2, <2>3, <2>4 DEF ReadsHold, SessionsOf
<1>. QED BY <1>4, <1>5, <1>6, <1>7 DEF Fits

\* A step that writes: what the request that takes it has to show.
LEMMA CommitKeeps ==
  ASSUME AccountsInv, NEW r, NEW users, NEW mail, NEW sessions, NEW next,
         Commit(r, users, mail, sessions, next),
         RowsFit(users, mail, sessions), RowsLive(users, sessions, unused'),
         unused' \subseteq Sessions,
         r \in Slots => next \in Request /\ Fits(r)'
  PROVE  AccountsInv'
<1>1. user' = users /\ emails' = mail /\ session' = sessions
  BY DEF Commit
<1>2. ASSUME NEW p \in Slots
      PROVE  req'[p] \in Request /\ Fits(p)'
  <2>1. CASE p = r
    BY <2>1 DEF Commit
  <2>2. CASE p # r
    BY <1>1, <2>2, OthersFit DEF Commit
  <2>. QED BY <2>1, <2>2
<1>3. away' \in [Users -> 0..InactiveDays]
  BY AccountsAssumption DEF Commit, AccountsInv, TypeOK
<1>4. TypeOK'
  BY <1>1, <1>2, <1>3 DEF Commit, TypeOK, RowsFit
<1>. QED BY <1>1, <1>2, <1>4 DEF AccountsInv, RowsFit, RowsLive, Live, Fits

\* A step that writes nothing.
LEMMA BecomeKeeps ==
  ASSUME AccountsInv, NEW r \in Slots, NEW next, Become(r, next), UNCHANGED tables,
         next \in Request, Fits(r)'
  PROVE  AccountsInv'
<1>1. ASSUME NEW p \in Slots
      PROVE  req'[p] \in Request /\ Fits(p)'
  <2>1. CASE p = r
    BY <2>1 DEF Become, AccountsInv, TypeOK
  <2>2. CASE p # r
    BY <2>2 DEF Become, AccountsInv, TypeOK, Fits, ParametersFit, ReadsHold, Judged, SessionsOf, tables
  <2>. QED BY <2>1, <2>2
<1>2. TypeOK'
  BY <1>1 DEF Become, AccountsInv, TypeOK, tables
<1>. QED BY <1>1, <1>2 DEF AccountsInv, Fits, Live, tables

\* A handler that ends.
LEMMA EndKeeps ==
  ASSUME AccountsInv, NEW r \in Slots, Reply(r), UNCHANGED tables
  PROVE  AccountsInv'
<1>1. req'[r] = Idle
  BY DEF Reply, Become, AccountsInv, TypeOK
<1>. QED BY <1>1, IdleFits, BecomeKeeps DEF Reply

\* A write of one user, one session, or a deletion of sessions.
LEMMA SetUserKeeps ==
  ASSUME AccountsInv, NEW r, NEW u \in Users, NEW state \in {"active", "inactive"}, NEW next,
         SetUser(r, u, state, next), unused' = unused,
         r \in Slots => next \in Request /\ Fits(r)'
  PROVE  AccountsInv'
<1>1. RowsFit([user EXCEPT ![u] = state], emails, session)
  BY RowsFitNow DEF RowsFit, States
<1>2. RowsLive([user EXCEPT ![u] = state], session, unused')
  BY RowsFitNow DEF RowsLive, RowsFit, Session
<1>. QED BY <1>1, <1>2, CommitKeeps DEF SetUser, AccountsInv, TypeOK

LEMMA SetSessionKeeps ==
  ASSUME AccountsInv, NEW r, NEW s \in Sessions, NEW next, NEW row \in Session,
         SetSession(r, s, row, next), unused' \subseteq unused,
         row # NoSession => s \notin unused' /\ user[row.user] # "none",
         r \in Slots => next \in Request /\ Fits(r)'
  PROVE  AccountsInv'
<1>1. RowsFit(user, emails, [session EXCEPT ![s] = row])
  BY RowsFitNow DEF RowsFit
<1>2. RowsLive(user, [session EXCEPT ![s] = row], unused')
  BY RowsFitNow DEF RowsLive, RowsFit
<1>. QED BY <1>1, <1>2, CommitKeeps DEF SetSession, AccountsInv, TypeOK

LEMMA DropRowsKeeps ==
  ASSUME AccountsInv, NEW r, NEW S, NEW next, DropRows(r, S, next), unused' = unused,
         r \in Slots => next \in Request /\ Fits(r)'
  PROVE  AccountsInv'
<1>. DEFINE rest == [s \in Sessions |-> IF s \in S THEN NoSession ELSE session[s]]
<1>1. RowsFit(user, emails, rest)
  BY RowsFitNow DEF RowsFit, Session
<1>2. RowsLive(user, rest, unused')
  BY RowsFitNow DEF RowsLive, RowsFit
<1>. QED BY <1>1, <1>2, CommitKeeps DEF DropRows, AccountsInv, TypeOK

\* The deletion of a user to which no session and no email refers.
LEMMA RemoveUserKeeps ==
  ASSUME AccountsInv, NEW r, NEW u \in Users, NEW next,
         Deletable(u), SetUser(r, u, "none", next), unused' = unused,
         r \in Slots => next \in Request /\ Fits(r)'
  PROVE  AccountsInv'
<1>1. RowsFit([user EXCEPT ![u] = "none"], emails, session)
  BY RowsFitNow DEF RowsFit, States, Deletable
<1>2. RowsLive([user EXCEPT ![u] = "none"], session, unused')
  BY RowsFitNow DEF RowsLive, RowsFit, Session, Deletable, SessionsOf
<1>. QED BY <1>1, <1>2, CommitKeeps DEF SetUser, AccountsInv, TypeOK

LEMMA UnsavedKeeps ==
  ASSUME AccountsInv, NEW r \in Slots, Unsaved(r), unused' = unused
  PROVE  AccountsInv'
  BY EndKeeps DEF Unsaved, tables

\* What the request that acts holds after its write.
LEMMA CommitNext ==
  ASSUME NEW r \in Slots, NEW users, NEW mail, NEW sessions, NEW next,
         Commit(r, users, mail, sessions, next)
  PROVE  req'[r] = next /\ user' = users /\ emails' = mail /\ session' = sessions
  BY DEF Commit

LEMMA BecomeNext ==
  ASSUME AccountsInv, NEW r \in Slots, NEW next, Become(r, next)
  PROVE  req'[r] = next
  BY DEF Become, AccountsInv, TypeOK

----------------------------------------------------------------------------
(* A call that arrives reads, except deactivateUser. *)
LEMMA ArriveKeeps ==
  ASSUME AccountsInv, NEW r \in Requests, Arrive(r)
  PROVE  AccountsInv'
<1>. r \in Slots
  BY DEF Slots
<1>1. ASSUME NEW u \in Users, Login(r, u)
      PROVE  AccountsInv'
  <2>. DEFINE next == [Idle EXCEPT !.pc = IF user[u] = "inactive" THEN "log_activate"
                                                                ELSE "log_create",
                                 !.user = u]
  <2>1. next \in Request
    BY DEF Request, Idle, PCs, States
  <2>2. req'[r] = next /\ UNCHANGED tables
    BY <1>1, BecomeNext DEF Login
  <2>3. Fits(r)'
    BY <2>2 DEF Fits, ParametersFit, ReadsHold, Idle, tables
  <2>. QED BY <1>1, <2>1, <2>3, BecomeKeeps DEF Login
<1>2. ASSUME NEW u \in Users, LoginWithToken(r, u)
      PROVE  AccountsInv'
  <2>. DEFINE next == [Idle EXCEPT !.pc = "tok_create", !.user = u]
  <2>1. next \in Request
    BY DEF Request, Idle, PCs, States
  <2>2. req'[r] = next
    BY <1>2, BecomeNext DEF LoginWithToken
  <2>3. Fits(r)'
    BY <2>2 DEF Fits, ParametersFit, ReadsHold, Idle
  <2>. QED BY <1>2, <2>1, <2>3, BecomeKeeps DEF LoginWithToken
<1>3. ASSUME NEW u \in Users, DeactivateUser(r, u)
      PROVE  AccountsInv'
  <2>. DEFINE next == [Idle EXCEPT !.pc = "off_sessions", !.user = u]
  <2>1. next \in Request
    BY DEF Request, Idle, PCs, States
  <2>2. req'[r] = next
    BY <1>3, CommitNext DEF DeactivateUser, SetUser
  <2>3. Fits(r)'
    BY <2>2 DEF Fits, ParametersFit, ReadsHold, Idle
  <2>. QED BY <1>3, <2>1, <2>3, SetUserKeeps DEF DeactivateUser
<1>4. ASSUME NEW s \in Sessions, Refresh(r, s) \/ DeleteSession(r, s)
      PROVE  AccountsInv'
  <2>1. PICK pc \in {"rfr_touch", "out_delete"} :
          Become(r, [Idle EXCEPT !.pc = pc, !.id = s]) /\ UNCHANGED tables
    BY <1>4 DEF Refresh, DeleteSession
  <2>. DEFINE next == [Idle EXCEPT !.pc = pc, !.id = s]
  <2>2. next \in Request
    BY DEF Request, Idle, PCs, States
  <2>3. req'[r] = next
    BY <2>1, BecomeNext
  <2>4. Fits(r)'
    BY <2>3 DEF Fits, ParametersFit, ReadsHold, Idle
  <2>. QED BY <2>1, <2>2, <2>4, BecomeKeeps
<1>5. ASSUME NEW base \in Users, NEW other \in Users, MergeUsers(r, base, other)
      PROVE  AccountsInv'
  <2>. DEFINE next == [Idle EXCEPT !.pc = "mrg_update", !.base = base, !.user = other,
                                 !.was = user[other]]
  <2>1. next \in Request
    BY DEF Request, Idle, PCs, AccountsInv, TypeOK
  <2>2. req'[r] = next
    BY <1>5, BecomeNext DEF MergeUsers
  <2>3. Fits(r)'
    BY <1>5, <2>2 DEF MergeUsers, Fits, ParametersFit, ReadsHold, Idle
  <2>. QED BY <1>5, <2>1, <2>3, BecomeKeeps DEF MergeUsers
<1>. QED BY <1>1, <1>2, <1>3, <1>4, <1>5 DEF Arrive

(* The later calls of a request. *)
LEMMA ResumeKeeps ==
  ASSUME AccountsInv, NEW r \in Requests, Resume(r)
  PROVE  AccountsInv'
<1>. DEFINE q == req[r]
<1>. r \in Slots
  BY DEF Slots
<1>. q \in Request /\ ParametersFit(q) /\ (q.stale \/ ReadsHold(q))
  BY DEF AccountsInv, TypeOK
<1>1. CASE Activate(r)
  <2>. DEFINE go == [q EXCEPT !.pc = "log_create"]
  <2>. q.user \in Users
    BY <1>1 DEF Activate, ParametersFit
  <2>1. CASE user[q.user] = "none"
    BY <1>1, <2>1, UnsavedKeeps DEF Activate
  <2>2. ASSUME user[q.user] # "none", SetUser(r, q.user, "active", Idle)
        PROVE  AccountsInv'
    <3>1. req'[r] = Idle
      BY <2>2, CommitNext DEF SetUser
    <3>. QED BY <1>1, <2>2, <3>1, IdleFits, SetUserKeeps DEF Activate
  <2>3. ASSUME user[q.user] # "none", SetUser(r, q.user, "active", go)
        PROVE  AccountsInv'
    <3>1. go \in Request /\ go.pc = "log_create" /\ go.user = q.user
      BY DEF Request, PCs
    <3>2. req'[r] = go /\ user' = [user EXCEPT ![q.user] = "active"]
      BY <2>3, CommitNext DEF SetUser
    <3>3. Fits(r)'
      BY <3>1, <3>2 DEF Fits, ParametersFit, ReadsHold, AccountsInv, TypeOK
    <3>. QED BY <1>1, <2>3, <3>1, <3>3, SetUserKeeps DEF Activate
  <2>. QED BY <1>1, <2>1, <2>2, <2>3 DEF Activate
<1>2. CASE CreateSession(r)
  <2>. q.user \in Users
    BY <1>2 DEF CreateSession, ParametersFit
  <2>1. CASE ~(user[q.user] # "none" /\ unused # {})
    BY <1>2, <2>1, UnsavedKeeps DEF CreateSession
  <2>2. CASE user[q.user] # "none" /\ unused # {}
    <3>1. PICK s \in unused : /\ SetSession(r, s, [user |-> q.user, age |-> 0], Idle)
                              /\ unused' = unused \ {s}
      BY <1>2, <2>2 DEF CreateSession
    <3>2. req'[r] = Idle
      BY <3>1, CommitNext DEF SetSession
    <3>3. s \in Sessions
      BY DEF AccountsInv, TypeOK
    <3>4. [user |-> q.user, age |-> 0] \in Session
      BY AccountsAssumption DEF Session, Ages, OldestAge
    <3>. QED BY <2>2, <3>1, <3>2, <3>3, <3>4, IdleFits, SetSessionKeeps
  <2>. QED BY <2>1, <2>2
<1>3. CASE TouchSession(r)
  <2>. DEFINE row == IF Live(q.id) THEN [session[q.id] EXCEPT !.age = 0] ELSE NoSession
  <2>1. q.id \in Sessions /\ SetSession(r, q.id, row, Idle) /\ unused' = unused
    BY <1>3 DEF TouchSession, ParametersFit
  <2>2. /\ row \in Session
        /\ row # NoSession => q.id \notin unused /\ user[row.user] # "none"
    BY <2>1, RowsFitNow, AccountsAssumption DEF RowsFit, RowsLive, Session, NoSession, Live, Ages, OldestAge
  <2>3. req'[r] = Idle
    BY <2>1, CommitNext DEF SetSession
  <2>. QED BY <2>1, <2>2, <2>3, IdleFits, SetSessionKeeps
<1>4. CASE DeleteSessionRow(r) \/ DropSessions(r)
  <2>1. PICK S \in {{q.id}, SessionsOf(q.user)} : DropRows(r, S, Idle) /\ unused' = unused
    BY <1>4 DEF DeleteSessionRow, DropSessions
  <2>2. req'[r] = Idle
    BY <2>1, CommitNext DEF DropRows
  <2>. QED BY <2>1, <2>2, IdleFits, DropRowsKeeps
<1>5. CASE MergeUpdate(r)
  <2>. DEFINE next == [q EXCEPT !.pc = "mrg_emails", !.was = "none"]
  <2>1. CASE user[q.base] = "none"
    BY <1>5, <2>1, UnsavedKeeps DEF MergeUpdate
  <2>2. CASE user[q.base] # "none"
    <3>1. SetUser(r, q.base, q.was, next) /\ unused' = unused
      BY <1>5, <2>2 DEF MergeUpdate
    <3>2. q.base \in Users /\ q.user \in Users /\ q.was \in {"active", "inactive"}
      BY <1>5 DEF MergeUpdate, ParametersFit, Request, States
    <3>3. next \in Request /\ next.pc = "mrg_emails" /\ next.user = q.user /\ next.base = q.base
      BY DEF Request, PCs, States
    <3>4. req'[r] = next
      BY <3>1, CommitNext DEF SetUser
    <3>5. Fits(r)'
      BY <3>2, <3>3, <3>4 DEF Fits, ParametersFit, ReadsHold
    <3>. QED BY <3>1, <3>2, <3>3, <3>5, SetUserKeeps
  <2>. QED BY <2>1, <2>2
<1>6. CASE MoveEmails(r)
  <2>. DEFINE next == [q EXCEPT !.pc = "mrg_sessions"]
              moved == IF q.user \in emails THEN (emails \ {q.user}) \cup {q.base} ELSE emails
  <2>. q.user \in Users /\ q.base \in Users
    BY <1>6 DEF MoveEmails, ParametersFit
  <2>1. CASE q.user \in emails /\ user[q.base] = "none"
    BY <1>6, <2>1, UnsavedKeeps DEF MoveEmails
  <2>2. CASE ~(q.user \in emails /\ user[q.base] = "none")
    <3>1. Commit(r, user, moved, session, next) /\ unused' = unused
      BY <1>6, <2>2 DEF MoveEmails
    <3>2. RowsFit(user, moved, session) /\ RowsLive(user, session, unused')
      BY <2>2, <3>1, RowsFitNow DEF RowsFit
    <3>3. next \in Request /\ next.pc = "mrg_sessions" /\ next.user = q.user /\ next.base = q.base
      BY DEF Request, PCs
    <3>4. req'[r] = next
      BY <3>1, CommitNext
    <3>5. Fits(r)'
      BY <3>3, <3>4 DEF Fits, ParametersFit, ReadsHold
    <3>. QED BY <3>1, <3>2, <3>3, <3>5, CommitKeeps DEF AccountsInv, TypeOK
  <2>. QED BY <2>1, <2>2
<1>7. CASE FindSessionsToMove(r)
  <2>. DEFINE next == [q EXCEPT !.pc = "mrg_move", !.move = SessionsOf(q.user)]
  <2>1. Become(r, next) /\ UNCHANGED tables
    BY <1>7 DEF FindSessionsToMove
  <2>2. next \in Request /\ next.pc = "mrg_move" /\ next.user = q.user /\ next.base = q.base
    BY DEF Request, PCs, SessionsOf
  <2>3. req'[r] = next
    BY <2>1, BecomeNext
  <2>4. q.user \in Users /\ q.base \in Users
    BY <1>7 DEF FindSessionsToMove, ParametersFit
  <2>5. Fits(r)'
    BY <2>2, <2>3, <2>4 DEF Fits, ParametersFit, ReadsHold
  <2>. QED BY <2>1, <2>2, <2>5, BecomeKeeps
<1>8. ASSUME NEW s \in Sessions, MoveSession(r, s)
      PROVE  AccountsInv'
  <2>. DEFINE next == [q EXCEPT !.move = @ \ {s}]
              row == [user |-> q.base, age |-> 0]
  <2>. q.pc = "mrg_move" /\ q.user \in Users /\ q.base \in Users
    BY <1>8 DEF MoveSession, ParametersFit
  <2>1. CASE ~(Live(s) /\ user[q.base] # "none")
    BY <1>8, <2>1, UnsavedKeeps DEF MoveSession
  <2>2. CASE Live(s) /\ user[q.base] # "none"
    <3>1. SetSession(r, s, row, next) /\ unused' = unused
      BY <1>8, <2>2 DEF MoveSession
    <3>2. row \in Session /\ s \notin unused
      BY <2>2, AccountsAssumption DEF Session, Ages, OldestAge, AccountsInv
    <3>3. next \in Request /\ next.pc = "mrg_move" /\ next.user = q.user /\ next.base = q.base
      BY DEF Request, PCs
    <3>4. req'[r] = next
      BY <3>1, CommitNext DEF SetSession
    <3>5. Fits(r)'
      BY <3>3, <3>4 DEF Fits, ParametersFit, ReadsHold
    <3>. QED BY <2>2, <3>1, <3>2, <3>3, <3>5, SetSessionKeeps
  <2>. QED BY <2>1, <2>2
<1>9. CASE DeleteMergedUser(r)
  <2>. q.user \in Users
    BY <1>9 DEF DeleteMergedUser, ParametersFit
  <2>1. CASE ~Deletable(q.user)
    BY <1>9, <2>1, UnsavedKeeps DEF DeleteMergedUser
  <2>2. CASE Deletable(q.user)
    <3>1. SetUser(r, q.user, "none", Idle) /\ unused' = unused
      BY <1>9, <2>2 DEF DeleteMergedUser
    <3>2. req'[r] = Idle
      BY <3>1, CommitNext DEF SetUser
    <3>. QED BY <2>2, <3>1, <3>2, IdleFits, RemoveUserKeeps
  <2>. QED BY <2>1, <2>2
<1>. QED BY <1>1, <1>2, <1>3, <1>4, <1>5, <1>6, <1>7, <1>8, <1>9 DEF Resume

(* deleteInactiveUsers and the deleteUser it calls. *)
LEMMA TaskKeeps ==
  ASSUME AccountsInv, DeleteInactiveUsers \/ ResumeTask
  PROVE  AccountsInv'
<1>. DEFINE q == req[Cron]
<1>. Cron \in Slots
  BY DEF Slots
<1>. q \in Request /\ ParametersFit(q) /\ (q.stale \/ ReadsHold(q))
  BY DEF AccountsInv, TypeOK
<1>1. CASE DeleteInactiveUsers
  <2>1. PICK found \in SUBSET {u \in Users : user[u] = "inactive"} :
          Become(Cron, [Idle EXCEPT !.pc = "task_next", !.found = found]) /\ UNCHANGED tables
    BY <1>1 DEF DeleteInactiveUsers
  <2>. DEFINE next == [Idle EXCEPT !.pc = "task_next", !.found = found]
  <2>2. /\ next \in Request /\ next.pc = "task_next" /\ next.found = found
        /\ next.user = None
    BY DEF Request, PCs, Idle, States
  <2>3. req'[Cron] = next
    BY <2>1, BecomeNext
  <2>4. Fits(Cron)'
    BY <2>1, <2>2, <2>3 DEF Fits, ParametersFit, ReadsHold, Judged, tables
  <2>. QED BY <2>1, <2>2, <2>4, BecomeKeeps
<1>2. ASSUME NEW u \in Users, NextUser(u)
      PROVE  AccountsInv'
  <2>. DEFINE next == [q EXCEPT !.pc = "del_emails", !.user = u, !.found = @ \ {u}]
  <2>1. CASE user[u] = "none"
    BY <1>2, <2>1, EndKeeps DEF NextUser
  <2>2. CASE user[u] # "none"
    <3>1. Become(Cron, next) /\ UNCHANGED tables /\ q.pc = "task_next" /\ u \in q.found
      BY <1>2, <2>2 DEF NextUser
    <3>2. /\ next \in Request /\ next.pc = "del_emails" /\ next.user = u
          /\ next.found = q.found \ {u} /\ next.stale = q.stale
      BY DEF Request, PCs
    <3>3. req'[Cron] = next
      BY <3>1, BecomeNext
    <3>4. Judged(next) \subseteq Judged(q)
      BY <3>1, <3>2, AccountsAssumption DEF Judged
    <3>5. next.stale \/ \A v \in Judged(next) : user[v] = "inactive"
      BY <3>1, <3>2, <3>4 DEF ReadsHold
    <3>6. Fits(Cron)'
      BY <3>1, <3>2, <3>3, <3>5 DEF Fits, ParametersFit, ReadsHold, Judged, tables
    <3>. QED BY <3>1, <3>2, <3>6, BecomeKeeps
  <2>. QED BY <2>1, <2>2
<1>3. CASE DeleteEmails
  <2>. DEFINE next == [q EXCEPT !.pc = "del_sessions"]
  <2>1. Commit(Cron, user, emails \ {q.user}, session, next) /\ unused' = unused /\ q.pc = "del_emails"
    BY <1>3 DEF DeleteEmails
  <2>2. RowsFit(user, emails \ {q.user}, session) /\ RowsLive(user, session, unused')
    BY <2>1, RowsFitNow DEF RowsFit
  <2>3. /\ next \in Request /\ next.pc = "del_sessions" /\ next.user = q.user
        /\ next.found = q.found /\ next.stale = q.stale
    BY DEF Request, PCs
  <2>4. req'[Cron] = next /\ user' = user /\ emails' = emails \ {q.user}
    BY <2>1, CommitNext
  <2>5. Fits(Cron)'
    BY <2>1, <2>3, <2>4 DEF Fits, ParametersFit, ReadsHold, Judged
  <2>. QED BY <2>1, <2>2, <2>3, <2>5, CommitKeeps DEF AccountsInv, TypeOK
<1>4. CASE DeleteSessions
  <2>. DEFINE next == [q EXCEPT !.pc = "del_row"]
  <2>1. DropRows(Cron, SessionsOf(q.user), next) /\ unused' = unused /\ q.pc = "del_sessions"
    BY <1>4 DEF DeleteSessions
  <2>2. /\ next \in Request /\ next.pc = "del_row" /\ next.user = q.user
        /\ next.found = q.found /\ next.stale = q.stale
    BY DEF Request, PCs
  <2>3. /\ req'[Cron] = next /\ user' = user /\ emails' = emails
        /\ session' = [s \in Sessions |-> IF s \in SessionsOf(q.user) THEN NoSession ELSE session[s]]
    BY <2>1, CommitNext DEF DropRows
  <2>4. SessionsOf(q.user)' = {}
    BY <2>1, <2>3, AccountsAssumption DEF SessionsOf, NoSession, ParametersFit
  <2>5. Fits(Cron)'
    BY <2>1, <2>2, <2>3, <2>4 DEF Fits, ParametersFit, ReadsHold, Judged, SessionsOf
  <2>. QED BY <2>1, <2>2, <2>5, DropRowsKeeps
<1>5. CASE DeleteUserRow
  <2>. DEFINE next == IF q.found = {} THEN Idle ELSE [q EXCEPT !.pc = "task_next", !.user = None]
  <2>. q.user \in Users
    BY <1>5 DEF DeleteUserRow, ParametersFit
  <2>1. CASE ~Deletable(q.user)
    BY <1>5, <2>1, UnsavedKeeps DEF DeleteUserRow
  <2>2. CASE Deletable(q.user)
    <3>1. SetUser(Cron, q.user, "none", next) /\ unused' = unused /\ q.pc = "del_row"
      BY <1>5, <2>2 DEF DeleteUserRow
    <3>2. req'[Cron] = next /\ user' = [user EXCEPT ![q.user] = "none"]
      BY <3>1, CommitNext DEF SetUser
    <3>3. next \in Request
      BY IdleFits DEF Request, PCs
    <3>4. Fits(Cron)'
      <4>1. CASE q.found = {}
        BY <3>2, <4>1, IdleFits
      <4>2. CASE q.found # {}
        <5>1. /\ next.pc = "task_next" /\ next.user = None /\ next.found = q.found
              /\ next.stale = q.stale
          BY <4>2 DEF Request
        <5>2. q.user \notin q.found
          BY <3>1 DEF ParametersFit
        <5>3. q.stale \/ \A v \in q.found : user'[v] = "inactive"
          BY <3>1, <3>2, <5>2, AccountsAssumption DEF ReadsHold, Judged, Request, AccountsInv, TypeOK
        <5>. QED BY <3>2, <5>1, <5>3 DEF Fits, ParametersFit, ReadsHold, Judged
      <4>. QED BY <4>1, <4>2
    <3>. QED BY <2>2, <3>1, <3>3, <3>4, RemoveUserKeeps
  <2>. QED BY <2>1, <2>2
<1>. QED BY <1>1, <1>2, <1>3, <1>4, <1>5 DEF ResumeTask

\* What the requests rely on is all of users, emails and whose the sessions are.
LEMMA SameReads ==
  ASSUME AccountsInv, req' = req, user' = user, emails' = emails,
         \A s \in Sessions : session'[s].user = session[s].user
  PROVE  \A r \in Slots : ParametersFit(req[r])' /\ (req'[r].stale \/ ReadsHold(req[r])')
<1>. SUFFICES ASSUME NEW r \in Slots
              PROVE  ParametersFit(req[r])' /\ (req'[r].stale \/ ReadsHold(req[r])')
  OBVIOUS
<1>1. ParametersFit(req[r]) /\ (req[r].stale \/ ReadsHold(req[r]))
  BY DEF AccountsInv
<1>2. ParametersFit(req[r])'
  BY <1>1 DEF ParametersFit
<1>3. ASSUME ReadsHold(req[r])
      PROVE  ReadsHold(req[r])'
  <2>1. SessionsOf(req[r].user)' = SessionsOf(req[r].user)
    BY DEF SessionsOf
  <2>2. Judged(req[r])' = Judged(req[r])
    BY DEF Judged
  <2>. QED BY <1>3, <2>1, <2>2 DEF ReadsHold
<1>4. req'[r].stale = req[r].stale
  OBVIOUS
<1>. QED
  <2>1. CASE req[r].stale
    BY <1>2, <1>4, <2>1, Zenon
  <2>2. CASE ReadsHold(req[r])
    BY <1>2, <1>3, <2>2, Zenon
  <2>. QED BY <1>1, <2>1, <2>2, Zenon

LEMMA NextKeeps ==
  ASSUME AccountsInv, [Next]_vars
  PROVE  AccountsInv'
<1>1. ASSUME NEW u \in Users, Register(u)
      PROVE  AccountsInv'
  <2>. DEFINE now == [user EXCEPT ![u] = "active"]
  <2>1. RowsFit(now, emails \cup {u}, session) /\ RowsLive(now, session, unused')
    BY <1>1, RowsFitNow DEF Register, RowsFit, RowsLive, States, Session
  <2>. QED BY <1>1, <2>1, CommitKeeps, AccountsAssumption
           DEF Register, Slots, AccountsInv, TypeOK
<1>2. ASSUME DeleteOldSessions \/ \E u \in Users : ChangeRole(u)
      PROVE  AccountsInv'
  <2>1. PICK S : DropRows(None, S, Idle) /\ unused' = unused
    BY <1>2 DEF DeleteOldSessions, ChangeRole
  <2>2. None \notin Slots
    BY AccountsAssumption DEF Slots
  <2>. QED BY <2>1, <2>2, DropRowsKeeps
<1>3. ASSUME NEW r \in Slots, Abort(r)
      PROVE  AccountsInv'
  BY <1>3, EndKeeps DEF Abort
<1>4. CASE NextDay
  <2>1. /\ \A s \in Sessions : Live(s) => session'[s] = [session[s] EXCEPT !.age = Older(@, OldestAge)]
        /\ \A s \in Sessions : ~Live(s) => session'[s] = NoSession
    BY <1>4 DEF NextDay
  <2>2. \A s \in Sessions : /\ session'[s] \in Session
                            /\ session'[s].user = session[s].user
                            /\ Live(s)' => Live(s)
    <3>1. \A a \in Ages : Older(a, OldestAge) \in Ages
      BY AccountsAssumption DEF Older, Ages, OldestAge
    <3>2. ASSUME NEW s \in Sessions
          PROVE  /\ session'[s] \in Session
                 /\ session'[s].user = session[s].user
                 /\ Live(s)' => Live(s)
      <4>1. session[s] \in Session
        BY DEF AccountsInv, TypeOK
      <4>. QED BY <2>1, <3>1, <4>1 DEF Session, Live, NoSession
    <3>. QED BY <3>2
  <2>3. away' \in [Users -> 0..InactiveDays]
    <3>1. \A a \in 0..InactiveDays : Older(a, InactiveDays) \in 0..InactiveDays
      BY AccountsAssumption DEF Older
    <3>. QED BY <1>4, <3>1, AccountsAssumption DEF NextDay, AccountsInv, TypeOK
  <2>4. user' = user /\ emails' = emails /\ unused' = unused /\ req' = req
    BY <1>4 DEF NextDay
  <2>5. TypeOK'
    <3>1. session' \in [Sessions -> Session]
      BY <1>4, <2>2 DEF NextDay
    <3>. QED BY <2>3, <2>4, <3>1 DEF AccountsInv, TypeOK
  <2>6. \A s \in Sessions : Live(s)' => s \notin unused' /\ user'[session'[s].user] # "none"
    BY <2>2, <2>4 DEF AccountsInv
  <2>7. \A u \in emails' : user'[u] # "none"
    BY <2>4 DEF AccountsInv
  <2>. QED BY <2>2, <2>4, <2>5, <2>6, <2>7, SameReads, Zenon DEF AccountsInv
<1>5. CASE UNCHANGED vars
  <2>1. /\ user' = user /\ emails' = emails /\ unused' = unused /\ req' = req
        /\ session' = session /\ away' = away
    BY <1>5 DEF vars
  <2>2. TypeOK'
    BY <2>1 DEF AccountsInv, TypeOK
  <2>3. \A s \in Sessions : Live(s)' => s \notin unused' /\ user'[session'[s].user] # "none"
    BY <2>1 DEF AccountsInv, Live
  <2>4. \A u \in emails' : user'[u] # "none"
    BY <2>1 DEF AccountsInv
  <2>. QED BY <2>1, <2>2, <2>3, <2>4, SameReads, Zenon DEF AccountsInv
<1>6. ASSUME NEW r \in Requests, Arrive(r) \/ Resume(r)
      PROVE  AccountsInv'
  BY <1>6, ArriveKeeps, ResumeKeeps DEF Slots
<1>7. ASSUME DeleteInactiveUsers \/ ResumeTask
      PROVE  AccountsInv'
  BY <1>7, TaskKeeps
<1>. QED
  <2>1. CASE Next
    BY <2>1, <1>1, <1>2, <1>3, <1>4, <1>6, <1>7, Zenon DEF Next
  <2>. QED BY <1>5, <2>1

(***************************************************************************)
(* No session or email outlives its user, and what login, the daily task   *)
(* and deleteUser rely on holds at each of their calls unless overtaken.   *)
(***************************************************************************)
THEOREM AccountsCorrect == Spec => []AccountsInv
<1>1. Init => AccountsInv
  <2>1. ASSUME Init
        PROVE  TypeOK
    BY <2>1, IdleFits, AccountsAssumption DEF Init, TypeOK, States, Session
  <2>. QED BY <2>1 DEF Init, AccountsInv, Live, Idle, ParametersFit, ReadsHold
<1>2. AccountsInv /\ [Next]_vars => AccountsInv'
  BY NextKeeps
<1>. QED BY <1>1, <1>2, PTL DEF Spec

\* Every state of Accounts is well typed.
THEOREM TypeCorrect == Spec => []TypeOK
<1>1. AccountsInv => TypeOK
  BY DEF AccountsInv
<1>. QED BY <1>1, AccountsCorrect, PTL
----------------------------------------------------------------------------
\* A request whose pc changes acts.
LEMMA PcActs ==
  ASSUME AccountsInv, AccountsInv', NEW r \in Slots, req'[r].pc # req[r].pc
  PROVE  Acts(r)
<1>1. req[r] \in Request /\ req'[r] \in Request
  BY DEF AccountsInv, TypeOK
<1>. QED BY <1>1 DEF Acts, Request

\* The writes of table User.
LEMMA UserWrites ==
  ASSUME AccountsInv, [Next]_vars
  PROVE  \/ user' = user
         \/ \E u \in Users, state \in {"active", "inactive"} : user' = [user EXCEPT ![u] = state]
         \/ /\ DeleteUserRow
            /\ user' = [user EXCEPT ![req[Cron].user] = "none"]
         \/ \E r \in Requests : /\ DeleteMergedUser(r) /\ req'[r] = Idle
                                /\ user' = [user EXCEPT ![req[r].user] = "none"]
<1>1. ASSUME NEW u \in Users, Register(u) \/ ChangeRole(u)
      PROVE  user' = user \/ user' = [user EXCEPT ![u] = "active"]
  BY <1>1 DEF Register, ChangeRole, DropRows, Commit
<1>2. ASSUME NEW r \in Requests, Arrive(r)
      PROVE  user' = user \/ \E u \in Users : user' = [user EXCEPT ![u] = "inactive"]
  BY <1>2 DEF Arrive, Login, LoginWithToken, DeactivateUser, Refresh, DeleteSession, MergeUsers,
              SetUser, Commit, tables
<1>3. ASSUME NEW r \in Requests, Resume(r), ~DeleteMergedUser(r)
      PROVE  \/ user' = user
             \/ \E u \in Users, state \in {"active", "inactive"} :
                  user' = [user EXCEPT ![u] = state]
  <2>. ParametersFit(req[r]) /\ req[r] \in Request
    BY DEF AccountsInv, TypeOK, Slots
  <2>1. CASE Activate(r)
    BY <2>1 DEF Activate, Unsaved, SetUser, Commit, ParametersFit
  <2>2. CASE MergeUpdate(r)
    BY <2>2 DEF MergeUpdate, Unsaved, SetUser, Commit, ParametersFit, Request, States
  <2>3. CASE ~Activate(r) /\ ~MergeUpdate(r)
    BY <1>3, <2>3
       DEF Resume, CreateSession, TouchSession, DeleteSessionRow, DropSessions, MoveEmails,
           FindSessionsToMove, MoveSession, Unsaved, SetSession, DropRows, Commit, tables
  <2>. QED BY <2>1, <2>2, <2>3
<1>4. ASSUME NEW r \in Requests, DeleteMergedUser(r)
      PROVE  \/ user' = user
             \/ req'[r] = Idle /\ user' = [user EXCEPT ![req[r].user] = "none"]
  BY <1>4 DEF DeleteMergedUser, Unsaved, SetUser, Commit, Slots
<1>5. ASSUME ResumeTask
      PROVE  \/ user' = user
             \/ DeleteUserRow /\ user' = [user EXCEPT ![req[Cron].user] = "none"]
  BY <1>5 DEF ResumeTask, NextUser, DeleteEmails, DeleteSessions, DeleteUserRow, Unsaved, SetUser,
              DropRows, Commit, tables
<1>6. ASSUME \/ DeleteOldSessions \/ DeleteInactiveUsers \/ NextDay \/ UNCHANGED vars
             \/ \E r \in Slots : Abort(r)
      PROVE  user' = user
  BY <1>6 DEF DeleteOldSessions, DropRows, Commit, DeleteInactiveUsers, NextDay, Abort, vars, tables
<1>. QED
  <2>1. CASE Next
    BY <2>1, <1>1, <1>2, <1>3, <1>4, <1>5, <1>6, Zenon DEF Next
  <2>. QED BY <2>1, <1>6

LEMMA DeletionJustified ==
  ASSUME AccountsInv, AccountsInv', [Next]_vars, NEW u \in Users,
         user[u] = "active", user'[u] = "none"
  PROVE  \E r \in Slots : /\ Acts(r) /\ req[r].user = u
                          /\ \/ req[r].pc = "del_row" /\ req[r].stale
                             \/ req[r].pc = "mrg_move"
<1>. user \in [Users -> States]
  BY DEF AccountsInv, TypeOK
<1>1. ASSUME DeleteUserRow, user' = [user EXCEPT ![req[Cron].user] = "none"]
      PROVE  Acts(Cron) /\ req[Cron].user = u /\ req[Cron].pc = "del_row" /\ req[Cron].stale
  <2>. DEFINE q == req[Cron]
  <2>. q \in Request /\ Cron \in Slots
    BY DEF AccountsInv, TypeOK, Slots
  <2>1. q.pc = "del_row" /\ q.user = u
    BY <1>1 DEF DeleteUserRow
  <2>2. ~ReadsHold(q)
    <3>1. u \in Judged(q)
      BY <2>1, AccountsAssumption DEF Judged
    <3>. QED BY <2>1, <3>1 DEF ReadsHold
  <2>3. q.stale
    BY <2>2 DEF AccountsInv
  <2>4. req'[Cron].pc \in {"idle", "task_next"}
    <3>. DEFINE next == IF q.found = {} THEN Idle ELSE [q EXCEPT !.pc = "task_next", !.user = None]
    <3>1. Deletable(q.user)
      BY <1>1, <2>1 DEF DeleteUserRow, Unsaved
    <3>2. req'[Cron] = next
      BY <1>1, <3>1, CommitNext DEF DeleteUserRow, SetUser
    <3>. QED BY <3>2 DEF Idle, Request
  <2>5. Acts(Cron)
    BY <2>1, <2>4, PcActs
  <2>. QED BY <2>1, <2>3, <2>5, Zenon
<1>2. ASSUME NEW r \in Requests, DeleteMergedUser(r), req'[r] = Idle,
             user' = [user EXCEPT ![req[r].user] = "none"]
      PROVE  Acts(r) /\ req[r].user = u /\ req[r].pc = "mrg_move"
  <2>1. req[r].pc = "mrg_move" /\ req[r].user = u
    BY <1>2 DEF DeleteMergedUser
  <2>2. Acts(r)
    BY <1>2, <2>1, PcActs DEF Idle, Slots
  <2>. QED BY <2>1, <2>2
<1>. QED
  <2>1. CASE /\ DeleteUserRow
             /\ user' = [user EXCEPT ![req[Cron].user] = "none"]
    BY <1>1, <2>1, Zenon DEF Slots
  <2>2. CASE \E r \in Requests : /\ DeleteMergedUser(r) /\ req'[r] = Idle
                                 /\ user' = [user EXCEPT ![req[r].user] = "none"]
    <3>1. PICK r \in Requests : /\ DeleteMergedUser(r) /\ req'[r] = Idle
                                /\ user' = [user EXCEPT ![req[r].user] = "none"]
      BY <2>2
    <3>. QED BY <1>2, <3>1, Zenon DEF Slots
  <2>3. CASE \/ user' = user
             \/ \E v \in Users, state \in {"active", "inactive"} :
                  user' = [user EXCEPT ![v] = state]
    BY <2>3
  <2>. QED BY <2>1, <2>2, <2>3, UserWrites

\* The daily task deletes an active user only if overtaken by its reactivation.
THEOREM ActiveUsersAreKept == Spec => ActiveUsersKept
<1>1. AccountsInv /\ AccountsInv' /\ [Next]_vars =>
        [\A u \in Users :
           user[u] = "active" /\ user'[u] = "none" =>
             \E r \in Slots : /\ Acts(r) /\ req[r].user = u
                              /\ \/ req[r].pc = "del_row" /\ req[r].stale
                                 \/ req[r].pc = "mrg_move"]_user
  BY DeletionJustified
<1>. QED BY <1>1, AccountsCorrect, PTL DEF Spec, ActiveUsersKept
----------------------------------------------------------------------------
\* The calls that give user u a session, a new one or one that was another user's.
LEMMA SessionGiven ==
  ASSUME AccountsInv, [Next]_vars, NEW s \in Sessions, NEW u \in Users,
         session'[s].user = u, session[s].user # u
  PROVE  \E r \in Requests :
           \/ CreateSession(r) /\ req[r].user = u /\ req'[r] = Idle
           \/ MoveSession(r, s) /\ req'[r] = [req[r] EXCEPT !.move = @ \ {s}]
<1>. session \in [Sessions -> Session] /\ NoSession.user \notin Users
  BY AccountsAssumption DEF AccountsInv, TypeOK, NoSession
<1>1. session' # session /\ session'[s] # NoSession
  OBVIOUS
<1>2. ~\E r, S, next : DropRows(r, S, next)
  BY <1>1 DEF DropRows, Commit
<1>3. ASSUME NEW r \in Requests, CreateSession(r)
      PROVE  req[r].user = u /\ req'[r] = Idle
  <2>1. PICK t \in unused : SetSession(r, t, [user |-> req[r].user, age |-> 0], Idle)
    BY <1>1, <1>3 DEF CreateSession, Unsaved
  <2>2. req'[r] = Idle
    BY <2>1, CommitNext DEF SetSession, Slots
  <2>3. session' = [session EXCEPT ![t] = [user |-> req[r].user, age |-> 0]]
    BY <2>1 DEF SetSession, Commit
  <2>. QED BY <2>2, <2>3
<1>4. ASSUME NEW r \in Requests, NEW t \in Sessions, MoveSession(r, t)
      PROVE  t = s /\ req'[r] = [req[r] EXCEPT !.move = @ \ {s}]
  <2>1. SetSession(r, t, [user |-> req[r].base, age |-> 0], [req[r] EXCEPT !.move = @ \ {t}])
    BY <1>1, <1>4 DEF MoveSession, Unsaved
  <2>2. t = s
    BY <2>1 DEF SetSession, Commit
  <2>. QED BY <2>1, <2>2, CommitNext DEF SetSession, Slots
<1>5. ASSUME NEW r \in Requests
      PROVE  ~TouchSession(r)
  <2>1. SUFFICES ASSUME TouchSession(r)
                 PROVE  session'[s].user \in {session[s].user, None}
    BY AccountsAssumption
  <2>. DEFINE x == req[r].id
              new == IF Live(x) THEN [session[x] EXCEPT !.age = 0] ELSE NoSession
  <2>2. session' = [session EXCEPT ![x] = new]
    BY <2>1 DEF TouchSession, SetSession, Commit
  <2>3. CASE x = s
    <3>1. session'[s] = new
      BY <2>2, <2>3
    <3>2. session[s] \in Session
      OBVIOUS
    <3>. QED BY <2>3, <3>1, <3>2 DEF Session, NoSession
  <2>4. CASE x # s
    BY <2>2, <2>4
  <2>. QED BY <2>3, <2>4
<1>6. ~NextDay
  <2>1. SUFFICES ASSUME NextDay
                 PROVE  session'[s].user \in {session[s].user, None}
    BY AccountsAssumption
  <2>2. \/ session'[s] = [session[s] EXCEPT !.age = Older(@, OldestAge)]
        \/ session'[s] = NoSession
    BY <2>1 DEF NextDay
  <2>3. session[s] \in Session
    OBVIOUS
  <2>. QED BY <2>2, <2>3 DEF Session, NoSession
<1>7. ASSUME NEW r \in Requests, Resume(r)
      PROVE  CreateSession(r) \/ \E t \in Sessions : MoveSession(r, t)
  BY <1>1, <1>2, <1>5, <1>7
     DEF Resume, Activate, DeleteSessionRow, DropSessions, MergeUpdate, MoveEmails,
         FindSessionsToMove, DeleteMergedUser, Unsaved, SetUser, Commit, tables
<1>8. ASSUME NEW r \in Requests
      PROVE  ~Arrive(r)
  BY <1>1 DEF Arrive, Login, LoginWithToken, DeactivateUser, Refresh, DeleteSession, MergeUsers,
              SetUser, Commit, tables
<1>9. ~ResumeTask /\ ~DeleteInactiveUsers /\ ~DeleteOldSessions
  BY <1>1, <1>2 DEF ResumeTask, NextUser, DeleteEmails, DeleteSessions, DeleteUserRow, Unsaved,
                    SetUser, Commit, DeleteInactiveUsers, DeleteOldSessions, tables
<1>10. ASSUME NEW v \in Users
       PROVE  ~Register(v) /\ ~ChangeRole(v)
  BY <1>1, <1>2 DEF Register, ChangeRole, Commit
<1>11. ~(\E r \in Slots : Abort(r)) /\ ~UNCHANGED vars
  BY <1>1 DEF Abort, tables, vars
<1>12. PICK r \in Requests : Resume(r)
  BY <1>6, <1>8, <1>9, <1>10, <1>11 DEF Next
<1>. QED BY <1>3, <1>4, <1>7, <1>12

LEMMA SessionJustified ==
  ASSUME AccountsInv, AccountsInv', [Next]_vars, NEW s \in Sessions, NEW u \in Users,
         user[u] = "inactive", session'[s].user = u, session[s].user # u
  PROVE  \E r \in Requests : /\ Acts(r)
                             /\ \/ req[r].pc \in {"tok_create", "mrg_move"}
                                \/ req[r].pc = "log_create" /\ req[r].stale
<1>1. PICK r \in Requests : \/ CreateSession(r) /\ req[r].user = u /\ req'[r] = Idle
                            \/ MoveSession(r, s) /\ req'[r] = [req[r] EXCEPT !.move = @ \ {s}]
  BY SessionGiven
<1>. DEFINE q == req[r]
<1>. r \in Slots /\ q \in Request /\ req'[r] \in Request
  BY DEF AccountsInv, TypeOK, Slots
<1>2. CASE CreateSession(r) /\ q.user = u /\ req'[r] = Idle
  <2>1. q.pc \in {"tok_create", "log_create"}
    BY <1>2 DEF CreateSession
  <2>2. q.pc = "log_create" => q.stale
    BY <1>2 DEF AccountsInv, ReadsHold
  <2>3. Acts(r)
    BY <1>2, <2>1, PcActs DEF Idle
  <2>. QED BY <2>1, <2>2, <2>3, Zenon
<1>3. CASE MoveSession(r, s) /\ req'[r] = [q EXCEPT !.move = @ \ {s}]
  <2>1. q.pc = "mrg_move" /\ s \in q.move
    BY <1>3 DEF MoveSession
  <2>2. req'[r].move # q.move
    BY <1>3, <2>1 DEF Request
  <2>3. Acts(r)
    BY <2>2 DEF Acts, Request
  <2>. QED BY <2>1, <2>3, Zenon
<1>. QED BY <1>1, <1>2, <1>3

\* Only logins blind to active, merge and an overtaken login sign an inactive user in.
THEOREM InactiveSignsInNowhereElse == Spec => InactiveGetsNoSession
<1>1. AccountsInv /\ AccountsInv' /\ [Next]_vars =>
        [\A s \in Sessions, u \in Users :
           user[u] = "inactive" /\ session'[s].user = u /\ session[s].user # u =>
             \E r \in Requests : /\ Acts(r)
                                 /\ \/ req[r].pc \in {"tok_create", "mrg_move"}
                                    \/ req[r].pc = "log_create" /\ req[r].stale]_session
  BY SessionJustified
<1>. QED BY <1>1, AccountsCorrect, PTL DEF Spec, InactiveGetsNoSession

----------------------------------------------------------------------------
(* Requests and the daily task one at a time: stale stands for nothing but *)
(* races.                                                                  *)

AllIdleBut(r) == \A p \in Slots \ {r} : req[p] = Idle

\* Whoever takes the step, nobody else is in flight; a day passes at any time.
OneAtATime ==
  \/ \E r \in Requests : (Arrive(r) \/ Resume(r)) /\ AllIdleBut(r)
  \/ (DeleteInactiveUsers \/ ResumeTask) /\ AllIdleBut(Cron)
  \/ (\E u \in Users : Register(u) \/ ChangeRole(u)) /\ AllIdleBut(None)
  \/ DeleteOldSessions /\ AllIdleBut(None)
  \/ \E r \in Slots : Abort(r)
  \/ NextDay

NoneStale == \A r \in Slots : ~req[r].stale

\* A request that is not stale, with other fields changed.
LEMMA FieldsLeaveStale ==
  ASSUME NEW q \in Request, ~q.stale
  PROVE  \A a, b, c, d :
           /\ ~[q EXCEPT !.pc = a].stale
           /\ ~[q EXCEPT !.move = a].stale
           /\ ~[q EXCEPT !.pc = a, !.was = b].stale
           /\ ~[q EXCEPT !.pc = a, !.move = b].stale
           /\ ~[q EXCEPT !.pc = a, !.user = b].stale
           /\ ~[q EXCEPT !.pc = a, !.id = b].stale
           /\ ~[q EXCEPT !.pc = a, !.found = b].stale
           /\ ~[q EXCEPT !.pc = a, !.user = b, !.found = c].stale
           /\ ~[q EXCEPT !.pc = a, !.base = b, !.user = c, !.was = d].stale
  BY DEF Request

LEMMA BecomeIsFresh ==
  ASSUME AccountsInv, NoneStale, NEW r \in Slots, NEW next, Become(r, next), ~next.stale
  PROVE  NoneStale'
  BY DEF AccountsInv, TypeOK, NoneStale, Become

LEMMA CommitIsFresh ==
  ASSUME AccountsInv, NoneStale, NEW r, AllIdleBut(r), NEW users, NEW mail, NEW sessions,
         NEW next, Commit(r, users, mail, sessions, next), ~next.stale
  PROVE  NoneStale'
<1>1. ~Overtaken(Idle, users, mail, sessions)
  BY DEF Overtaken, Judged, Idle
<1>2. ASSUME NEW p \in Slots \ {r}
      PROVE  ~req'[p].stale
  <2>1. /\ req[p] = Idle
        /\ req'[p] = [req[p] EXCEPT !.stale = @ \/ Overtaken(req[p], users, mail, sessions)]
    BY <1>2 DEF Commit, AllIdleBut
  <2>2. req'[p].stale = (Idle.stale \/ Overtaken(Idle, users, mail, sessions))
    BY <2>1, IdleFits DEF Request
  <2>. QED BY <1>1, <2>2 DEF Idle
<1>. QED BY <1>2 DEF Commit, NoneStale

LEMMA UnsavedIsFresh ==
  ASSUME AccountsInv, NoneStale, NEW r \in Slots, Unsaved(r)
  PROVE  NoneStale'
  BY BecomeIsFresh DEF Unsaved, Reply, Idle

LEMMA ArriveIsFresh ==
  ASSUME AccountsInv, NoneStale, NEW r \in Requests, AllIdleBut(r), Arrive(r)
  PROVE  NoneStale'
<1>. Idle \in Request /\ ~Idle.stale /\ r \in Slots
  BY IdleFits DEF Idle, Slots
<1>1. ASSUME NEW u \in Users, Login(r, u)
      PROVE  NoneStale'
  BY <1>1, BecomeIsFresh, FieldsLeaveStale DEF Login
<1>2. ASSUME NEW u \in Users, LoginWithToken(r, u)
      PROVE  NoneStale'
  BY <1>2, BecomeIsFresh, FieldsLeaveStale DEF LoginWithToken
<1>3. ASSUME NEW u \in Users, DeactivateUser(r, u)
      PROVE  NoneStale'
  BY <1>3, CommitIsFresh, FieldsLeaveStale DEF DeactivateUser, SetUser
<1>4. ASSUME NEW s \in Sessions, Refresh(r, s)
      PROVE  NoneStale'
  BY <1>4, BecomeIsFresh, FieldsLeaveStale DEF Refresh
<1>5. ASSUME NEW s \in Sessions, DeleteSession(r, s)
      PROVE  NoneStale'
  BY <1>5, BecomeIsFresh, FieldsLeaveStale DEF DeleteSession
<1>6. ASSUME NEW base \in Users, NEW other \in Users, MergeUsers(r, base, other)
      PROVE  NoneStale'
  BY <1>6, BecomeIsFresh, FieldsLeaveStale DEF MergeUsers
<1>. QED BY <1>1, <1>2, <1>3, <1>4, <1>5, <1>6 DEF Arrive

LEMMA ResumeIsFresh ==
  ASSUME AccountsInv, NoneStale, NEW r \in Requests, AllIdleBut(r), Resume(r)
  PROVE  NoneStale'
<1>. r \in Slots
  BY DEF Slots
<1>. Idle \in Request /\ ~Idle.stale /\ req[r] \in Request /\ ~req[r].stale
  BY IdleFits DEF Idle, AccountsInv, TypeOK, NoneStale
<1>1. CASE Activate(r)
  BY <1>1, CommitIsFresh, UnsavedIsFresh, FieldsLeaveStale DEF Activate, SetUser
<1>2. CASE CreateSession(r) \/ TouchSession(r)
  BY <1>2, CommitIsFresh, UnsavedIsFresh DEF CreateSession, TouchSession, SetSession
<1>3. CASE DeleteSessionRow(r) \/ DropSessions(r)
  BY <1>3, CommitIsFresh DEF DeleteSessionRow, DropSessions, DropRows
<1>4. CASE MergeUpdate(r)
  BY <1>4, CommitIsFresh, UnsavedIsFresh, FieldsLeaveStale DEF MergeUpdate, SetUser
<1>5. CASE MoveEmails(r)
  BY <1>5, CommitIsFresh, UnsavedIsFresh, FieldsLeaveStale DEF MoveEmails
<1>6. CASE FindSessionsToMove(r)
  BY <1>6, BecomeIsFresh, FieldsLeaveStale DEF FindSessionsToMove
<1>7. ASSUME NEW s \in Sessions, MoveSession(r, s)
      PROVE  NoneStale'
  <2>1. ~[req[r] EXCEPT !.move = @ \ {s}].stale
    BY FieldsLeaveStale
  <2>. QED BY <1>7, <2>1, CommitIsFresh, UnsavedIsFresh DEF MoveSession, SetSession
<1>8. CASE DeleteMergedUser(r)
  BY <1>8, CommitIsFresh, UnsavedIsFresh DEF DeleteMergedUser, SetUser
<1>. QED BY <1>1, <1>2, <1>3, <1>4, <1>5, <1>6, <1>7, <1>8 DEF Resume

LEMMA TaskIsFresh ==
  ASSUME AccountsInv, NoneStale, AllIdleBut(Cron), DeleteInactiveUsers \/ ResumeTask
  PROVE  NoneStale'
<1>. DEFINE q == req[Cron]
<1>. Cron \in Slots
  BY DEF Slots
<1>. Idle \in Request /\ ~Idle.stale /\ q \in Request /\ ~q.stale
  BY IdleFits DEF Idle, AccountsInv, TypeOK, NoneStale
<1>1. CASE DeleteInactiveUsers
  BY <1>1, BecomeIsFresh, FieldsLeaveStale DEF DeleteInactiveUsers
<1>2. ASSUME NEW u \in Users, NextUser(u)
      PROVE  NoneStale'
  <2>1. ~[q EXCEPT !.pc = "del_emails", !.user = u, !.found = @ \ {u}].stale
    BY FieldsLeaveStale
  <2>. QED BY <1>2, <2>1, BecomeIsFresh DEF NextUser, Reply
<1>3. CASE DeleteEmails
  BY <1>3, CommitIsFresh, FieldsLeaveStale DEF DeleteEmails
<1>4. CASE DeleteSessions
  BY <1>4, CommitIsFresh, FieldsLeaveStale DEF DeleteSessions, DropRows
<1>5. CASE DeleteUserRow
  <2>. DEFINE next == IF q.found = {} THEN Idle ELSE [q EXCEPT !.pc = "task_next", !.user = None]
  <2>1. ~next.stale
    BY FieldsLeaveStale
  <2>2. SetUser(Cron, q.user, "none", next) \/ Unsaved(Cron)
    BY <1>5 DEF DeleteUserRow
  <2>. HIDE DEF next
  <2>. QED BY <2>1, <2>2, CommitIsFresh, UnsavedIsFresh DEF SetUser
<1>. QED BY <1>1, <1>2, <1>3, <1>4, <1>5 DEF ResumeTask

\* Of requests and tasks one at a time none is ever stale.
LEMMA NoneIsOvertaken == Spec /\ [][OneAtATime]_vars => []NoneStale
<1>1. Init => NoneStale
  BY DEF Init, NoneStale, Idle
<1>2. AccountsInv /\ NoneStale /\ [OneAtATime]_vars => NoneStale'
  <2>1. ASSUME AccountsInv, NoneStale, NEW r \in Slots, Abort(r)
        PROVE  NoneStale'
    BY <2>1, BecomeIsFresh DEF Abort, Reply, Idle
  <2>2. ASSUME AccountsInv, NoneStale, AllIdleBut(None),
               (\E u \in Users : Register(u) \/ ChangeRole(u)) \/ DeleteOldSessions
        PROVE  NoneStale'
    <3>1. \E users, mail, sessions : Commit(None, users, mail, sessions, Idle)
      BY <2>2 DEF Register, ChangeRole, DeleteOldSessions, DropRows
    <3>2. ~Idle.stale
      BY DEF Idle
    <3>. QED BY <2>2, <3>1, <3>2, CommitIsFresh
  <2>3. UNCHANGED vars \/ NextDay => (NoneStale => NoneStale')
    BY DEF vars, NextDay, NoneStale
  <2>. QED BY <2>1, <2>2, <2>3, ArriveIsFresh, ResumeIsFresh, TaskIsFresh DEF OneAtATime
<1>. QED BY <1>1, <1>2, AccountsCorrect, PTL DEF Spec

\* With requests and the daily task one at a time, an active user's row goes only
\* through merge (deleteInactiveUsers and the deleteUser it calls).
THEOREM ActiveKeptOneAtATime ==
  Spec /\ [][OneAtATime]_vars =>
    [][\A u \in Users :
         user[u] = "active" /\ user'[u] = "none" =>
           \E r \in Slots : Acts(r) /\ req[r].user = u /\ req[r].pc = "mrg_move"]_vars
<1>1. AccountsInv /\ AccountsInv' /\ NoneStale /\ [Next]_vars =>
        [\A u \in Users :
           user[u] = "active" /\ user'[u] = "none" =>
             \E r \in Slots : Acts(r) /\ req[r].user = u /\ req[r].pc = "mrg_move"]_vars
  BY DeletionJustified DEF NoneStale
<1>. QED BY <1>1, AccountsCorrect, NoneIsOvertaken, PTL DEF Spec

\* With requests and the daily task one at a time, an inactive user gets a session
\* only from merge or from the logins that do not look at active.
THEOREM InactiveOneAtATime ==
  Spec /\ [][OneAtATime]_vars =>
    [][\A s \in Sessions, u \in Users :
         user[u] = "inactive" /\ session'[s].user = u /\ session[s].user # u =>
           \E r \in Requests : Acts(r) /\ req[r].pc \in {"tok_create", "mrg_move"}]_vars
<1>1. AccountsInv /\ AccountsInv' /\ NoneStale /\ [Next]_vars =>
        [\A s \in Sessions, u \in Users :
           user[u] = "inactive" /\ session'[s].user = u /\ session[s].user # u =>
             \E r \in Requests : Acts(r) /\ req[r].pc \in {"tok_create", "mrg_move"}]_vars
  <2>. Requests \subseteq Slots
    BY DEF Slots
  <2>. QED BY SessionJustified DEF NoneStale
<1>. QED BY <1>1, AccountsCorrect, NoneIsOvertaken, PTL DEF Spec
=============================================================================
