------------------------------ MODULE Accounts ------------------------------
(***************************************************************************)
(* Accounts as they are registered, signed in to, deactivated, reactivated *)
(* merged and deleted: the logins, refresh, logout and merge of            *)
(* auth.service.ts, deactivateUser and deleteUser of users.service.ts,     *)
(* deleteSession of sessions.service.ts, and the daily deleteOldSessions   *)
(* and deleteInactiveUsers of tasks.service.ts.                            *)
(*                                                                         *)
(* A request in flight is a record whose pc names the database call it is  *)
(* about to make.  Time is counted in days, as ages that stop growing once *)
(* nothing compares them with more.                                        *)
(***************************************************************************)
EXTENDS Naturals

CONSTANTS
  Users,         \* user ids
  Sessions,      \* bound: the session rows the database ever creates
  Requests,      \* slots for requests in flight
  Cron,          \* the slot of deleteInactiveUsers
  UnusedDays,    \* security.unusedRefreshTokenExpiryDays
  InactiveDays,  \* security.inactiveUserDeleteDays
  None           \* no value

ASSUME AccountsAssumption ==
  /\ Cron \notin Requests
  /\ UnusedDays \in Nat /\ InactiveDays \in Nat
  /\ None \notin Users \cup Sessions \cup Requests \cup {Cron}

VARIABLES
  user,      \* table User: "active", "inactive", or "none" without a row
  emails,    \* the users that have a row in table Email
  session,   \* table Session: the user, and the days since updatedAt
  unused,    \* the session ids not handed out yet
  away,      \* history: the days since a user was deactivated
  req        \* requests in flight

vars == <<user, emails, session, unused, away, req>>

Slots == Requests \cup {Cron}
OldestAge == IF UnusedDays > InactiveDays THEN UnusedDays ELSE InactiveDays
Ages == 0..OldestAge

NoSession == [user |-> None, age |-> 0]
Session == [user : Users, age : Ages] \cup {NoSession}

Idle == [pc |-> "idle", user |-> None, base |-> None, id |-> None, was |-> "none",
         found |-> {}, move |-> {}, stale |-> FALSE]

PCs == {"idle", "log_activate", "log_create", "tok_create", "rfr_touch", "out_delete",
        "off_sessions", "task_next", "del_emails", "del_sessions", "del_row",
        "mrg_update", "mrg_emails", "mrg_sessions", "mrg_move"}

States == {"none", "active", "inactive"}

Request == [pc : PCs, user : Users \cup {None}, base : Users \cup {None},
            id : Sessions \cup {None}, was : States, found : SUBSET Users,
            move : SUBSET Sessions, stale : BOOLEAN]

TypeOK ==
  /\ user \in [Users -> States]
  /\ emails \subseteq Users
  /\ session \in [Sessions -> Session]
  /\ unused \subseteq Sessions
  /\ away \in [Users -> 0..InactiveDays]
  /\ req \in [Slots -> Request]

----------------------------------------------------------------------------
Live(s) == session[s] # NoSession
SessionsOf(u) == {s \in Sessions : session[s].user = u}

Older(age, limit) == IF age < limit THEN age + 1 ELSE limit

(* How a step of request r ends.  The history field stale of the others    *)
(* records that what they read of a user, and still act on, has changed.   *)

Become(r, next) == req' = [req EXCEPT ![r] = next]
Reply(r) == Become(r, Idle)

\* The users whose state the request has read and relies on.
Judged(q) ==
  IF q.pc \in {"log_create", "task_next", "del_emails", "del_sessions", "del_row"}
    THEN (q.found \cup {q.user}) \ {None} ELSE {}

Overtaken(q, users, mail, sessions) ==
  \/ \E u \in Judged(q) : users[u] # user[u]
  \/ q.pc \in {"del_sessions", "del_row"} /\ q.user \in mail \ emails
  \/ /\ q.pc = "del_row"
     /\ \E s \in Sessions : sessions[s].user = q.user /\ session[s].user # q.user

Commit(r, users, mail, sessions, next) ==
  /\ user' = users
  /\ emails' = mail
  /\ session' = sessions
  /\ away' = [u \in Users |-> IF user[u] # users[u] THEN 0 ELSE away[u]]
  /\ req' = [p \in Slots |->
               IF p = r THEN next
               ELSE [req[p] EXCEPT !.stale = @ \/ Overtaken(req[p], users, mail, sessions)]]

SetUser(r, u, state, next) == Commit(r, [user EXCEPT ![u] = state], emails, session, next)
SetSession(r, s, row, next) == Commit(r, user, emails, [session EXCEPT ![s] = row], next)
DropRows(r, S, next) ==
  Commit(r, user, emails, [s \in Sessions |-> IF s \in S THEN NoSession ELSE session[s]], next)

tables == <<user, emails, session, unused, away>>
Unsaved(r) == Reply(r) /\ UNCHANGED <<user, emails, session, away>>

----------------------------------------------------------------------------
Init ==
  /\ user = [u \in Users |-> "none"]
  /\ emails = {}
  /\ session = [s \in Sessions |-> NoSession]
  /\ unused = Sessions
  /\ away = [u \in Users |-> 0]
  /\ req = [r \in Slots |-> Idle]

Register(u) ==
  /\ user[u] = "none"
  /\ Commit(None, [user EXCEPT ![u] = "active"], emails \cup {u}, session, Idle)
  /\ UNCHANGED unused

\* Mutant: an inactive user signs in and stays inactive.
LoginWithoutReactivation(r, u) ==
  /\ req[r] = Idle
  /\ u \in emails
  /\ Become(r, [Idle EXCEPT !.pc = "log_create", !.user = u])
  /\ UNCHANGED tables

(* login: the user is found by email and, if inactive, reactivated before  *)
(* its email, password and subnet are judged.                              *)
Login(r, u) ==
  /\ req[r] = Idle
  /\ u \in emails
  /\ Become(r, [Idle EXCEPT !.pc = IF user[u] = "inactive" THEN "log_activate"
                                                           ELSE "log_create",
                            !.user = u])
  /\ UNCHANGED tables

\* The reactivation, and then either the session or a refusal.
Activate(r) ==
  LET q == req[r] IN
  /\ q.pc = "log_activate"
  /\ IF user[q.user] = "none" THEN Unsaved(r)
     ELSE \E next \in {Idle, [q EXCEPT !.pc = "log_create"]} :
            SetUser(r, q.user, "active", next)
  /\ UNCHANGED unused

(* loginWithTotp, loginWithEmailToken, approveSubnet, resetPassword,       *)
(* verifyEmail and thirdPartyLogin find the user and end in loginResponse  *)
(* without a look at active.                                               *)
LoginWithToken(r, u) ==
  /\ req[r] = Idle
  /\ user[u] # "none"
  /\ Become(r, [Idle EXCEPT !.pc = "tok_create", !.user = u])
  /\ UNCHANGED tables

\* loginResponse
CreateSession(r) ==
  LET q == req[r] IN
  /\ q.pc \in {"log_create", "tok_create"}
  /\ IF user[q.user] # "none" /\ unused # {}
       THEN \E s \in unused :
              /\ SetSession(r, s, [user |-> q.user, age |-> 0], Idle)
              /\ unused' = unused \ {s}
       ELSE Unsaved(r) /\ UNCHANGED unused
  /\ UNCHANGED emails

(* refresh: find the session, then touch whatever rows have its token. *)
Refresh(r, s) ==
  /\ req[r] = Idle
  /\ Live(s)
  /\ Become(r, [Idle EXCEPT !.pc = "rfr_touch", !.id = s])
  /\ UNCHANGED tables

TouchSession(r) ==
  LET q == req[r] IN
  /\ q.pc = "rfr_touch"
  /\ SetSession(r, q.id, IF Live(q.id) THEN [session[q.id] EXCEPT !.age = 0] ELSE NoSession,
                Idle)
  /\ UNCHANGED unused

(* logout, deleteSession: find the session, then delete it. *)
DeleteSession(r, s) ==
  /\ req[r] = Idle
  /\ Live(s)
  /\ Become(r, [Idle EXCEPT !.pc = "out_delete", !.id = s])
  /\ UNCHANGED tables

DeleteSessionRow(r) ==
  LET q == req[r] IN
  /\ q.pc = "out_delete"
  /\ DropRows(r, {q.id}, Idle)
  /\ UNCHANGED unused

\* Mutant: the sessions lose their user and stay.
DetachSessions(r) ==
  /\ req[r].pc = "off_sessions"
  /\ Commit(r, user, emails,
            [s \in Sessions |-> IF s \in SessionsOf(req[r].user) THEN [session[s] EXCEPT !.user = None]
                                                               ELSE session[s]], Idle)
  /\ UNCHANGED unused

(* deactivateUser: the flag, then the sessions. *)
DeactivateUser(r, u) ==
  /\ req[r] = Idle
  /\ user[u] # "none"
  /\ SetUser(r, u, "inactive", [Idle EXCEPT !.pc = "off_sessions", !.user = u])
  /\ UNCHANGED unused

DropSessions(r) ==
  LET q == req[r] IN
  /\ q.pc = "off_sessions"
  /\ DropRows(r, SessionsOf(q.user), Idle)
  /\ UNCHANGED unused

(* updateUser, once it has written another role, ends all sessions. *)
ChangeRole(u) ==
  /\ user[u] # "none"
  /\ DropRows(None, SessionsOf(u), Idle)
  /\ UNCHANGED unused

----------------------------------------------------------------------------
(* The daily tasks, and the day. *)

DeleteOldSessions ==
  /\ DropRows(None, {s \in Sessions : Live(s) /\ session[s].age >= UnusedDays}, Idle)
  /\ UNCHANGED unused

\* Mutant: users none of whose sessions has been used of late, active or not.
DeleteUnusedUsers ==
  LET found == {u \in Users : user[u] # "none" /\ \A s \in SessionsOf(u) : session[s].age >= InactiveDays}
  IN
  /\ req[Cron] = Idle
  /\ found # {}
  /\ Become(Cron, [Idle EXCEPT !.pc = "task_next", !.found = found])
  /\ UNCHANGED tables

\* Mutant: inactive users some session of whom has not been used of late.
DeleteUsersWithAnOldSession ==
  LET found == {u \in Users : user[u] = "inactive"
                                /\ \E s \in SessionsOf(u) : session[s].age >= InactiveDays}
  IN
  /\ req[Cron] = Idle
  /\ found # {}
  /\ Become(Cron, [Idle EXCEPT !.pc = "task_next", !.found = found])
  /\ UNCHANGED tables

\* Inactive users none of whose sessions has been used of late.
DeleteInactiveUsers ==
  LET unusedFor(u) == \A s \in SessionsOf(u) : session[s].age >= InactiveDays
      found == {u \in Users : user[u] = "inactive" /\ unusedFor(u)}
  IN
  /\ req[Cron] = Idle
  /\ found # {}
  /\ Become(Cron, [Idle EXCEPT !.pc = "task_next", !.found = found])
  /\ UNCHANGED tables

\* deleteUser of each, one after the other; a call that throws ends the task.
NextUser(u) ==
  LET q == req[Cron] IN
  /\ q.pc = "task_next"
  /\ u \in q.found
  /\ IF user[u] = "none"
       THEN Reply(Cron)
       ELSE Become(Cron, [q EXCEPT !.pc = "del_emails", !.user = u, !.found = @ \ {u}])
  /\ UNCHANGED tables

\* Mutant: deleteUser forgets the emails.
KeepEmails ==
  /\ req[Cron].pc = "del_emails"
  /\ Become(Cron, [req[Cron] EXCEPT !.pc = "del_sessions"])
  /\ UNCHANGED tables

DeleteEmails ==
  LET q == req[Cron] IN
  /\ q.pc = "del_emails"
  /\ Commit(Cron, user, emails \ {q.user}, session, [q EXCEPT !.pc = "del_sessions"])
  /\ UNCHANGED unused

DeleteSessions ==
  LET q == req[Cron] IN
  /\ q.pc = "del_sessions"
  /\ DropRows(Cron, SessionsOf(q.user), [q EXCEPT !.pc = "del_row"])
  /\ UNCHANGED unused

\* prisma.user.delete, refused while a session or an email refers to the user
Deletable(u) == user[u] # "none" /\ SessionsOf(u) = {} /\ u \notin emails

DeleteUserRow ==
  LET q == req[Cron]
      next == IF q.found = {} THEN Idle ELSE [q EXCEPT !.pc = "task_next", !.user = None]
  IN
  /\ q.pc = "del_row"
  /\ IF Deletable(q.user) THEN SetUser(Cron, q.user, "none", next)
                          ELSE Unsaved(Cron)
  /\ UNCHANGED unused

NextDay ==
  /\ session' = [s \in Sessions |->
                   IF Live(s) THEN [session[s] EXCEPT !.age = Older(@, OldestAge)]
                              ELSE NoSession]
  /\ away' = [u \in Users |-> IF user[u] = "inactive" THEN Older(away[u], InactiveDays)
                                                      ELSE 0]
  /\ UNCHANGED <<user, emails, unused, req>>

----------------------------------------------------------------------------
(* merge: the base user takes over the flags of the other (active is one), *)
(* its emails and its sessions, one row at a time; the other is deleted.   *)

MergeUsers(r, base, other) ==
  /\ req[r] = Idle
  /\ base # other
  /\ user[base] # "none" /\ user[other] # "none"
  /\ Become(r, [Idle EXCEPT !.pc = "mrg_update", !.base = base, !.user = other,
                            !.was = user[other]])
  /\ UNCHANGED tables

MergeUpdate(r) ==
  LET q == req[r] IN
  /\ q.pc = "mrg_update"
  /\ IF user[q.base] = "none" THEN Unsaved(r)
     ELSE SetUser(r, q.base, q.was, [q EXCEPT !.pc = "mrg_emails", !.was = "none"])
  /\ UNCHANGED unused

MoveEmails(r) ==
  LET q == req[r]
      moved == IF q.user \in emails THEN (emails \ {q.user}) \cup {q.base} ELSE emails
  IN
  /\ q.pc = "mrg_emails"
  /\ IF q.user \in emails /\ user[q.base] = "none"
       THEN Unsaved(r)
       ELSE Commit(r, user, moved, session, [q EXCEPT !.pc = "mrg_sessions"])
  /\ UNCHANGED unused

FindSessionsToMove(r) ==
  LET q == req[r] IN
  /\ q.pc = "mrg_sessions"
  /\ Become(r, [q EXCEPT !.pc = "mrg_move", !.move = SessionsOf(q.user)])
  /\ UNCHANGED tables

MoveSession(r, s) ==
  LET q == req[r] IN
  /\ q.pc = "mrg_move"
  /\ s \in q.move
  /\ IF Live(s) /\ user[q.base] # "none"
       THEN SetSession(r, s, [user |-> q.base, age |-> 0], [q EXCEPT !.move = @ \ {s}])
       ELSE Unsaved(r)
  /\ UNCHANGED unused

DeleteMergedUser(r) ==
  LET q == req[r] IN
  /\ q.pc = "mrg_move"
  /\ q.move = {}
  /\ IF Deletable(q.user) THEN SetUser(r, q.user, "none", Idle)
                          ELSE Unsaved(r)
  /\ UNCHANGED unused

----------------------------------------------------------------------------
Arrive(r) ==
  \/ \E u \in Users : Login(r, u) \/ LoginWithToken(r, u) \/ DeactivateUser(r, u)
  \/ \E s \in Sessions : Refresh(r, s) \/ DeleteSession(r, s)
  \/ \E base, other \in Users : MergeUsers(r, base, other)

Resume(r) ==
  \/ Activate(r) \/ CreateSession(r) \/ TouchSession(r) \/ DeleteSessionRow(r)
  \/ DropSessions(r) \/ MergeUpdate(r) \/ MoveEmails(r) \/ FindSessionsToMove(r)
  \/ (\E s \in Sessions : MoveSession(r, s)) \/ DeleteMergedUser(r)

ResumeTask ==
  \/ \E u \in Users : NextUser(u)
  \/ DeleteEmails \/ DeleteSessions \/ DeleteUserRow

\* A call fails, or the process restarts: what was written stays written.
Abort(r) ==
  /\ req[r] # Idle
  /\ Reply(r)
  /\ UNCHANGED tables

Next ==
  \/ \E u \in Users : Register(u) \/ ChangeRole(u)
  \/ \E r \in Requests : Arrive(r) \/ Resume(r)
  \/ DeleteOldSessions \/ DeleteInactiveUsers \/ ResumeTask
  \/ \E r \in Slots : Abort(r)
  \/ NextDay

Spec == Init /\ [][Next]_vars

\* Days pass; the scheduler starts the task every day and its calls answer.
FairSpec == Spec /\ WF_vars(NextDay) /\ WF_vars(DeleteInactiveUsers) /\ WF_vars(ResumeTask)

----------------------------------------------------------------------------
Acts(r) == [req[r] EXCEPT !.stale = FALSE] # [req'[r] EXCEPT !.stale = FALSE]

\* What the program knows of a request: which of its locals are set...
ParametersFit(q) ==
  /\ q.pc \in {"log_activate", "log_create", "tok_create", "off_sessions", "del_emails",
               "del_sessions", "del_row", "mrg_update", "mrg_emails", "mrg_sessions",
               "mrg_move"} => q.user \in Users
  /\ q.pc \in {"del_emails", "del_sessions", "del_row"} => q.user \notin q.found
  /\ q.pc \in {"rfr_touch", "out_delete"} => q.id \in Sessions
  /\ q.pc \in {"mrg_update", "mrg_emails", "mrg_sessions", "mrg_move"} => q.base \in Users
  /\ q.pc = "mrg_update" => q.was # "none"

\* ... and what it has read of its users, or removed of them.
ReadsHold(q) ==
  /\ q.pc = "log_create" => user[q.user] # "inactive"
  /\ q.pc \in {"task_next", "del_emails", "del_sessions", "del_row"} =>
       \A u \in Judged(q) : user[u] = "inactive"
  /\ q.pc \in {"del_sessions", "del_row"} => q.user \notin emails
  /\ q.pc = "del_row" => SessionsOf(q.user) = {}

(***************************************************************************)
(* The inductive invariant: sessions and emails are of users that exist    *)
(* although deleteUser and merge remove them in steps; and what login and  *)
(* deleteInactiveUsers read of their users, and what deleteUser has        *)
(* removed, still holds when they act on it unless they were overtaken.    *)
(***************************************************************************)
AccountsInv ==
  /\ TypeOK
  /\ \A s \in Sessions : Live(s) => s \notin unused /\ user[session[s].user] # "none"
  /\ \A u \in emails : user[u] # "none"
  /\ \A r \in Slots : ParametersFit(req[r]) /\ (req[r].stale \/ ReadsHold(req[r]))

(***************************************************************************)
(* The daily task deletes no active user, unless the user was reactivated  *)
(* after the task had found it, and merge deletes only what it merged.     *)
(***************************************************************************)
ActiveUsersKept ==
  [][\A u \in Users :
       user[u] = "active" /\ user'[u] = "none" =>
         \E r \in Slots : /\ Acts(r) /\ req[r].user = u
                          /\ \/ req[r].pc = "del_row" /\ req[r].stale
                             \/ req[r].pc = "mrg_move"]_user

(***************************************************************************)
(* An inactive user gets a session only from the logins that do not look   *)
(* at active, from merge, or from a login that a deactivation overtook.    *)
(***************************************************************************)
InactiveGetsNoSession ==
  [][\A s \in Sessions, u \in Users :
       user[u] = "inactive" /\ session'[s].user = u /\ session[s].user # u =>
         \E r \in Requests : /\ Acts(r)
                             /\ \/ req[r].pc \in {"tok_create", "mrg_move"}
                                \/ req[r].pc = "log_create" /\ req[r].stale]_session

\* The task ends without the user it was at deleted, or with users it never got to.
TaskCutShort ==
  LET q == req[Cron] IN
  /\ q.pc # "idle"
  /\ req'[Cron] = Idle
  /\ q.found # {} \/ q.user = None \/ user'[q.user] # "none"

(***************************************************************************)
(* An inactive user that nobody signs in as does not stay: it is deleted   *)
(* once its sessions are old, unless the task is for ever cut short (by    *)
(* another user that is gone or cannot be deleted, or by an error).        *)
(***************************************************************************)
InactiveUsersGo ==
  <>[][~TaskCutShort]_vars =>
    \A u \in Users :
      user[u] = "inactive" ~>
        user[u] # "inactive" \/ \E s \in SessionsOf(u) : session[s].age < InactiveDays

(***************************************************************************)
(* What deactivated.md tells a user: "you can log in within 30 days to     *)
(* reactivate it".                                                         *)
(***************************************************************************)
DaysToReactivate ==
  [][\A u \in Users :
       user[u] = "inactive" /\ user'[u] = "none" /\ req[Cron].pc = "del_row" /\ Acts(Cron)
         => away[u] >= InactiveDays]_user
=============================================================================
