------------------------------- MODULE Emails -------------------------------
(***************************************************************************)
(* The emails of a user and which of them is primary: emails.service.ts,   *)
(* and what registration, merging and deleting users do to the same rows   *)
(* (auth.service.ts, users.service.ts).                                    *)
(*                                                                         *)
(* A request in flight is a record whose pc names the database call it is  *)
(* about to make.  Addresses are unique; a call that would repeat one      *)
(* fails, like any other call.                                             *)
(***************************************************************************)
EXTENDS Naturals, FiniteSets

CONSTANTS
  Users,      \* user ids
  Emails,     \* email ids, each handed out once
  Requests,   \* slots for requests in flight
  None        \* null, undefined or no row

ASSUME EmailsAssumption ==
  /\ None \notin Users \cup Emails
  /\ Users \cap Emails = {}

VARIABLES
  users,      \* table User: the users there are
  prefers,    \* prefersEmailId of each, None when it is null
  owner,      \* table Email: whose each email is, None without a row
  unused,     \* the ids not handed out yet
  req,        \* requests in flight
  adrift      \* history: users whose primary email has been merged away

vars == <<users, prefers, owner, unused, req, adrift>>
database == <<users, prefers, owner, unused, adrift>>

EmailsOf(u) == {e \in Emails : owner[e] = u}

Idle == [pc |-> "idle", user |-> None, base |-> None, email |-> None, other |-> None,
         left |-> {}, stale |-> FALSE]

PCs == {"idle", "reg_prefer", "del_user", "del_others", "del_prefer", "del_row",
        "mrg_list", "mrg_move", "mrg_user", "rmv_emails", "rmv_user"}

Request == [pc : PCs, user : Users \cup {None}, base : Users \cup {None},
            email : Emails \cup {None}, other : Emails \cup {None}, left : SUBSET Emails,
            stale : BOOLEAN]

TypeOK ==
  /\ users \subseteq Users
  /\ prefers \in [Users -> Emails \cup {None}]
  /\ owner \in [Emails -> Users \cup {None}]
  /\ unused \subseteq Emails
  /\ req \in [Requests -> Request]
  /\ adrift \subseteq Users

Init ==
  /\ users = {}
  /\ prefers = [u \in Users |-> None]
  /\ owner = [e \in Emails |-> None]
  /\ unused = Emails
  /\ req = [r \in Requests |-> Idle]
  /\ adrift = {}

----------------------------------------------------------------------------
(* How a step of request r ends.  The history field stale of the others    *)
(* records that the emails of the user they work on have changed.          *)

Become(r, next) == req' = [req EXCEPT ![r] = next]
Reply(r) == Become(r, Idle)

Overtaken(q, owners, preferred) ==
  \/ \E e \in Emails : owners[e] # owner[e] /\ q.user \in {owner[e], owners[e]}
  \/ q.user \in Users /\ preferred[q.user] # prefers[q.user]

Commit(r, owners, preferred, next) ==
  /\ owner' = owners
  /\ prefers' = preferred
  /\ req' = [p \in Requests |->
               IF p = r THEN next
               ELSE IF req[p] = Idle THEN Idle
               ELSE [req[p] EXCEPT !.stale = @ \/ Overtaken(req[p], owners, preferred)]]

\* The optional key of the users that prefer a deleted email becomes null.
Unprefer(gone) == [u \in Users |-> IF prefers[u] \in gone THEN None ELSE prefers[u]]
Without(gone) == [e \in Emails |-> IF e \in gone THEN None ELSE owner[e]]

----------------------------------------------------------------------------
(* register: the user is created with its email, then the email becomes    *)
(* its primary one.                                                        *)

Register(r, u, e) ==
  /\ req[r] = Idle
  /\ u \notin users
  /\ e \in unused
  /\ users' = users \cup {u}
  /\ unused' = unused \ {e}
  /\ Commit(r, [owner EXCEPT ![e] = u], prefers,
            [Idle EXCEPT !.pc = "reg_prefer", !.user = u, !.email = e])
  /\ adrift' = adrift \ {u}

\* user.update connects an email that is there, whoever has it.
Prefer(r, e, next) ==
  LET q == req[r] IN
  IF q.user \in users /\ owner[e] # None
    THEN /\ Commit(r, owner, [prefers EXCEPT ![q.user] = e], next)
         /\ adrift' = IF owner[e] = q.user THEN adrift \ {q.user} ELSE adrift \cup {q.user}
    ELSE Reply(r) /\ UNCHANGED <<owner, prefers, adrift>>

PreferFirst(r) ==
  /\ req[r].pc = "reg_prefer"
  /\ Prefer(r, req[r].email, Idle)
  /\ UNCHANGED <<users, unused>>

----------------------------------------------------------------------------
(* createEmail                                                             *)

CreateEmail(r, u, e) ==
  /\ req[r] = Idle
  /\ u \in users
  /\ e \in unused
  /\ unused' = unused \ {e}
  /\ Commit(r, [owner EXCEPT ![e] = u], prefers, Idle)
  /\ UNCHANGED <<users, adrift>>

----------------------------------------------------------------------------
(* deleteEmail                                                             *)

DeleteEmail(r, u, e) ==
  /\ req[r] = Idle
  /\ IF owner[e] = u
       THEN Become(r, [Idle EXCEPT !.pc = "del_user", !.user = u, !.email = e])
       ELSE Reply(r)                    \* EMAIL_NOT_FOUND, UNAUTHORIZED_RESOURCE
  /\ UNCHANGED database

\* Mutant: the primary email is deleted like any other.
ReadNoPrimaryEmail(r) ==
  LET q == req[r] IN
  /\ q.pc = "del_user"
  /\ IF q.user \notin users \/ prefers[q.user] = None
       THEN Reply(r)
       ELSE Become(r, [q EXCEPT !.pc = "del_row"])
  /\ UNCHANGED database

\* A user that is gone is not found; one without a primary email throws.
ReadPrimaryEmail(r) ==
  LET q == req[r] IN
  /\ q.pc = "del_user"
  /\ IF q.user \notin users \/ prefers[q.user] = None
       THEN Reply(r)
       ELSE Become(r, [q EXCEPT !.pc = IF prefers[q.user] = q.email THEN "del_others"
                                                                    ELSE "del_row"])
  /\ UNCHANGED database

\* Mutant: the emails of everybody are found.
FindAnyOtherEmail(r) ==
  LET q == req[r]
      others == {e \in Emails : owner[e] # None} \ {q.email} IN
  /\ q.pc = "del_others"
  /\ IF others = {}
       THEN Reply(r)
       ELSE \E e \in others : Become(r, [q EXCEPT !.pc = "del_prefer", !.other = e])
  /\ UNCHANGED database

\* Mutant: there need be no other email.
FindOtherEmailsOrNone(r) ==
  LET q == req[r]
      others == EmailsOf(q.user) \ {q.email} IN
  /\ q.pc = "del_others"
  /\ IF others = {}
       THEN Become(r, [q EXCEPT !.pc = "del_row"])
       ELSE \E e \in others : Become(r, [q EXCEPT !.pc = "del_prefer", !.other = e])
  /\ UNCHANGED database

\* Mutant: the other email is not made the primary one before the deletion.
FindOtherEmailsOnly(r) ==
  LET q == req[r]
      others == EmailsOf(q.user) \ {q.email} IN
  /\ q.pc = "del_others"
  /\ IF others = {} THEN Reply(r) ELSE Become(r, [q EXCEPT !.pc = "del_row"])
  /\ UNCHANGED database

\* The first of the others, in no particular order.
FindOtherEmails(r) ==
  LET q == req[r]
      others == EmailsOf(q.user) \ {q.email} IN
  /\ q.pc = "del_others"
  /\ IF others = {}
       THEN Reply(r)                              \* EMAIL_DELETE_PRIMARY
       ELSE \E e \in others : Become(r, [q EXCEPT !.pc = "del_prefer", !.other = e])
  /\ UNCHANGED database

PreferOther(r) ==
  /\ req[r].pc = "del_prefer"
  /\ Prefer(r, req[r].other, [req[r] EXCEPT !.pc = "del_row", !.other = None])
  /\ UNCHANGED <<users, unused>>

DeleteEmailRow(r) ==
  LET q == req[r] IN
  /\ q.pc = "del_row"
  /\ IF owner[q.email] # None
       THEN Commit(r, Without({q.email}), Unprefer({q.email}), Idle)
       ELSE Reply(r) /\ UNCHANGED <<owner, prefers>>
  /\ UNCHANGED <<users, unused, adrift>>

----------------------------------------------------------------------------
(* merge moves the emails of one user to another, one by one, and deletes  *)
(* the user; the rows of the other tables and the other fields of the user *)
(* are not part of this module.                                            *)

MergeUsers(r, base, u) ==
  /\ req[r] = Idle
  /\ base # u
  /\ {base, u} \subseteq users
  /\ Become(r, [Idle EXCEPT !.pc = "mrg_list", !.user = u, !.base = base])
  /\ UNCHANGED database

ListEmails(r) ==
  /\ req[r].pc = "mrg_list"
  /\ Become(r, [req[r] EXCEPT !.pc = "mrg_move", !.left = EmailsOf(req[r].user)])
  /\ UNCHANGED database

MoveEmail(r, e) ==
  LET q == req[r] IN
  /\ q.pc = "mrg_move"
  /\ e \in q.left
  /\ IF owner[e] # None /\ q.base \in users
       THEN /\ Commit(r, [owner EXCEPT ![e] = q.base], prefers, [q EXCEPT !.left = @ \ {e}])
            /\ adrift' = adrift \cup {u \in Users \ {q.base} : prefers[u] = e}
       ELSE Reply(r) /\ UNCHANGED <<owner, prefers, adrift>>
  /\ UNCHANGED <<users, unused>>

EndMove(r) ==
  /\ req[r].pc = "mrg_move"
  /\ req[r].left = {}
  /\ Become(r, [req[r] EXCEPT !.pc = "mrg_user"])
  /\ UNCHANGED database

\* A user whose emails are there cannot be deleted: their key is required.
DeleteUserRow(r) ==
  LET u == req[r].user IN
  /\ req[r].pc \in {"mrg_user", "rmv_user"}
  /\ IF u \in users /\ EmailsOf(u) = {}
       THEN /\ users' = users \ {u}
            /\ Commit(r, owner, [prefers EXCEPT ![u] = None], Idle)
            /\ adrift' = adrift \ {u}
       ELSE Reply(r) /\ UNCHANGED <<users, owner, prefers, adrift>>
  /\ UNCHANGED unused

----------------------------------------------------------------------------
(* deleteUser: of its calls, those on these tables.                        *)

DeleteUser(r, u) ==
  /\ req[r] = Idle
  /\ u \in users
  /\ Become(r, [Idle EXCEPT !.pc = "rmv_emails", !.user = u])
  /\ UNCHANGED database

DeleteEmailsOfUser(r) ==
  LET gone == EmailsOf(req[r].user) IN
  /\ req[r].pc = "rmv_emails"
  /\ Commit(r, Without(gone), Unprefer(gone), [req[r] EXCEPT !.pc = "rmv_user"])
  /\ UNCHANGED <<users, unused, adrift>>

\* A call fails, or the process stops.
Abort(r) ==
  /\ req[r] # Idle
  /\ Reply(r)
  /\ UNCHANGED database

----------------------------------------------------------------------------
Arrive(r) ==
  \/ \E u \in Users, e \in Emails : Register(r, u, e) \/ CreateEmail(r, u, e)
                                      \/ DeleteEmail(r, u, e)
  \/ \E base, u \in Users : MergeUsers(r, base, u)
  \/ \E u \in Users : DeleteUser(r, u)

Resume(r) ==
  \/ PreferFirst(r)
  \/ ReadPrimaryEmail(r) \/ FindOtherEmails(r) \/ PreferOther(r) \/ DeleteEmailRow(r)
  \/ ListEmails(r) \/ (\E e \in Emails : MoveEmail(r, e)) \/ EndMove(r)
  \/ DeleteUserRow(r)
  \/ DeleteEmailsOfUser(r)

Next == \E r \in Requests : Arrive(r) \/ Resume(r) \/ Abort(r)

Spec == Init /\ [][Next]_vars

----------------------------------------------------------------------------
(* Properties                                                              *)

ParametersFit(q) ==
  /\ q # Idle => q.user \in Users
  /\ q.pc \in {"reg_prefer", "del_user", "del_others", "del_prefer", "del_row"} =>
       q.email \in Emails \ unused
  /\ q.pc = "del_prefer" => q.other \in Emails \ unused
  /\ q.pc \in {"mrg_list", "mrg_move", "mrg_user"} => q.base \in Users \ {q.user}
  /\ q.left \cap unused = {}

\* What a request has read of the user's emails.
ReadsHold(q) ==
  /\ q.pc \in {"reg_prefer", "del_user", "del_others", "del_prefer", "del_row"} =>
       owner[q.email] = q.user
  /\ q.pc \in {"del_others", "del_prefer"} => prefers[q.user] = q.email
  /\ q.pc = "del_prefer" => owner[q.other] = q.user /\ q.other # q.email
  /\ q.pc = "del_row" => prefers[q.user] \notin {q.email, None}

\* The foreign keys; a primary email that is somebody else's has been merged away.
KeysHold ==
  /\ \A e \in Emails : owner[e] # None => owner[e] \in users /\ e \notin unused
  /\ \A u \in Users : prefers[u] # None => u \in users /\ owner[prefers[u]] # None
  /\ \A u \in Users : prefers[u] # None => owner[prefers[u]] = u \/ u \in adrift

\* Foreign keys hold, and what register and deleteEmail have read still holds
\* when they act on it, unless another request has overtaken them.
EmailsInv ==
  /\ TypeOK
  /\ KeysHold
  /\ \A r \in Requests : ParametersFit(req[r]) /\ (req[r].stale \/ ReadsHold(req[r]))

Acts(r) == req'[r] # req[r]

\* A user keeps an email.  The last one goes only with the user, by a merge into
\* another user, by a deletion that was overtaken, or by one of a user whose
\* primary email has been merged away and so is not among those that count.
LastEmailStays ==
  [][\A u \in Users :
       (EmailsOf(u) # {} /\ EmailsOf(u)' = {}) =>
         \E r \in Requests :
           LET q == req[r] IN
           /\ Acts(r)
           /\ q.pc \in {"rmv_emails", "mrg_move", "del_row"}
           /\ q.pc = "del_row" => q.stale \/ q.user \in adrift]_vars

\* The primary email of a user that stays is lost, and deleteEmail, the sign-in
\* links and the notices throw ever after, only when deleteUser stops half-way,
\* when a deletion was overtaken, or when it has been merged away.
PrimaryEmailStays ==
  [][\A u \in Users :
       (prefers[u] # None /\ u \in users' /\ prefers'[u] = None) =>
         \/ u \in adrift
         \/ \E r \in Requests :
              LET q == req[r] IN
              /\ Acts(r)
              /\ \/ q.pc = "rmv_emails" /\ q.user = u
                 \/ q.pc = "del_row" /\ q.stale]_vars

\* Nobody comes to prefer an email of somebody else but by a merge: either the
\* merge moves the email, or it has overtaken the deletion that prefers it.
PrimaryEmailIsOwn ==
  [][\A u \in Users :
       (u \in adrift' /\ u \notin adrift) =>
         \E r \in Requests :
           /\ Acts(r)
           /\ \/ req[r].pc = "mrg_move"
              \/ req[r].pc \in {"reg_prefer", "del_prefer"} /\ req[r].stale]_vars
=============================================================================
