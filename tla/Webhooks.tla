------------------------------ MODULE Webhooks ------------------------------
(***************************************************************************)
(* Webhooks of a group: the handlers that change them, the audit           *)
(* interceptor that triggers them and the queue that calls them            *)
(* (webhooks.service.ts, audit-log.interceptor.ts).                        *)
(*                                                                         *)
(* One call to the database or to a webhook's URL is one action.  A query  *)
(* and the callback that only puts its answer into memory are one action.  *)
(***************************************************************************)
EXTENDS Naturals, SequencesExt

CONSTANTS
  Groups,     \* groups, which stay
  Hooks,      \* webhook ids, each handed out once
  Urls,       \* where webhooks are called: any strings
  BadUrls,    \* those that are no URL
  Events,     \* names of events
  Happenings, \* audited requests of a group that succeed
  Requests,   \* slots for requests that change webhooks
  Retries,    \* webhooks.retries
  None        \* no value

ASSUME WebhooksAssumption ==
  /\ Retries \in Nat
  /\ IsFiniteSet(Hooks)
  /\ BadUrls \subseteq Urls
  /\ None \notin Groups \cup Hooks \cup Urls \cup Events

VARIABLES
  hook,       \* table Webhook, by id
  unused,     \* the ids not handed out yet
  req,        \* updates and deletions in flight
  happened,   \* what the interceptor does after each happening
  queue,      \* deliveries queued: the first is being made
  turn,       \* where the first one is
  offs,       \* given up: the update that switches the webhook off is not back
  posts,      \* history: how often each delivery reached its URL
  acked,      \* history: which were answered without an error
  outcome     \* history: what became of each delivery

vars == <<hook, unused, req, happened, queue, turn, offs, posts, acked, outcome>>

Row == [group : Groups, event : Events, url : Urls, active : BOOLEAN, fired : BOOLEAN]
NoHook == [group |-> None, event |-> None, url |-> None, active |-> FALSE, fired |-> FALSE]
Exists(h) == hook[h] # NoHook

Delivery == Happenings \X Hooks

\* The webhook as it was found.  edited is history: a request has changed its
\* row since.
Job == [id : Delivery, url : Urls, edited : BOOLEAN]
HookOf(job) == job.id[2]

Idle == [pc |-> "idle", hook |-> None]
Request == {Idle} \cup [pc : {"update", "delete"}, hook : Hooks]

Fresh == [pc |-> "post", failed |-> 0]
Turn == [pc : {"post", "save", "hung"}, failed : 0..Retries]

TypeOK ==
  /\ hook \in [Hooks -> Row \cup {NoHook}]
  /\ unused \subseteq Hooks
  /\ req \in [Requests -> Request]
  /\ happened \in [Happenings -> [pc : {"not_yet", "record", "find", "over"},
                                  group : Groups \cup {None}, event : Events \cup {None}]]
  /\ queue \in Seq(Job)
  /\ turn \in Turn
  /\ offs \subseteq Job
  /\ posts \in [Delivery -> Nat]
  /\ acked \in [Delivery -> BOOLEAN]
  /\ outcome \in [Delivery -> {"none", "waiting", "delivered", "failed", "lost"}]

Init ==
  /\ hook = [h \in Hooks |-> NoHook]
  /\ unused = Hooks
  /\ req = [r \in Requests |-> Idle]
  /\ happened = [t \in Happenings |-> [pc |-> "not_yet", group |-> None, event |-> None]]
  /\ queue = <<>>
  /\ turn = Fresh
  /\ offs = {}
  /\ posts = [d \in Delivery |-> 0]
  /\ acked = [d \in Delivery |-> FALSE]
  /\ outcome = [d \in Delivery |-> "none"]

----------------------------------------------------------------------------
(* The handlers.  A request writes what its body says: any values, which   *)
(* nothing looks at before the write.                                      *)

received == <<posts, acked, outcome>>

MarkEdited(job, h) == IF HookOf(job) = h THEN [job EXCEPT !.edited = TRUE] ELSE job

WriteByRequest(h, row) ==
  /\ hook' = [hook EXCEPT ![h] = row]
  /\ queue' = [i \in DOMAIN queue |-> MarkEdited(queue[i], h)]
  /\ offs' = {MarkEdited(job, h) : job \in offs}
  /\ UNCHANGED <<happened, turn, received>>

CreateWebhook(h, row) ==
  /\ h \in unused
  /\ ~row.fired
  /\ unused' = unused \ {h}
  /\ WriteByRequest(h, row)
  /\ UNCHANGED req

\* updateWebhook and deleteWebhook find the webhook first and refuse that of another group.
FindWebhook(r, group, h, pc) ==
  /\ req[r] = Idle
  /\ hook[h].group = group
  /\ req' = [req EXCEPT ![r] = [pc |-> pc, hook |-> h]]
  /\ UNCHANGED <<hook, unused, happened, queue, turn, offs, received>>

UpdateWebhook(r, row) ==
  LET h == req[r].hook IN
  /\ req[r].pc = "update"
  /\ Exists(h)
  /\ row.group = hook[h].group /\ row.fired = hook[h].fired
  /\ WriteByRequest(h, row)
  /\ req' = [req EXCEPT ![r] = Idle]
  /\ UNCHANGED unused

DeleteWebhook(r) ==
  /\ req[r].pc = "delete"
  /\ Exists(req[r].hook)
  /\ WriteByRequest(req[r].hook, NoHook)
  /\ req' = [req EXCEPT ![r] = Idle]
  /\ UNCHANGED unused

\* The row is gone, the call fails or the client's request is cut off.
Abort(r) ==
  /\ req[r] # Idle
  /\ req' = [req EXCEPT ![r] = Idle]
  /\ UNCHANGED <<hook, unused, happened, queue, turn, offs, received>>

----------------------------------------------------------------------------
(* The interceptor, once the handler has replied: it looks up the location *)
(* of the client and saves an audit record, and only then triggers the     *)
(* webhooks, without waiting for them.                                     *)

others == <<hook, unused, req, turn, offs, posts, acked>>

Continue(t, pc) == happened' = [happened EXCEPT ![t].pc = pc]

Succeed(t, group, event) ==
  /\ happened[t].pc = "not_yet"
  /\ happened' = [happened EXCEPT ![t] = [pc |-> "record", group |-> group, event |-> event]]
  /\ UNCHANGED <<others, queue, outcome>>

SaveAuditLog(t) ==
  /\ happened[t].pc = "record"
  /\ Continue(t, "find")
  /\ UNCHANGED <<others, queue, outcome>>

\* The location, the record or the query for webhooks fails, which is logged.
FailAuditLog(t) ==
  /\ happened[t].pc \in {"record", "find"}
  /\ Continue(t, "over")
  /\ UNCHANGED <<others, queue, outcome>>

\* Mutant: the query leaves out "isActive: true".
SubscribedOrOff(h, t) ==
  /\ hook[h].group = happened[t].group
  /\ hook[h].event = happened[t].event

Subscribed(h, t) ==
  /\ hook[h].active
  /\ hook[h].group = happened[t].group
  /\ hook[h].event = happened[t].event

NewJob(t, h) == [id |-> <<t, h>>, url |-> hook[h].url, edited |-> FALSE]

\* Webhooks are found in no particular order.
TriggerWebhook(t) ==
  LET found == {h \in Hooks : Subscribed(h, t)} IN
  /\ happened[t].pc = "find"
  /\ \E order \in SetToSeqs(found) :
       queue' = queue \o [i \in DOMAIN order |-> NewJob(t, order[i])]
  /\ outcome' = [d \in Delivery |-> IF d \in {t} \X found THEN "waiting" ELSE outcome[d]]
  /\ Continue(t, "over")
  /\ UNCHANGED others

----------------------------------------------------------------------------
(* The queue makes one delivery at a time: p-queue with concurrency 1 runs *)
(* p-retry, which runs callWebhook until it succeeds or Retries + 1        *)
(* attempts have failed.                                                   *)

callers == <<unused, req, happened>>

First == Head(queue)

Leave(end) ==
  /\ queue' = Tail(queue)
  /\ turn' = Fresh
  /\ outcome' = [outcome EXCEPT ![First.id] = end]

\* Mutant: one attempt too many.
FailAttemptLate ==
  IF turn.failed <= Retries
    THEN /\ turn' = [pc |-> "post", failed |-> turn.failed + 1]
         /\ UNCHANGED <<queue, offs, outcome>>
    ELSE /\ Leave("failed")
         /\ offs' = offs \cup {First}

\* Mutant: a failed delivery goes to the end of the queue.
FailAttemptLast ==
  IF turn.failed < Retries
    THEN /\ turn' = [pc |-> "post", failed |-> turn.failed + 1]
         /\ queue' = Append(Tail(queue), First)
         /\ UNCHANGED <<offs, outcome>>
    ELSE /\ Leave("failed")
         /\ offs' = offs \cup {First}

\* Mutant: the webhook is switched off whenever an attempt fails.
FailAttemptOff ==
  /\ IF turn.failed < Retries
       THEN /\ turn' = [pc |-> "post", failed |-> turn.failed + 1]
            /\ UNCHANGED <<queue, outcome>>
       ELSE Leave("failed")
  /\ offs' = offs \cup {First}

FailAttempt ==
  IF turn.failed < Retries
    THEN /\ turn' = [pc |-> "post", failed |-> turn.failed + 1]
         /\ UNCHANGED <<queue, offs, outcome>>
    ELSE /\ Leave("failed")
         /\ offs' = offs \cup {First}

Posting == queue # <<>> /\ turn.pc = "post" /\ First.url \notin BadUrls
Saving == queue # <<>> /\ turn.pc = "save"

Reach == posts' = [posts EXCEPT ![First.id] = @ + 1]

PostWebhook ==
  /\ Posting
  /\ Reach
  /\ acked' = [acked EXCEPT ![First.id] = TRUE]
  /\ turn' = [turn EXCEPT !.pc = "save"]
  /\ UNCHANGED <<callers, hook, queue, offs, outcome>>

\* Mutant: the call is not awaited, so its failure goes unnoticed.
FailToPostUnseen ==
  /\ Posting
  /\ (UNCHANGED posts) \/ Reach
  /\ turn' = [turn EXCEPT !.pc = "save"]
  /\ UNCHANGED <<callers, hook, acked, queue, offs, outcome>>

\* It may have arrived all the same.
FailToPost ==
  /\ Posting
  /\ (UNCHANGED posts) \/ Reach
  /\ FailAttempt
  /\ UNCHANGED <<callers, hook, acked>>

\* A receiver that never answers: got has no time limit and the queue none, so
\* what is behind this call waits with it.
Hang ==
  /\ Posting
  /\ (UNCHANGED posts) \/ Reach
  /\ turn' = [turn EXCEPT !.pc = "hung"]
  /\ UNCHANGED <<callers, hook, acked, queue, offs, outcome>>

\* got throws a TypeError for what is no URL, and pRetry gives up on any of these
\* at once: no other attempt, and onFailedAttempt is not called.
RefuseUrl ==
  /\ queue # <<>> /\ turn.pc = "post"
  /\ First.url \in BadUrls
  /\ Leave("failed")
  /\ UNCHANGED <<callers, hook, offs, posts, acked>>

SaveLastFired ==
  /\ Saving
  /\ Exists(HookOf(First))
  /\ hook' = [hook EXCEPT ![HookOf(First)].fired = TRUE]
  /\ Leave("delivered")
  /\ UNCHANGED <<callers, offs, posts, acked>>

\* The webhook is gone or the database fails, and the whole attempt with it.
FailToSave ==
  /\ Saving
  /\ FailAttempt
  /\ UNCHANGED <<callers, hook, posts, acked>>

\* The update that onFailedAttempt did not wait for; a row that is gone, or
\* another failure, is ignored.
SwitchOff(job) ==
  /\ job \in offs
  /\ offs' = offs \ {job}
  /\ \/ /\ Exists(HookOf(job))
        /\ hook' = [hook EXCEPT ![HookOf(job)].active = FALSE]
     \/ UNCHANGED hook
  /\ UNCHANGED <<callers, queue, turn, received>>

Restart ==
  /\ queue' = <<>>
  /\ turn' = Fresh
  /\ offs' = {}
  /\ outcome' = [d \in Delivery |-> IF outcome[d] = "waiting" THEN "lost" ELSE outcome[d]]
  /\ happened' = [t \in Happenings |->
                    IF happened[t].pc = "not_yet" THEN happened[t]
                                                  ELSE [happened[t] EXCEPT !.pc = "over"]]
  /\ req' = [r \in Requests |-> Idle]
  /\ UNCHANGED <<hook, unused, posts, acked>>

----------------------------------------------------------------------------
Handle ==
  \/ \E h \in Hooks, row \in Row : CreateWebhook(h, row)
  \/ \E r \in Requests, g \in Groups, h \in Hooks, pc \in {"update", "delete"} :
       FindWebhook(r, g, h, pc)
  \/ \E r \in Requests, row \in Row : UpdateWebhook(r, row)
  \/ \E r \in Requests : DeleteWebhook(r) \/ Abort(r)

Intercept ==
  \/ \E t \in Happenings, g \in Groups, e \in Events : Succeed(t, g, e)
  \/ \E t \in Happenings : SaveAuditLog(t) \/ FailAuditLog(t) \/ TriggerWebhook(t)

Work == PostWebhook \/ FailToPost \/ Hang \/ RefuseUrl \/ SaveLastFired \/ FailToSave

Next ==
  \/ Handle
  \/ Intercept
  \/ Work
  \/ \E job \in offs : SwitchOff(job)
  \/ Restart

Spec == Init /\ [][Next]_vars

\* The queue goes on by itself: what is at its head is called, and the call ends in
\* some way or hangs.  Nothing is assumed of a call that hangs.
FairSpec == Spec /\ WF_vars(Work)
----------------------------------------------------------------------------
\* An id that is not handed out yet has no row, and nothing was ever queued for it.
HandedOut ==
  \A h \in unused : ~Exists(h) /\ \A t \in Happenings : outcome[<<t, h>>] = "none"

\* A happening triggers webhooks once, when it is over.
TriggeredOnce ==
  \A d \in Delivery :
    outcome[d] = "none" \/ happened[d[1]].pc = "over"

\* What waits is queued once and in one place, and only the first of it has
\* been tried: each of its failures, and the call whose result is being saved,
\* may have reached the URL.
InOrder ==
  /\ \A i \in DOMAIN queue : outcome[queue[i].id] = "waiting"
  /\ \A i, j \in DOMAIN queue : queue[i].id = queue[j].id => i = j
  /\ \A d \in Delivery : outcome[d] = "none" => posts[d] = 0 /\ ~acked[d]
  /\ \A i \in DOMAIN queue : i > 1 => posts[queue[i].id] = 0
  /\ turn.pc = "post" /\ queue # <<>> => posts[First.id] <= turn.failed
  /\ turn.pc = "save" =>
       queue # <<>> /\ acked[First.id] /\ posts[First.id] \in 1..turn.failed + 1
  /\ turn.pc = "hung" => queue # <<>> /\ posts[First.id] <= turn.failed + 1
  /\ queue = <<>> => turn = Fresh
  /\ \A job \in offs : outcome[job.id] = "failed"

\* Types, and what the queue relies on: one delivery at a time and in order.
WebhooksInv == TypeOK /\ HandedOut /\ TriggeredOnce /\ InOrder

\* lastFiredAt is the truth: a webhook that has it has answered a delivery, and
\* one whose delivery is done has it (callWebhook).
LastFiredIsTrue ==
  /\ \A h \in Hooks : hook[h].fired => \E t \in Happenings : acked[<<t, h>>]
  /\ \A d \in Delivery : outcome[d] = "delivered" =>
       acked[d] /\ (Exists(d[2]) => hook[d[2]].fired)

\* Deliveries queue with the webhook as it was found (triggerWebhook).  One is
\* made to a webhook that is gone, off, at another URL or after another event
\* only if a request has changed the webhook since it was found, or an earlier
\* delivery to it has been given up.
CalledAsSubscribed ==
  \A i \in DOMAIN queue :
    LET job == queue[i]
        t == job.id[1]
        h == job.id[2] IN
    \/ job.edited
    \/ /\ hook[h].url = job.url
       /\ hook[h].group = happened[t].group /\ hook[h].event = happened[t].event
       /\ hook[h].active \/ \E s \in Happenings : outcome[<<s, h>>] = "failed"

\* A webhook is switched off by a request or after every attempt at a delivery
\* to it has failed; if nobody has changed it since it was found, these were
\* attempts at the URL it has now (onFailedAttempt).
OffForItsFailures ==
  [][\A h \in Hooks : hook[h].active /\ Exists(h)' /\ ~hook[h].active' =>
       \/ \E r \in Requests : req[r] = [pc |-> "update", hook |-> h] /\ req'[r] = Idle
       \/ \E job \in offs \ offs' :
            /\ HookOf(job) = h /\ outcome[job.id] = "failed"
            /\ job.url = hook[h].url \/ job.edited]_vars

Waiting == [i \in DOMAIN queue |-> queue[i].id]

D == INSTANCE Deliveries WITH waiting <- Waiting, Attempts <- Retries + 1

Stalled == turn.pc = "hung"

\* The queue keeps the promise of Deliveries (triggerWebhook, callWebhook): in order,
\* each at most Retries + 1 times, none done unmade; and none is left waiting for
\* ever, unless a receiver leaves the call at the head without an answer and nobody
\* restarts the process.
DeliveriesImplemented == D!DSpec /\ ((<>[]Stalled) \/ D!Progress)

\* What a receiver may rely on if that could not happen.  It can: violated.
NoneWaitsForever == D!Progress
=============================================================================
