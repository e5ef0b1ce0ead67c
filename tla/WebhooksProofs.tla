--------------------------- MODULE WebhooksProofs ---------------------------
(* The inductive invariant of Webhooks, its action property, and that it   *)
(* implements Deliveries but for the latter's fairness, for any number of  *)
(* groups, webhooks, URLs, happenings, requests and retries.               *)
EXTENDS Webhooks, FiniteSetTheorems, TLAPS

\* An update that is to switch a webhook off is about the URL the webhook has,
\* unless a request has changed the webhook since it was found.
OffsMatch == \A job \in offs : job.edited \/ hook[HookOf(job)].url = job.url

Inv == WebhooksInv /\ LastFiredIsTrue /\ CalledAsSubscribed /\ OffsMatch

LEMMA RowFacts ==
  /\ NoHook \notin Row
  /\ \A row \in Row \cup {NoHook} : row.fired \in BOOLEAN /\ row.active \in BOOLEAN
  /\ NoHook.group = None /\ ~NoHook.active /\ ~NoHook.fired
  /\ \A row \in Row :
       /\ [row EXCEPT !.active = FALSE] \in Row
       /\ [row EXCEPT !.fired = TRUE] \in Row
<1>1. NoHook \notin Row
  BY WebhooksAssumption DEF NoHook, Row
<1>2. NoHook.group = None /\ NoHook.active = FALSE /\ NoHook.fired = FALSE
  BY DEF NoHook
<1>3. \A row \in Row \cup {NoHook} : row.fired \in BOOLEAN /\ row.active \in BOOLEAN
  <2>1. \A row \in Row : row.fired \in BOOLEAN /\ row.active \in BOOLEAN
    BY DEF Row
  <2>2. NoHook.fired \in BOOLEAN /\ NoHook.active \in BOOLEAN
    BY <1>2
  <2>. QED BY <2>1, <2>2
<1>4. \A row \in Row :
        /\ [row EXCEPT !.active = FALSE] \in Row
        /\ [row EXCEPT !.fired = TRUE] \in Row
  BY DEF Row
<1>. QED BY <1>1, <1>2, <1>3, <1>4

LEMMA JobFacts ==
  ASSUME NEW job \in Job
  PROVE  /\ job.id \in Delivery /\ job.url \in Urls /\ job.edited \in BOOLEAN
         /\ job.id[1] \in Happenings /\ HookOf(job) \in Hooks
         /\ job.id = <<job.id[1], HookOf(job)>>
  BY DEF Job, Delivery, HookOf

LEMMA SequenceFacts ==
  ASSUME NEW S, NEW s \in Seq(S)
  PROVE  /\ Len(s) \in Nat /\ DOMAIN s = 1..Len(s)
         /\ \A i \in DOMAIN s : s[i] \in S
         /\ s # <<>> =>
              /\ 1 \in DOMAIN s /\ Head(s) = s[1]
              /\ Tail(s) \in Seq(S)
              /\ Len(Tail(s)) = Len(s) - 1
              /\ DOMAIN Tail(s) = 1..Len(s) - 1
              /\ \A i \in DOMAIN Tail(s) : i + 1 \in DOMAIN s /\ Tail(s)[i] = s[i + 1]
<1>1. Len(s) \in Nat /\ DOMAIN s = 1..Len(s) /\ \A i \in DOMAIN s : s[i] \in S
  OBVIOUS
<1>2. ASSUME s # <<>>
      PROVE  Len(s) >= 1
  BY <1>2
<1>3. ASSUME s # <<>>
      PROVE  /\ Tail(s) \in Seq(S) /\ Len(Tail(s)) = Len(s) - 1
             /\ \A i \in 1..Len(s) - 1 : Tail(s)[i] = s[i + 1]
  BY <1>3
<1>. QED BY <1>1, <1>2, <1>3

\* The first of the queue is the only one of its delivery.
LEMMA FirstFacts ==
  ASSUME Inv, queue # <<>>
  PROVE  /\ First \in Job /\ First.id \in Delivery /\ First = queue[1]
         /\ outcome[First.id] = "waiting" /\ happened[First.id[1]].pc = "over"
         /\ \A i \in DOMAIN Tail(queue) :
              /\ i + 1 \in DOMAIN queue /\ Tail(queue)[i] = queue[i + 1]
              /\ queue[i + 1].id # First.id
         /\ \A job \in offs : job.id # First.id
<1>. queue \in Seq(Job) /\ InOrder /\ TriggeredOnce /\ offs \subseteq Job
  BY DEF Inv, WebhooksInv, TypeOK
<1>1. 1 \in DOMAIN queue /\ First = queue[1] /\ First \in Job
  BY SequenceFacts DEF First
<1>2. First.id \in Delivery
  BY <1>1, JobFacts
<1>3. outcome[First.id] = "waiting"
  BY <1>1 DEF InOrder
<1>4. happened[First.id[1]].pc = "over"
  BY <1>2, <1>3 DEF TriggeredOnce
<1>5. ASSUME NEW i \in DOMAIN Tail(queue)
      PROVE  /\ i + 1 \in DOMAIN queue /\ Tail(queue)[i] = queue[i + 1]
             /\ queue[i + 1].id # First.id
  <2>1. i + 1 \in DOMAIN queue /\ Tail(queue)[i] = queue[i + 1] /\ i \in Nat /\ i + 1 # 1
    BY SequenceFacts
  <2>. QED BY <1>1, <2>1 DEF InOrder
<1>6. \A job \in offs : job.id # First.id
  BY <1>3 DEF InOrder
<1>. QED BY <1>1, <1>2, <1>3, <1>4, <1>5, <1>6

----------------------------------------------------------------------------
(* Steps by what they do. *)

\* A step of a request or of the interceptor that leaves webhooks and queue alone.
LEMMA QuietKeeps ==
  ASSUME Inv, UNCHANGED <<hook, unused, queue, turn, offs, received>>, TypeOK',
         \A t \in Happenings : happened[t].pc = "over" => happened'[t] = happened[t]
  PROVE  Inv'
<1>. UNCHANGED <<posts, acked, outcome>>
  BY DEF received
<1>1. HandedOut'
  BY DEF Inv, WebhooksInv, HandedOut, Exists
<1>2. TriggeredOnce'
  <2>1. \A d \in Delivery : d[1] \in Happenings
    BY DEF Delivery
  <2>. QED BY <2>1 DEF Inv, WebhooksInv, TriggeredOnce
<1>3. InOrder'
  BY DEF Inv, WebhooksInv, InOrder, First
<1>4. LastFiredIsTrue' /\ OffsMatch'
  BY DEF Inv, LastFiredIsTrue, OffsMatch, Exists
<1>5. CalledAsSubscribed'
  <2>1. ASSUME NEW i \in DOMAIN queue
        PROVE  happened'[queue[i].id[1]] = happened[queue[i].id[1]]
    <3>1. queue[i] \in Job /\ outcome[queue[i].id] = "waiting"
      BY SequenceFacts DEF Inv, WebhooksInv, TypeOK, InOrder
    <3>2. queue[i].id \in Delivery /\ queue[i].id[1] \in Happenings
      BY <3>1, JobFacts
    <3>. QED BY <3>1, <3>2 DEF Inv, WebhooksInv, TriggeredOnce
  <2>. QED BY <2>1 DEF Inv, CalledAsSubscribed
<1>. QED BY <1>1, <1>2, <1>3, <1>4, <1>5 DEF Inv, WebhooksInv

\* The order of the queue is about the ids of its jobs.
LEMMA SameIdsInOrder ==
  ASSUME InOrder, UNCHANGED <<turn, posts, acked, outcome>>,
         DOMAIN queue' = DOMAIN queue, queue' = <<>> <=> queue = <<>>,
         \A i \in DOMAIN queue : queue'[i].id = queue[i].id,
         queue # <<>> => First'.id = First.id,
         \A job \in offs' : outcome[job.id] = "failed"
  PROVE  InOrder'
<1>1. /\ \A i \in DOMAIN queue' : outcome'[queue'[i].id] = "waiting"
      /\ \A i, j \in DOMAIN queue' : queue'[i].id = queue'[j].id => i = j
      /\ \A i \in DOMAIN queue' : i > 1 => posts'[queue'[i].id] = 0
  BY DEF InOrder
<1>2. \A d \in Delivery : outcome'[d] = "none" => posts'[d] = 0 /\ ~acked'[d]
  BY DEF InOrder
<1>3. /\ turn'.pc = "post" /\ queue' # <<>> => posts'[First'.id] <= turn'.failed
      /\ turn'.pc = "save" =>
           queue' # <<>> /\ acked'[First'.id] /\ posts'[First'.id] \in 1..turn'.failed + 1
      /\ turn'.pc = "hung" => queue' # <<>> /\ posts'[First'.id] <= turn'.failed + 1
      /\ queue' = <<>> => turn' = Fresh
  BY DEF InOrder
<1>. QED BY <1>1, <1>2, <1>3 DEF InOrder

\* A request that writes the row of a webhook.
LEMMA WriteKeeps ==
  ASSUME Inv, NEW h \in Hooks, NEW row \in Row \cup {NoHook}, WriteByRequest(h, row),
         unused' \subseteq unused \ {h} \/ (unused' = unused /\ h \notin unused),
         req' \in [Requests -> Request],
         row = NoHook \/ (Exists(h) /\ row.fired = hook[h].fired) \/ (h \in unused /\ ~row.fired)
  PROVE  Inv'
<1>. /\ TypeOK /\ HandedOut /\ TriggeredOnce /\ InOrder
     /\ LastFiredIsTrue /\ CalledAsSubscribed /\ OffsMatch
  BY DEF Inv, WebhooksInv
<1>. /\ UNCHANGED <<happened, turn, posts, acked, outcome>>
     /\ hook' = [hook EXCEPT ![h] = row]
     /\ offs' = {MarkEdited(job, h) : job \in offs}
     /\ queue' = [i \in DOMAIN queue |-> MarkEdited(queue[i], h)]
  BY DEF WriteByRequest, received
<1>. queue \in Seq(Job) /\ offs \subseteq Job /\ hook \in [Hooks -> Row \cup {NoHook}]
  BY DEF TypeOK
<1>1. \A job \in Job :
        /\ MarkEdited(job, h) \in Job
        /\ MarkEdited(job, h).id = job.id /\ MarkEdited(job, h).url = job.url
        /\ HookOf(MarkEdited(job, h)) = HookOf(job)
        /\ MarkEdited(job, h).edited \/ (HookOf(job) # h /\ MarkEdited(job, h) = job)
  BY DEF MarkEdited, Job, HookOf
<1>2. /\ DOMAIN queue' = DOMAIN queue /\ queue' \in Seq(Job)
      /\ \A i \in DOMAIN queue : queue[i] \in Job /\ queue'[i] = MarkEdited(queue[i], h)
      /\ queue' = <<>> <=> queue = <<>>
      /\ queue # <<>> => Head(queue') = queue'[1] /\ Head(queue) = queue[1] /\ 1 \in DOMAIN queue
  <2>1. DOMAIN queue = 1..Len(queue) /\ Len(queue) \in Nat /\ \A i \in DOMAIN queue : queue[i] \in Job
    BY SequenceFacts
  <2>2. queue' \in Seq(Job)
    BY <1>1, <2>1
  <2>3. queue' = <<>> <=> queue = <<>>
    BY <2>1, <2>2, SequenceFacts
  <2>. QED BY <2>1, <2>2, <2>3, SequenceFacts
<1>3. TypeOK'
  <2>1. offs' \subseteq Job
    BY <1>1
  <2>2. unused' \subseteq Hooks
    BY DEF TypeOK
  <2>. QED BY <1>2, <2>1, <2>2 DEF TypeOK
<1>4. HandedOut'
  BY DEF HandedOut, Exists, TypeOK
<1>5. TriggeredOnce'
  BY DEF TriggeredOnce
<1>6. InOrder'
  <2>1. \A i \in DOMAIN queue : queue'[i].id = queue[i].id
    BY <1>1, <1>2
  <2>2. queue # <<>> => First'.id = First.id
    BY <1>2, <2>1 DEF First
  <2>3. \A job \in offs' : outcome[job.id] = "failed"
    BY <1>1 DEF InOrder
  <2>. QED BY <1>2, <2>1, <2>2, <2>3, SameIdsInOrder
<1>7. LastFiredIsTrue'
  <2>1. ASSUME NEW g \in Hooks, hook'[g].fired
        PROVE  \E t \in Happenings : acked'[<<t, g>>]
    <3>1. hook[g].fired
      BY <2>1, RowFacts
    <3>. QED BY <3>1 DEF LastFiredIsTrue
  <2>2. ASSUME NEW d \in Delivery, outcome'[d] = "delivered", Exists(d[2])'
        PROVE  hook'[d[2]].fired
    <3>1. d[1] \in Happenings /\ d[2] \in Hooks /\ d = <<d[1], d[2]>>
      BY DEF Delivery
    <3>2. d[2] \notin unused
      BY <2>2, <3>1 DEF HandedOut
    <3>3. d[2] # h \/ (Exists(h) /\ row.fired = hook[h].fired)
      BY <2>2, <3>1, <3>2 DEF Exists
    <3>4. Exists(d[2])
      BY <2>2, <3>1, <3>3 DEF Exists
    <3>. QED BY <2>2, <3>1, <3>3, <3>4 DEF LastFiredIsTrue, Exists
  <2>3. \A d \in Delivery : outcome'[d] = "delivered" => acked'[d]
    BY DEF LastFiredIsTrue
  <2>. QED BY <2>1, <2>2, <2>3 DEF LastFiredIsTrue
<1>8. CalledAsSubscribed'
  <2>1. ASSUME NEW i \in DOMAIN queue, ~queue'[i].edited
        PROVE  queue'[i] = queue[i] /\ hook'[HookOf(queue[i])] = hook[HookOf(queue[i])]
    BY <1>1, <1>2, <2>1, JobFacts
  <2>. QED BY <1>2, <2>1, SMTT(30) DEF CalledAsSubscribed, HookOf
<1>9. OffsMatch'
  <2>1. ASSUME NEW job \in offs, ~MarkEdited(job, h).edited
        PROVE  MarkEdited(job, h) = job /\ hook'[HookOf(job)] = hook[HookOf(job)]
    BY <1>1, <2>1, JobFacts
  <2>. QED BY <2>1 DEF OffsMatch
<1>. QED BY <1>3, <1>4, <1>5, <1>6, <1>7, <1>8, <1>9 DEF Inv, WebhooksInv

\* The trigger: only webhooks that are on, subscribed to this event and never
\* queued for this happening.
LEMMA FoundFacts ==
  ASSUME Inv, NEW t \in Happenings, happened[t].pc = "find"
  PROVE  LET found == {h \in Hooks : Subscribed(h, t)} IN
         \A order \in SetToSeqs(found) :
           /\ order \in Seq(found) /\ DOMAIN order = 1..Len(order)
           /\ \A i, j \in DOMAIN order : order[i] = order[j] => i = j
<1>. DEFINE found == {h \in Hooks : Subscribed(h, t)}
<1>1. IsFiniteSet(found)
  BY FS_Subset, WebhooksAssumption
<1>2. Cardinality(found) \in Nat
  BY <1>1, FS_CardinalityType
<1>3. ASSUME NEW order \in SetToSeqs(found)
      PROVE  /\ order \in Seq(found) /\ DOMAIN order = 1..Len(order)
             /\ \A i, j \in DOMAIN order : order[i] = order[j] => i = j
  <2>1. /\ order \in [1..Cardinality(found) -> found]
        /\ \A i, j \in 1..Cardinality(found) : i # j => order[i] # order[j]
    BY DEF SetToSeqs
  <2>2. order \in Seq(found)
    BY <1>2, <2>1
  <2>. QED BY <2>1, <2>2, SequenceFacts
<1>. QED BY <1>3

LEMMA TriggerKeeps ==
  ASSUME Inv, NEW t \in Happenings, TriggerWebhook(t)
  PROVE  Inv'
<1>. DEFINE found == {h \in Hooks : Subscribed(h, t)}
<1>. /\ TypeOK /\ HandedOut /\ TriggeredOnce /\ InOrder
     /\ LastFiredIsTrue /\ CalledAsSubscribed /\ OffsMatch
  BY DEF Inv, WebhooksInv
<1>. /\ UNCHANGED <<hook, unused, req, turn, offs, posts, acked>>
     /\ happened[t].pc = "find"
     /\ happened' = [happened EXCEPT ![t].pc = "over"]
     /\ outcome' = [d \in Delivery |-> IF d \in {t} \X found THEN "waiting" ELSE outcome[d]]
  BY DEF TriggerWebhook, others, Continue
<1>. queue \in Seq(Job) /\ offs \subseteq Job /\ hook \in [Hooks -> Row \cup {NoHook}]
  BY DEF TypeOK
<1>1. PICK order \in SetToSeqs(found) :
        queue' = queue \o [i \in DOMAIN order |-> NewJob(t, order[i])]
  BY DEF TriggerWebhook
<1>. DEFINE jobs == [i \in DOMAIN order |-> NewJob(t, order[i])]
            n == Len(queue)
<1>2. /\ order \in Seq(found) /\ DOMAIN order = 1..Len(order) /\ Len(order) \in Nat
      /\ \A i \in DOMAIN order : order[i] \in found
      /\ \A i, j \in DOMAIN order : order[i] = order[j] => i = j
  <2>1. /\ order \in Seq(found) /\ DOMAIN order = 1..Len(order)
        /\ \A i, j \in DOMAIN order : order[i] = order[j] => i = j
    BY <1>1, FoundFacts
  <2>. QED BY <2>1, SequenceFacts
<1>3. \A h \in Hooks : outcome[<<t, h>>] = "none"
  BY DEF TriggeredOnce, Delivery
<1>4. ASSUME NEW h \in found
      PROVE  /\ h \in Hooks /\ hook[h] \in Row /\ hook[h].active /\ h \notin unused
             /\ hook[h].group = happened[t].group /\ hook[h].event = happened[t].event
             /\ NewJob(t, h) \in Job /\ NewJob(t, h).id = <<t, h>>
             /\ NewJob(t, h).url = hook[h].url /\ <<t, h>> \in Delivery
  <2>1. h \in Hooks /\ Subscribed(h, t)
    OBVIOUS
  <2>2. hook[h] \in Row /\ hook[h].active
    BY <2>1, RowFacts DEF Subscribed
  <2>3. h \notin unused
    BY <2>2, RowFacts DEF HandedOut, Exists
  <2>. QED BY <2>1, <2>2, <2>3 DEF Subscribed, NewJob, Job, Delivery, Row
<1>5. ASSUME NEW k \in DOMAIN order
      PROVE  /\ NewJob(t, order[k]) \in Job /\ NewJob(t, order[k]).id = <<t, order[k]>>
             /\ NewJob(t, order[k]).url = hook[order[k]].url
             /\ order[k] \in found /\ order[k] \in Hooks /\ <<t, order[k]>> \in Delivery
             /\ NewJob(t, order[k]).id[1] = t /\ NewJob(t, order[k]).id[2] = order[k]
             /\ outcome[<<t, order[k]>>] = "none" /\ posts[<<t, order[k]>>] = 0
  <2>1. order[k] \in found
    BY <1>2
  <2>2. outcome[<<t, order[k]>>] = "none" /\ posts[<<t, order[k]>>] = 0
    BY <1>3, <1>4, <2>1 DEF InOrder
  <2>3. NewJob(t, order[k]).id[1] = t /\ NewJob(t, order[k]).id[2] = order[k]
    BY DEF NewJob
  <2>. QED BY <1>4, <2>1, <2>2, <2>3
<1>6. jobs \in Seq(Job) /\ Len(jobs) = Len(order) /\ DOMAIN jobs = 1..Len(order)
  <2>1. jobs \in [1..Len(order) -> Job]
    BY <1>2, <1>5
  <2>. HIDE DEF jobs
  <2>. QED BY <1>2, <2>1
<1>7. /\ queue' \in Seq(Job) /\ DOMAIN queue' = 1..n + Len(order) /\ n \in Nat
      /\ DOMAIN queue = 1..n
      /\ \A i \in 1..n : queue'[i] = queue[i]
      /\ \A i \in 1..Len(order) : queue'[n + i] = NewJob(t, order[i])
  BY <1>1, <1>2, <1>6
<1>8. ASSUME NEW i \in DOMAIN queue'
      PROVE  \/ /\ i \in DOMAIN queue /\ queue'[i] = queue[i]
                /\ queue[i] \in Job /\ queue[i].id[1] # t /\ outcome[queue[i].id] = "waiting"
             \/ \E k \in DOMAIN order : i = n + k /\ queue'[i] = NewJob(t, order[k])
  <2>1. CASE i \in 1..n
    <3>1. queue'[i] = queue[i] /\ queue[i] \in Job /\ outcome[queue[i].id] = "waiting"
      BY <1>7, <2>1 DEF InOrder
    <3>2. queue[i].id[1] # t
      BY <1>3, <3>1, JobFacts
    <3>. QED BY <1>7, <2>1, <3>1, <3>2
  <2>2. CASE i \notin 1..n
    <3>1. i - n \in DOMAIN order /\ i = n + (i - n)
      BY <1>2, <1>7, <2>2
    <3>. QED BY <1>2, <1>7, <3>1
  <2>. QED BY <2>1, <2>2
<1>9. \A d \in Delivery : d[1] # t \/ outcome[d] # "none" => outcome'[d] = outcome[d]
  <2>1. ASSUME NEW d \in {t} \X found
        PROVE  d[1] = t /\ outcome[d] = "none"
    BY <1>3, <1>4
  <2>. QED BY <2>1
<1>10. \A h \in found : outcome'[<<t, h>>] = "waiting"
  BY <1>4
<1>11. TypeOK'
  <2>1. happened' \in [Happenings -> [pc : {"not_yet", "record", "find", "over"},
                                  group : Groups \cup {None}, event : Events \cup {None}]]
    BY DEF TypeOK
  <2>2. outcome' \in [Delivery -> {"none", "waiting", "delivered", "failed", "lost"}]
    BY DEF TypeOK
  <2>. QED BY <1>7, <2>1, <2>2 DEF TypeOK
<1>12. HandedOut'
  <2>1. ASSUME NEW h \in unused, NEW s \in Happenings
        PROVE  outcome'[<<s, h>>] = "none"
    <3>1. <<s, h>> \in Delivery /\ <<s, h>> \notin {t} \X found /\ outcome[<<s, h>>] = "none"
      BY <1>4 DEF HandedOut, TypeOK, Delivery
    <3>. QED BY <3>1
  <2>. QED BY <2>1 DEF HandedOut, Exists
<1>13. TriggeredOnce'
  <2>1. ASSUME NEW d \in Delivery, outcome'[d] # "none"
        PROVE  happened'[d[1]].pc = "over"
    <3>1. CASE d[1] = t
      BY <3>1 DEF TypeOK
    <3>2. CASE d[1] # t
      <4>1. d[1] \in Happenings
        BY DEF Delivery
      <4>. QED BY <1>9, <2>1, <3>2, <4>1 DEF TriggeredOnce, TypeOK
    <3>. QED BY <3>1, <3>2
  <2>. QED BY <2>1 DEF TriggeredOnce
<1>14. InOrder'
  <2>1. ASSUME NEW i \in DOMAIN queue'
        PROVE  outcome'[queue'[i].id] = "waiting"
    <3>1. CASE queue'[i] = queue[i] /\ queue[i] \in Job /\ outcome[queue[i].id] = "waiting"
      BY <1>9, <3>1, JobFacts
    <3>2. ASSUME NEW k \in DOMAIN order, queue'[i] = NewJob(t, order[k])
          PROVE  outcome'[queue'[i].id] = "waiting"
      <4>1. queue'[i].id = <<t, order[k]>> /\ order[k] \in found
        BY <1>5, <3>2
      <4>. QED BY <1>10, <4>1
    <3>. QED BY <1>8, <3>1, <3>2
  <2>2. ASSUME NEW i \in DOMAIN queue', NEW j \in DOMAIN queue', queue'[i].id = queue'[j].id
        PROVE  i = j
    <3>1. CASE i \in DOMAIN queue /\ j \in DOMAIN queue
      BY <1>7, <2>2, <3>1 DEF InOrder
    <3>2. ASSUME NEW k \in DOMAIN queue', k \notin DOMAIN queue
          PROVE  /\ queue'[k].id[1] = t
                 /\ \E l \in DOMAIN order : k = n + l /\ queue'[k].id = <<t, order[l]>>
      <4>1. PICK l \in DOMAIN order : k = n + l /\ queue'[k] = NewJob(t, order[l])
        BY <1>8, <3>2
      <4>2. queue'[k].id = <<t, order[l]>> /\ queue'[k].id[1] = t
        BY <1>5, <4>1
      <4>. QED BY <4>1, <4>2
    <3>3. ASSUME NEW k \in DOMAIN queue
          PROVE  queue'[k].id[1] # t
      <4>1. queue'[k] = queue[k] /\ queue[k] \in Job /\ outcome[queue[k].id] = "waiting"
        BY <1>7 DEF InOrder
      <4>. QED BY <1>3, <4>1, JobFacts
    <3>4. CASE i \notin DOMAIN queue /\ j \notin DOMAIN queue
      <4>1. PICK k \in DOMAIN order : i = n + k /\ queue'[i].id = <<t, order[k]>>
        BY <3>2, <3>4
      <4>2. PICK l \in DOMAIN order : j = n + l /\ queue'[j].id = <<t, order[l]>>
        BY <3>2, <3>4
      <4>. QED BY <1>2, <2>2, <4>1, <4>2
    <3>. QED BY <2>2, <3>1, <3>2, <3>3, <3>4
  <2>3. \A d \in Delivery : outcome'[d] = "none" => posts'[d] = 0 /\ ~acked'[d]
    <3>1. ASSUME NEW d \in Delivery, outcome'[d] = "none"
          PROVE  outcome[d] = "none"
      BY <1>9, <3>1
    <3>. QED BY <3>1 DEF InOrder
  <2>4. ASSUME NEW i \in DOMAIN queue', i > 1 \/ i \notin DOMAIN queue
        PROVE  posts'[queue'[i].id] = 0
    <3>1. CASE i \in DOMAIN queue /\ queue'[i] = queue[i]
      BY <2>4, <3>1 DEF InOrder
    <3>2. ASSUME NEW k \in DOMAIN order, queue'[i] = NewJob(t, order[k])
          PROVE  posts[queue'[i].id] = 0
      <4>1. queue'[i].id = <<t, order[k]>> /\ posts[<<t, order[k]>>] = 0
        BY <1>5, <3>2
      <4>. QED BY <4>1
    <3>. QED BY <1>8, <3>1, <3>2
  <2>5. turn.failed \in Nat
    BY WebhooksAssumption DEF TypeOK, Turn
  <2>6. CASE queue = <<>>
    <3>1. turn' = Fresh /\ Fresh.pc = "post"
      BY <2>6 DEF InOrder, Fresh
    <3>2. queue' # <<>> => First' = queue'[1] /\ 1 \in DOMAIN queue' /\ 1 \notin DOMAIN queue
      BY <1>7, <2>6 DEF First
    <3>3. queue' # <<>> => posts'[First'.id] = 0
      BY <2>4, <3>2
    <3>4. \A job \in offs' : outcome'[job.id] = "failed"
      BY <1>9, JobFacts DEF InOrder
    <3>. QED BY <2>1, <2>2, <2>3, <2>4, <2>5, <3>1, <3>3, <3>4 DEF InOrder
  <2>7. CASE queue # <<>>
    <3>1. First' = First /\ queue' # <<>>
      <4>1. First = queue[1] /\ 1 \in DOMAIN queue
        BY <2>7, SequenceFacts DEF First
      <4>2. queue' # <<>> /\ Head(queue') = queue'[1]
        BY <1>7, <4>1
      <4>. QED BY <1>7, <4>1, <4>2 DEF First
    <3>2. \A job \in offs' : outcome'[job.id] = "failed"
      BY <1>9, JobFacts DEF InOrder
    <3>. QED BY <2>1, <2>2, <2>3, <2>4, <2>7, <3>1, <3>2 DEF InOrder
  <2>. QED BY <2>6, <2>7
<1>15. LastFiredIsTrue'
  <2>1. ASSUME NEW d \in Delivery, outcome'[d] = "delivered"
        PROVE  outcome[d] = "delivered"
    BY <2>1
  <2>. QED BY <2>1 DEF LastFiredIsTrue, Exists
<1>16. CalledAsSubscribed'
  <2>1. ASSUME NEW i \in DOMAIN queue'
        PROVE  \/ queue'[i].edited
               \/ /\ hook[queue'[i].id[2]].url = queue'[i].url
                  /\ hook[queue'[i].id[2]].group = happened'[queue'[i].id[1]].group
                  /\ hook[queue'[i].id[2]].event = happened'[queue'[i].id[1]].event
                  /\ \/ hook[queue'[i].id[2]].active
                     \/ \E s \in Happenings : outcome'[<<s, queue'[i].id[2]>>] = "failed"
    <3>1. \A s \in Happenings :
            happened'[s].group = happened[s].group /\ happened'[s].event = happened[s].event
      BY DEF TypeOK
    <3>2. CASE i \in DOMAIN queue /\ queue'[i] = queue[i] /\ queue[i] \in Job
      <4>1. queue[i].id[1] \in Happenings /\ queue[i].id[2] \in Hooks
        BY <3>2, JobFacts DEF HookOf
      <4>2. \A s \in Happenings, h \in Hooks :
              outcome[<<s, h>>] = "failed" => outcome'[<<s, h>>] = "failed"
        BY <1>9 DEF Delivery
      <4>. QED BY <3>1, <3>2, <4>1, <4>2, SMTT(20) DEF CalledAsSubscribed
    <3>3. ASSUME NEW k \in DOMAIN order, queue'[i] = NewJob(t, order[k])
          PROVE  /\ hook[queue'[i].id[2]].url = queue'[i].url
                 /\ hook[queue'[i].id[2]].group = happened'[queue'[i].id[1]].group
                 /\ hook[queue'[i].id[2]].event = happened'[queue'[i].id[1]].event
                 /\ hook[queue'[i].id[2]].active
      <4>1. order[k] \in found
        BY <1>2
      <4>2. queue'[i].id[1] = t /\ queue'[i].id[2] = order[k] /\ queue'[i].url = hook[order[k]].url
        BY <1>5, <3>3
      <4>. QED BY <1>4, <3>1, <4>1, <4>2, ZenonT(40)
    <3>. QED BY <1>8, <3>2, <3>3
  <2>. QED BY <2>1 DEF CalledAsSubscribed
<1>17. OffsMatch'
  BY DEF OffsMatch
<1>. QED BY <1>11, <1>12, <1>13, <1>14, <1>15, <1>16, <1>17 DEF Inv, WebhooksInv

\* An attempt that leaves the first delivery where it is.
LEMMA AttemptKeeps ==
  ASSUME Inv, queue # <<>>, UNCHANGED <<callers, hook, queue, offs, outcome>>,
         turn' \in Turn, (UNCHANGED posts) \/ Reach,
         (UNCHANGED acked) \/ acked' = [acked EXCEPT ![First.id] = TRUE],
         turn'.pc = "post" => posts'[First.id] <= turn'.failed,
         turn'.pc = "save" => acked'[First.id] /\ posts'[First.id] \in 1..turn'.failed + 1,
         turn'.pc = "hung" => posts'[First.id] <= turn'.failed + 1
  PROVE  Inv'
<1>. /\ TypeOK /\ HandedOut /\ TriggeredOnce /\ InOrder
     /\ LastFiredIsTrue /\ CalledAsSubscribed /\ OffsMatch
  BY DEF Inv, WebhooksInv
<1>. UNCHANGED <<unused, req, happened>>
  BY DEF callers
<1>1. /\ First.id \in Delivery /\ outcome[First.id] = "waiting" /\ First = queue[1]
      /\ \A i \in DOMAIN queue : i > 1 => queue[i].id # First.id /\ queue[i].id \in Delivery
  <2>1. queue \in Seq(Job)
    BY DEF TypeOK
  <2>2. First.id \in Delivery /\ outcome[First.id] = "waiting" /\ First = queue[1]
    BY FirstFacts
  <2>3. 1 \in DOMAIN queue /\ DOMAIN queue = 1..Len(queue)
    BY <2>1, SequenceFacts
  <2>4. ASSUME NEW i \in DOMAIN queue, i > 1
        PROVE  queue[i].id # First.id /\ queue[i].id \in Delivery
    <3>1. queue[i] \in Job /\ i # 1
      BY <2>1, <2>3, <2>4, SequenceFacts
    <3>. QED BY <2>2, <2>3, <3>1, JobFacts DEF InOrder
  <2>. QED BY <2>2, <2>4
<1>2. /\ posts' \in [Delivery -> Nat] /\ acked' \in [Delivery -> BOOLEAN]
      /\ \A d \in Delivery : d # First.id => posts'[d] = posts[d] /\ acked'[d] = acked[d]
      /\ \A d \in Delivery : acked[d] => acked'[d]
  <2>1. posts' \in [Delivery -> Nat] /\ \A d \in Delivery : d # First.id => posts'[d] = posts[d]
    BY <1>1 DEF TypeOK, Reach
  <2>2. acked' \in [Delivery -> BOOLEAN] /\ \A d \in Delivery : d # First.id => acked'[d] = acked[d]
    BY <1>1 DEF TypeOK
  <2>3. \A d \in Delivery : acked[d] => acked'[d]
    BY <1>1 DEF TypeOK
  <2>. QED BY <2>1, <2>2, <2>3
<1>3. TypeOK'
  BY <1>2 DEF TypeOK
<1>4. HandedOut' /\ TriggeredOnce'
  BY DEF HandedOut, TriggeredOnce, Exists
<1>5. InOrder'
  <2>1. \A d \in Delivery : outcome'[d] = "none" => posts'[d] = 0 /\ ~acked'[d]
    BY <1>1, <1>2 DEF InOrder
  <2>2. \A i \in DOMAIN queue : i > 1 => posts'[queue[i].id] = 0
    BY <1>1, <1>2 DEF InOrder
  <2>3. First' = First
    BY DEF First
  <2>. QED BY <2>1, <2>2, <2>3 DEF InOrder
<1>6. LastFiredIsTrue'
  <2>1. \A t \in Happenings, h \in Hooks : acked[<<t, h>>] => acked'[<<t, h>>]
    BY <1>2 DEF Delivery
  <2>. QED BY <1>2, <2>1 DEF LastFiredIsTrue, Exists
<1>7. CalledAsSubscribed' /\ OffsMatch'
  BY DEF CalledAsSubscribed, OffsMatch
<1>. QED BY <1>3, <1>4, <1>5, <1>6, <1>7 DEF Inv, WebhooksInv

\* The end of the first delivery, done or given up.
LEMMA LeaveKeeps ==
  ASSUME Inv, queue # <<>>, NEW end \in {"delivered", "failed"}, Leave(end),
         UNCHANGED <<callers, acked>>, (UNCHANGED posts) \/ Reach,
         offs' = offs \/ (offs' = offs \cup {First} /\ end = "failed"),
         \/ UNCHANGED hook /\ end = "failed"
         \/ /\ Exists(HookOf(First)) /\ acked[First.id]
            /\ hook' = [hook EXCEPT ![HookOf(First)].fired = TRUE]
  PROVE  Inv'
<1>. /\ TypeOK /\ HandedOut /\ TriggeredOnce /\ InOrder
     /\ LastFiredIsTrue /\ CalledAsSubscribed /\ OffsMatch
  BY DEF Inv, WebhooksInv
<1>. UNCHANGED <<unused, req, happened>>
  BY DEF callers
<1>. /\ queue' = Tail(queue) /\ turn' = Fresh
     /\ outcome' = [outcome EXCEPT ![First.id] = end]
  BY DEF Leave
<1>. queue \in Seq(Job) /\ offs \subseteq Job /\ hook \in [Hooks -> Row \cup {NoHook}]
  BY DEF TypeOK
<1>1. /\ First \in Job /\ First.id \in Delivery /\ outcome[First.id] = "waiting"
      /\ happened[First.id[1]].pc = "over" /\ First = queue[1]
      /\ First.id[1] \in Happenings /\ HookOf(First) \in Hooks
      /\ First.id = <<First.id[1], HookOf(First)>> /\ 1 \in DOMAIN queue
  BY FirstFacts, JobFacts, SequenceFacts
<1>2. \A i \in DOMAIN queue' :
        /\ i \in Nat /\ i >= 1 /\ i + 1 \in DOMAIN queue /\ queue'[i] = queue[i + 1]
        /\ queue'[i] \in Job /\ queue'[i].id \in Delivery /\ queue'[i].id # First.id
        /\ outcome[queue'[i].id] = "waiting" /\ posts[queue'[i].id] = 0
  <2>1. ASSUME NEW i \in DOMAIN queue'
        PROVE  /\ i \in Nat /\ i >= 1 /\ i + 1 > 1 /\ i + 1 \in DOMAIN queue
               /\ queue'[i] = queue[i + 1] /\ queue[i + 1] \in Job
               /\ queue[i + 1].id # First.id
    BY FirstFacts, SequenceFacts
  <2>. QED BY <2>1, JobFacts DEF InOrder
<1>3. \A d \in Delivery : d # First.id => outcome'[d] = outcome[d] /\ posts'[d] = posts[d]
  BY <1>1 DEF TypeOK, Reach
<1>4. outcome'[First.id] = end /\ end # "none" /\ end # "waiting"
  BY <1>1 DEF TypeOK
<1>5. /\ hook' \in [Hooks -> Row \cup {NoHook}]
      /\ \A h \in Hooks :
           /\ Exists(h)' <=> Exists(h)
           /\ hook'[h].group = hook[h].group /\ hook'[h].event = hook[h].event
           /\ hook'[h].url = hook[h].url /\ hook'[h].active = hook[h].active
           /\ hook[h].fired => hook'[h].fired
           /\ hook'[h].fired => hook[h].fired \/ (h = HookOf(First) /\ acked[First.id])
           /\ end = "delivered" /\ h = HookOf(First) => hook'[h].fired
  <2>1. CASE UNCHANGED hook /\ end = "failed"
    BY <2>1 DEF Exists
  <2>2. CASE /\ Exists(HookOf(First)) /\ acked[First.id]
             /\ hook' = [hook EXCEPT ![HookOf(First)].fired = TRUE]
    <3>1. hook[HookOf(First)] \in Row
      BY <1>1, <2>2 DEF Exists
    <3>2. hook'[HookOf(First)] \in Row
      BY <1>1, <2>2, <3>1, RowFacts
    <3>3. /\ hook'[HookOf(First)].fired
          /\ hook'[HookOf(First)].group = hook[HookOf(First)].group
          /\ hook'[HookOf(First)].event = hook[HookOf(First)].event
          /\ hook'[HookOf(First)].url = hook[HookOf(First)].url
          /\ hook'[HookOf(First)].active = hook[HookOf(First)].active
      BY <1>1, <2>2, <3>1 DEF Row
    <3>4. \A h \in Hooks : h # HookOf(First) => hook'[h] = hook[h]
      BY <2>2
    <3>5. hook' \in [Hooks -> Row \cup {NoHook}]
      BY <2>2, <3>2, <3>4
    <3>. QED BY <1>1, <2>2, <3>1, <3>2, <3>3, <3>4, <3>5, RowFacts DEF Exists
  <2>. QED BY <2>1, <2>2
<1>6. TypeOK'
  <2>1. queue' \in Seq(Job)
    BY SequenceFacts
  <2>2. turn' \in Turn
    BY WebhooksAssumption DEF Fresh, Turn
  <2>3. posts' \in [Delivery -> Nat]
    BY <1>1 DEF TypeOK, Reach
  <2>4. outcome' \in [Delivery -> {"none", "waiting", "delivered", "failed", "lost"}]
    BY DEF TypeOK
  <2>. QED BY <1>1, <1>5, <2>1, <2>2, <2>3, <2>4 DEF TypeOK
<1>7. HandedOut'
  <2>1. ASSUME NEW h \in unused, NEW t \in Happenings
        PROVE  outcome'[<<t, h>>] = "none"
    <3>1. <<t, h>> \in Delivery /\ outcome[<<t, h>>] = "none"
      BY DEF HandedOut, TypeOK, Delivery
    <3>. QED BY <1>1, <1>3, <3>1
  <2>2. unused \subseteq Hooks
    BY DEF TypeOK
  <2>. QED BY <1>5, <2>1, <2>2 DEF HandedOut
<1>8. TriggeredOnce'
  BY <1>1, <1>3 DEF TriggeredOnce
<1>9. InOrder'
  <2>1. \A i \in DOMAIN queue' : outcome'[queue'[i].id] = "waiting" /\ posts'[queue'[i].id] = 0
    BY <1>2, <1>3
  <2>2. ASSUME NEW i \in DOMAIN queue', NEW j \in DOMAIN queue', queue'[i].id = queue'[j].id
        PROVE  i = j
    <3>1. i + 1 = j + 1
      BY <1>2, <2>2 DEF InOrder
    <3>. QED BY <1>2, <3>1
  <2>3. \A d \in Delivery : outcome'[d] = "none" => posts'[d] = 0 /\ ~acked'[d]
    BY <1>3, <1>4 DEF InOrder
  <2>4. turn'.pc = "post" /\ turn'.failed = 0
    BY DEF Fresh
  <2>5. queue' # <<>> => posts'[First'.id] = 0
    <3>1. queue' # <<>> => First' = queue'[1] /\ 1 \in DOMAIN queue'
      <4>1. queue' \in Seq(Job)
        BY SequenceFacts
      <4>. QED BY <4>1, SequenceFacts DEF First
    <3>. QED BY <2>1, <3>1
  <2>6. \A job \in offs' : outcome'[job.id] = "failed"
    <3>1. \A job \in offs : job.id \in Delivery /\ job.id # First.id /\ outcome[job.id] = "failed"
      BY FirstFacts, JobFacts DEF InOrder
    <3>. QED BY <1>3, <1>4, <3>1
  <2>. QED BY <2>1, <2>2, <2>3, <2>4, <2>5, <2>6 DEF InOrder
<1>10. LastFiredIsTrue'
  <2>1. ASSUME NEW h \in Hooks, hook'[h].fired
        PROVE  \E t \in Happenings : acked'[<<t, h>>]
    <3>1. CASE hook[h].fired
      BY <3>1 DEF LastFiredIsTrue
    <3>2. CASE h = HookOf(First) /\ acked[First.id]
      <4>1. acked'[<<First.id[1], h>>]
        BY <1>1, <3>2
      <4>. QED BY <1>1, <4>1
    <3>. QED BY <1>5, <2>1, <3>1, <3>2
  <2>2. ASSUME NEW d \in Delivery, outcome'[d] = "delivered"
        PROVE  acked'[d] /\ (Exists(d[2])' => hook'[d[2]].fired)
    <3>1. d[2] \in Hooks
      BY DEF Delivery
    <3>2. CASE d = First.id
      BY <1>1, <1>4, <1>5, <2>2, <3>1, <3>2 DEF HookOf
    <3>3. CASE d # First.id
      BY <1>3, <1>5, <2>2, <3>1, <3>3 DEF LastFiredIsTrue
    <3>. QED BY <3>2, <3>3
  <2>. QED BY <2>1, <2>2 DEF LastFiredIsTrue
<1>11. CalledAsSubscribed'
  <2>1. ASSUME NEW i \in DOMAIN queue', ~queue'[i].edited
        PROVE  LET job == queue'[i] IN
               /\ hook'[job.id[2]].url = job.url
               /\ hook'[job.id[2]].group = happened[job.id[1]].group
               /\ hook'[job.id[2]].event = happened[job.id[1]].event
               /\ \/ hook'[job.id[2]].active
                  \/ \E s \in Happenings : outcome'[<<s, job.id[2]>>] = "failed"
    <3>. DEFINE job == queue'[i]
    <3>1. job = queue[i + 1] /\ i + 1 \in DOMAIN queue /\ job \in Job
      BY <1>2
    <3>2. job.id[2] \in Hooks
      BY <3>1, JobFacts DEF HookOf
    <3>3. /\ hook[job.id[2]].url = job.url
          /\ hook[job.id[2]].group = happened[job.id[1]].group
          /\ hook[job.id[2]].event = happened[job.id[1]].event
          /\ \/ hook[job.id[2]].active
             \/ \E s \in Happenings : outcome[<<s, job.id[2]>>] = "failed"
      BY <2>1, <3>1 DEF CalledAsSubscribed
    <3>4. \A s \in Happenings, h \in Hooks :
            outcome[<<s, h>>] = "failed" => outcome'[<<s, h>>] = "failed"
      BY <1>1, <1>3 DEF Delivery
    <3>. QED BY <1>5, <3>2, <3>3, <3>4
  <2>. QED BY <2>1 DEF CalledAsSubscribed
<1>12. OffsMatch'
  <2>1. First.edited \/ hook[HookOf(First)].url = First.url
    BY <1>1 DEF CalledAsSubscribed, HookOf
  <2>2. \A job \in offs : HookOf(job) \in Hooks
    BY JobFacts
  <2>. QED BY <1>1, <1>5, <2>1, <2>2 DEF OffsMatch
<1>. QED BY <1>6, <1>7, <1>8, <1>9, <1>10, <1>11, <1>12 DEF Inv, WebhooksInv

LEMMA SwitchOffKeeps ==
  ASSUME Inv, NEW job \in offs, SwitchOff(job)
  PROVE  Inv'
<1>. DEFINE h == HookOf(job)
<1>. /\ TypeOK /\ HandedOut /\ TriggeredOnce /\ InOrder
     /\ LastFiredIsTrue /\ CalledAsSubscribed /\ OffsMatch
  BY DEF Inv, WebhooksInv
<1>. /\ UNCHANGED <<unused, req, happened, queue, turn, posts, acked, outcome>>
     /\ offs' = offs \ {job}
  BY DEF SwitchOff, callers, received
<1>. queue \in Seq(Job) /\ offs \subseteq Job /\ hook \in [Hooks -> Row \cup {NoHook}]
  BY DEF TypeOK
<1>1. h \in Hooks /\ job.id[1] \in Happenings /\ outcome[<<job.id[1], h>>] = "failed"
  BY JobFacts DEF InOrder
<1>2. /\ hook' \in [Hooks -> Row \cup {NoHook}]
      /\ \A g \in Hooks :
           /\ Exists(g)' <=> Exists(g)
           /\ hook'[g].group = hook[g].group /\ hook'[g].event = hook[g].event
           /\ hook'[g].url = hook[g].url /\ hook'[g].fired = hook[g].fired
           /\ g # h => hook'[g].active = hook[g].active
  <2>1. CASE UNCHANGED hook
    BY <2>1 DEF Exists
  <2>2. CASE Exists(h) /\ hook' = [hook EXCEPT ![h].active = FALSE]
    <3>1. hook[h] \in Row
      BY <1>1, <2>2 DEF Exists
    <3>2. hook'[h] \in Row
      BY <1>1, <2>2, <3>1, RowFacts
    <3>3. /\ hook'[h].group = hook[h].group /\ hook'[h].event = hook[h].event
          /\ hook'[h].url = hook[h].url /\ hook'[h].fired = hook[h].fired
      BY <1>1, <2>2, <3>1 DEF Row
    <3>4. \A g \in Hooks : g # h => hook'[g] = hook[g]
      BY <2>2
    <3>5. hook' \in [Hooks -> Row \cup {NoHook}]
      BY <2>2, <3>2, <3>4
    <3>. QED BY <1>1, <2>2, <3>1, <3>2, <3>3, <3>4, <3>5, RowFacts DEF Exists
  <2>. QED BY <2>1, <2>2 DEF SwitchOff
<1>3. TypeOK'
  BY <1>2 DEF TypeOK
<1>4. HandedOut' /\ TriggeredOnce'
  BY <1>2 DEF HandedOut, TriggeredOnce, TypeOK
<1>5. InOrder'
  BY DEF InOrder, First
<1>6. LastFiredIsTrue'
  <2>1. \A d \in Delivery : d[2] \in Hooks
    BY DEF Delivery
  <2>. QED BY <1>2, <2>1 DEF LastFiredIsTrue
<1>7. CalledAsSubscribed'
  <2>1. ASSUME NEW i \in DOMAIN queue
        PROVE  queue[i].id[2] \in Hooks
    BY SequenceFacts, JobFacts DEF HookOf
  <2>2. ASSUME NEW g \in Hooks, hook[g].active
        PROVE  hook'[g].active \/ \E s \in Happenings : outcome[<<s, g>>] = "failed"
    BY <1>1, <1>2, <2>2
  <2>3. ASSUME NEW i \in DOMAIN queue, ~queue[i].edited
        PROVE  LET t == queue[i].id[1]
                   g == queue[i].id[2] IN
               /\ hook'[g].url = queue[i].url
               /\ hook'[g].group = happened[t].group /\ hook'[g].event = happened[t].event
               /\ hook'[g].active \/ \E s \in Happenings : outcome[<<s, g>>] = "failed"
    <3>. DEFINE g == queue[i].id[2]
    <3>1. g \in Hooks
      BY <2>1
    <3>2. /\ hook[g].url = queue[i].url
          /\ hook[g].group = happened[queue[i].id[1]].group
          /\ hook[g].event = happened[queue[i].id[1]].event
          /\ hook[g].active \/ \E s \in Happenings : outcome[<<s, g>>] = "failed"
      BY <2>3 DEF CalledAsSubscribed
    <3>. HIDE DEF g
    <3>3. hook'[g].active \/ \E s \in Happenings : outcome[<<s, g>>] = "failed"
      BY <2>2, <3>1, <3>2
    <3>. QED BY <1>2, <3>1, <3>2, <3>3 DEF g
  <2>. QED BY <2>3 DEF CalledAsSubscribed
<1>8. OffsMatch'
  <2>1. \A other \in offs : HookOf(other) \in Hooks
    BY JobFacts
  <2>. QED BY <1>2, <2>1 DEF OffsMatch
<1>. QED BY <1>3, <1>4, <1>5, <1>6, <1>7, <1>8 DEF Inv, WebhooksInv

LEMMA RestartKeeps ==
  ASSUME Inv, Restart
  PROVE  Inv'
<1>. /\ TypeOK /\ HandedOut /\ TriggeredOnce /\ InOrder
     /\ LastFiredIsTrue /\ CalledAsSubscribed /\ OffsMatch
  BY DEF Inv, WebhooksInv
<1>. UNCHANGED <<hook, unused, posts, acked>> /\ queue' = <<>> /\ turn' = Fresh /\ offs' = {}
  BY DEF Restart
<1>1. \A d \in Delivery :
        /\ outcome'[d] \in {"none", "waiting", "delivered", "failed", "lost"}
        /\ outcome'[d] = "none" <=> outcome[d] = "none"
        /\ outcome'[d] = "delivered" <=> outcome[d] = "delivered"
  BY DEF Restart, TypeOK
<1>2. \A t \in Happenings :
        /\ happened'[t] \in [pc : {"not_yet", "record", "find", "over"},
                             group : Groups \cup {None}, event : Events \cup {None}]
        /\ happened[t].pc = "over" => happened'[t].pc = "over"
  BY DEF Restart, TypeOK
<1>3. TypeOK'
  <2>1. <<>> \in Seq(Job)
    OBVIOUS
  <2>2. turn' \in Turn
    BY WebhooksAssumption DEF Fresh, Turn
  <2>3. req' \in [Requests -> Request]
    BY DEF Restart, Idle, Request
  <2>4. happened' \in [Happenings -> [pc : {"not_yet", "record", "find", "over"},
                                  group : Groups \cup {None}, event : Events \cup {None}]]
    BY <1>2 DEF Restart
  <2>5. outcome' \in [Delivery -> {"none", "waiting", "delivered", "failed", "lost"}]
    BY <1>1 DEF Restart
  <2>. QED BY <2>1, <2>2, <2>3, <2>4, <2>5 DEF TypeOK
<1>4. HandedOut'
  <2>1. \A h \in unused, t \in Happenings : <<t, h>> \in Delivery
    BY DEF TypeOK, Delivery
  <2>. QED BY <1>1, <2>1 DEF HandedOut, Exists
<1>5. TriggeredOnce'
  <2>1. \A d \in Delivery : d[1] \in Happenings
    BY DEF Delivery
  <2>. QED BY <1>1, <1>2, <2>1 DEF TriggeredOnce
<1>6. InOrder'
  BY <1>1 DEF InOrder, Fresh
<1>7. LastFiredIsTrue'
  BY <1>1 DEF LastFiredIsTrue, Exists
<1>8. CalledAsSubscribed' /\ OffsMatch'
  <2>1. \A i \in DOMAIN queue' : FALSE
    OBVIOUS
  <2>. QED BY <2>1 DEF CalledAsSubscribed, OffsMatch
<1>. QED BY <1>3, <1>4, <1>5, <1>6, <1>7, <1>8 DEF Inv, WebhooksInv

----------------------------------------------------------------------------
\* The first delivery with one failure more, or off the queue.
LEMMA FailAttemptKeeps ==
  ASSUME Inv, queue # <<>>, UNCHANGED <<callers, hook, acked>>, FailAttempt, turn.pc # "hung",
         (UNCHANGED posts) \/ (turn.pc = "post" /\ Reach)
  PROVE  Inv'
<1>1. turn \in Turn /\ InOrder /\ First.id \in Delivery /\ posts \in [Delivery -> Nat]
  BY FirstFacts DEF Inv, WebhooksInv, TypeOK
<1>2. CASE turn.failed < Retries
  <2>1. /\ turn' = [pc |-> "post", failed |-> turn.failed + 1]
        /\ UNCHANGED <<queue, offs, outcome>>
    BY <1>2 DEF FailAttempt
  <2>2. turn' \in Turn /\ turn.failed \in Nat
    BY <1>1, <1>2, <2>1, WebhooksAssumption DEF Turn
  <2>3. posts'[First.id] <= turn'.failed /\ turn'.pc = "post"
    <3>1. CASE turn.pc = "post"
      BY <1>1, <2>1, <2>2, <3>1 DEF InOrder, Reach
    <3>2. CASE turn.pc = "save"
      BY <1>1, <2>1, <2>2, <3>2 DEF InOrder
    <3>. QED BY <1>1, <3>1, <3>2 DEF Turn
  <2>. QED BY <2>1, <2>2, <2>3, AttemptKeeps
<1>3. CASE ~(turn.failed < Retries)
  <2>1. Leave("failed") /\ offs' = offs \cup {First}
    BY <1>3 DEF FailAttempt
  <2>. QED BY <2>1, LeaveKeeps
<1>. QED BY <1>2, <1>3

LEMMA HandleKeeps ==
  ASSUME Inv, Handle
  PROVE  Inv'
<1>. TypeOK /\ HandedOut /\ None \notin Groups
  BY WebhooksAssumption DEF Inv, WebhooksInv
<1>0. \A r \in Requests : req[r] \in Request
  BY DEF TypeOK
<1>1. ASSUME NEW h \in Hooks, NEW row \in Row, CreateWebhook(h, row)
      PROVE  Inv'
  BY <1>1, WriteKeeps DEF CreateWebhook, TypeOK
<1>2. ASSUME NEW r \in Requests, NEW group \in Groups, NEW h \in Hooks,
             NEW pc \in {"update", "delete"}, FindWebhook(r, group, h, pc)
      PROVE  Inv'
  <2>1. req' \in [Requests -> Request]
    BY <1>2 DEF FindWebhook, TypeOK, Request
  <2>. QED BY <1>2, <2>1, QuietKeeps DEF FindWebhook, TypeOK, received
<1>3. ASSUME NEW r \in Requests, NEW row \in Row, UpdateWebhook(r, row)
      PROVE  Inv'
  <2>1. req[r].hook \in Hooks /\ req[r].hook \notin unused
    <3>1. req[r].hook \in Hooks
      BY <1>0, <1>3 DEF UpdateWebhook, Request, Idle
    <3>. QED BY <1>3, <3>1 DEF UpdateWebhook, Exists, HandedOut
  <2>2. req' \in [Requests -> Request]
    BY <1>3 DEF UpdateWebhook, TypeOK, Request, Idle
  <2>. QED BY <1>3, <2>1, <2>2, WriteKeeps DEF UpdateWebhook
<1>4. ASSUME NEW r \in Requests, DeleteWebhook(r)
      PROVE  Inv'
  <2>1. req[r].hook \in Hooks /\ req[r].hook \notin unused
    <3>1. req[r].hook \in Hooks
      BY <1>0, <1>4 DEF DeleteWebhook, Request, Idle
    <3>. QED BY <1>4, <3>1 DEF DeleteWebhook, Exists, HandedOut
  <2>2. req' \in [Requests -> Request]
    BY <1>4 DEF DeleteWebhook, TypeOK, Request, Idle
  <2>. QED BY <1>4, <2>1, <2>2, WriteKeeps DEF DeleteWebhook
<1>5. ASSUME NEW r \in Requests, Abort(r)
      PROVE  Inv'
  <2>1. req' \in [Requests -> Request]
    BY <1>5 DEF Abort, TypeOK, Request, Idle
  <2>. QED BY <1>5, <2>1, QuietKeeps DEF Abort, TypeOK, received
<1>. QED BY <1>1, <1>2, <1>3, <1>4, <1>5 DEF Handle

LEMMA InterceptKeeps ==
  ASSUME Inv, Intercept
  PROVE  Inv'
<1>. TypeOK
  BY DEF Inv, WebhooksInv
<1>1. ASSUME NEW t \in Happenings, NEW g \in Groups, NEW e \in Events, Succeed(t, g, e)
      PROVE  Inv'
  BY <1>1, QuietKeeps DEF Succeed, others, received, TypeOK
<1>2. ASSUME NEW t \in Happenings, SaveAuditLog(t) \/ FailAuditLog(t)
      PROVE  Inv'
  <2>1. PICK pc \in {"find", "over"} : Continue(t, pc) /\ happened[t].pc # "over"
    BY <1>2 DEF SaveAuditLog, FailAuditLog
  <2>2. UNCHANGED <<hook, unused, req, queue, turn, offs, received>>
    BY <1>2 DEF SaveAuditLog, FailAuditLog, others, received
  <2>3. happened' \in [Happenings -> [pc : {"not_yet", "record", "find", "over"},
                                  group : Groups \cup {None}, event : Events \cup {None}]]
    BY <2>1, ZenonT(40) DEF Continue, TypeOK
  <2>4. TypeOK'
    BY <2>2, <2>3 DEF TypeOK, received
  <2>5. \A s \in Happenings : happened[s].pc = "over" => happened'[s] = happened[s]
    BY <2>1 DEF Continue, TypeOK
  <2>. QED BY <2>2, <2>4, <2>5, QuietKeeps
<1>. QED BY <1>1, <1>2, TriggerKeeps DEF Intercept

LEMMA WorkKeeps ==
  ASSUME Inv, Work
  PROVE  Inv'
<1>. TypeOK /\ InOrder /\ turn \in Turn
  BY DEF Inv, WebhooksInv, TypeOK
<1>1. CASE PostWebhook
  <2>1. queue # <<>> /\ First.id \in Delivery /\ turn.pc = "post"
    BY <1>1, FirstFacts DEF PostWebhook, Posting
  <2>2. turn' = [turn EXCEPT !.pc = "save"] /\ acked' = [acked EXCEPT ![First.id] = TRUE]
    BY <1>1 DEF PostWebhook
  <2>3. turn' \in Turn /\ turn'.pc = "save" /\ turn'.failed = turn.failed /\ turn.failed \in Nat
    BY <2>2, WebhooksAssumption DEF Turn
  <2>4. acked'[First.id] /\ posts'[First.id] \in 1..turn'.failed + 1
    BY <1>1, <2>1, <2>2, <2>3 DEF PostWebhook, Reach, TypeOK, InOrder
  <2>. QED BY <1>1, <2>1, <2>2, <2>3, <2>4, AttemptKeeps DEF PostWebhook
<1>2. CASE FailToPost
  BY <1>2, FailAttemptKeeps DEF FailToPost, Posting
<1>3. CASE RefuseUrl
  BY <1>3, LeaveKeeps DEF RefuseUrl
<1>4. CASE SaveLastFired
  BY <1>4, LeaveKeeps DEF SaveLastFired, Saving, InOrder
<1>5. CASE FailToSave
  BY <1>5, FailAttemptKeeps DEF FailToSave, Saving
<1>6. CASE Hang
  <2>1. queue # <<>> /\ First.id \in Delivery /\ turn.pc = "post"
    BY <1>6, FirstFacts DEF Hang, Posting
  <2>2. turn' = [turn EXCEPT !.pc = "hung"]
    BY <1>6 DEF Hang
  <2>3. turn' \in Turn /\ turn'.pc = "hung" /\ turn'.failed = turn.failed /\ turn.failed \in Nat
    BY <2>2, WebhooksAssumption DEF Turn
  <2>4. posts'[First.id] <= turn'.failed + 1
    BY <1>6, <2>1, <2>3 DEF Hang, Reach, TypeOK, InOrder
  <2>. QED BY <1>6, <2>1, <2>3, <2>4, AttemptKeeps DEF Hang
<1>. QED BY <1>1, <1>2, <1>3, <1>4, <1>5, <1>6 DEF Work

LEMMA NextKeeps ==
  ASSUME Inv, [Next]_vars
  PROVE  Inv'
<1>1. CASE UNCHANGED vars
  <2>. UNCHANGED <<hook, unused, req, happened, queue, turn, offs, posts, acked, outcome>>
    BY <1>1 DEF vars
  <2>1. TypeOK'
    BY DEF Inv, WebhooksInv, TypeOK
  <2>. QED BY <2>1, QuietKeeps DEF received
<1>. QED BY <1>1, HandleKeeps, InterceptKeeps, WorkKeeps, SwitchOffKeeps, RestartKeeps DEF Next

LEMMA InitFits == Init => Inv
<1>. SUFFICES ASSUME Init PROVE Inv
  OBVIOUS
<1>1. TypeOK
  BY WebhooksAssumption DEF Init, TypeOK, Idle, Request, Fresh, Turn
<1>2. HandedOut /\ TriggeredOnce
  BY DEF Init, HandedOut, TriggeredOnce, Exists, Delivery
<1>3. InOrder
  BY DEF Init, InOrder, Fresh
<1>4. LastFiredIsTrue /\ CalledAsSubscribed /\ OffsMatch
  BY DEF Init, LastFiredIsTrue, CalledAsSubscribed, OffsMatch, NoHook
<1>. QED BY <1>1, <1>2, <1>3, <1>4 DEF Inv, WebhooksInv

LEMMA AlwaysInv == Spec => []Inv
  BY InitFits, NextKeeps, PTL DEF Spec

\* Types, ids handed out once, and the order of the queue: one delivery at a
\* time, each queued once and only by what happened (webhooks.service.ts).
THEOREM WebhooksCorrect == Spec => []WebhooksInv
<1>1. Inv => WebhooksInv
  BY DEF Inv
<1>. QED BY <1>1, AlwaysInv, PTL

\* lastFiredAt tells of a delivery that was answered, and is there after each
\* (callWebhook).
THEOREM LastFiredCorrect == Spec => []LastFiredIsTrue
<1>1. Inv => LastFiredIsTrue
  BY DEF Inv
<1>. QED BY <1>1, AlwaysInv, PTL

\* What is called is subscribed, as far as no request and no failure has
\* changed the webhook since it was found (triggerWebhook).
THEOREM CalledCorrect == Spec => []CalledAsSubscribed
<1>1. Inv => CalledAsSubscribed
  BY DEF Inv
<1>. QED BY <1>1, AlwaysInv, PTL

----------------------------------------------------------------------------
\* A webhook that is on and goes off: by an update, or by the update after a
\* delivery given up.
LEMMA OffStep ==
  ASSUME Inv, [Next]_vars, NEW h \in Hooks, hook[h].active, Exists(h)', ~hook'[h].active
  PROVE  \/ \E r \in Requests : req[r] = [pc |-> "update", hook |-> h] /\ req'[r] = Idle
         \/ \E job \in offs \ offs' :
              /\ HookOf(job) = h /\ outcome[job.id] = "failed"
              /\ job.url = hook[h].url \/ job.edited
<1>. /\ TypeOK /\ HandedOut /\ InOrder /\ OffsMatch
     /\ hook \in [Hooks -> Row \cup {NoHook}]
  BY DEF Inv, WebhooksInv, TypeOK
<1>1. hook'[h] # hook[h] /\ h \notin unused
  BY RowFacts DEF HandedOut, Exists
<1>2. ASSUME NEW g \in Hooks, NEW row \in Row, CreateWebhook(g, row)
      PROVE  FALSE
  BY <1>1, <1>2 DEF CreateWebhook, WriteByRequest
<1>3. ASSUME NEW r \in Requests, NEW row \in Row, UpdateWebhook(r, row)
      PROVE  req[r] = [pc |-> "update", hook |-> h] /\ req'[r] = Idle
  <2>1. req[r].hook = h
    BY <1>1, <1>3 DEF UpdateWebhook, WriteByRequest
  <2>2. req[r] = [pc |-> "update", hook |-> req[r].hook]
    BY <1>3 DEF UpdateWebhook, TypeOK, Request, Idle
  <2>. QED BY <1>3, <2>1, <2>2 DEF UpdateWebhook, TypeOK
<1>4. ASSUME NEW r \in Requests, DeleteWebhook(r)
      PROVE  FALSE
  <2>1. req[r].hook = h
    BY <1>1, <1>4 DEF DeleteWebhook, WriteByRequest
  <2>2. ~Exists(h)'
    BY <1>4, <2>1 DEF DeleteWebhook, WriteByRequest, Exists
  <2>. QED BY <2>2
<1>5. ASSUME NEW job \in offs, SwitchOff(job)
      PROVE  /\ job \in offs \ offs' /\ HookOf(job) = h /\ outcome[job.id] = "failed"
             /\ job.url = hook[h].url \/ job.edited
  <2>1. HookOf(job) = h
    BY <1>1, <1>5 DEF SwitchOff
  <2>. QED BY <1>5, <2>1 DEF SwitchOff, InOrder, OffsMatch
<1>6. ASSUME SaveLastFired
      PROVE  FALSE
  <2>1. HookOf(First) = h /\ hook' = [hook EXCEPT ![h].fired = TRUE]
    BY <1>1, <1>6 DEF SaveLastFired
  <2>2. hook[h] \in Row
    BY RowFacts
  <2>3. hook'[h].active = hook[h].active
    BY <2>1, <2>2 DEF Row
  <2>. QED BY <2>3
<1>7. ASSUME NEW r \in Requests,
             \/ Abort(r)
             \/ \E g \in Groups, w \in Hooks, pc \in {"update", "delete"} : FindWebhook(r, g, w, pc)
      PROVE  FALSE
  BY <1>1, <1>7 DEF Abort, FindWebhook
<1>8. ASSUME \/ Intercept \/ PostWebhook \/ FailToPost \/ Hang \/ RefuseUrl \/ FailToSave
             \/ Restart \/ UNCHANGED vars
      PROVE  FALSE
  BY <1>1, <1>8 DEF Intercept, Succeed, SaveAuditLog, FailAuditLog, TriggerWebhook, others,
     PostWebhook, FailToPost, Hang, RefuseUrl, FailToSave, Restart, vars
<1>. QED BY <1>2, <1>3, <1>4, <1>5, <1>6, <1>7, <1>8 DEF Next, Handle, Work

\* A webhook goes off by a request or after a delivery to it has been given up
\* (onFailedAttempt).
THEOREM OffCorrect == Spec => OffForItsFailures
<1>1. Inv /\ [Next]_vars =>
        [\A h \in Hooks : hook[h].active /\ Exists(h)' /\ ~hook[h].active' =>
           \/ \E r \in Requests : req[r] = [pc |-> "update", hook |-> h] /\ req'[r] = Idle
           \/ \E job \in offs \ offs' :
                /\ HookOf(job) = h /\ outcome[job.id] = "failed"
                /\ job.url = hook[h].url \/ job.edited]_vars
  BY OffStep
<1>. QED BY <1>1, AlwaysInv, PTL DEF Spec, OffForItsFailures

----------------------------------------------------------------------------
(* The queue implements Deliveries. *)

LEMMA SequencesEqual ==
  ASSUME NEW S, NEW s \in Seq(S), NEW f \in Seq(S),
         DOMAIN f = DOMAIN s, \A i \in DOMAIN s : s[i] = f[i]
  PROVE  s = f
<1>1. s \in [1..Len(s) -> S] /\ f \in [1..Len(f) -> S]
  OBVIOUS
<1>. QED BY <1>1

\* The library's definition, as Webhooks and as Deliveries see it.
LEMMA SameCardinality == ASSUME NEW S PROVE D!Cardinality(S) = Cardinality(S)
  BY DEF Cardinality, D!Cardinality

LEMMA WaitingFacts ==
  ASSUME Inv
  PROVE  /\ DOMAIN Waiting = DOMAIN queue
         /\ Waiting \in Seq(Delivery)
         /\ Waiting = <<>> <=> queue = <<>>
         /\ queue # <<>> => Head(Waiting) = First.id
<1>. queue \in Seq(Job)
  BY DEF Inv, WebhooksInv, TypeOK
<1>1. DOMAIN queue = 1..Len(queue) /\ Len(queue) \in Nat
      /\ \A i \in DOMAIN queue : queue[i].id \in Delivery
  BY SequenceFacts, JobFacts
<1>2. Waiting \in Seq(Delivery)
  BY <1>1 DEF Waiting
<1>3. DOMAIN Waiting = DOMAIN queue
  BY DEF Waiting
<1>4. Waiting = <<>> <=> queue = <<>>
  BY <1>1, <1>2, <1>3, SequenceFacts
<1>5. ASSUME queue # <<>>
      PROVE  Head(Waiting) = First.id
  <2>1. Head(Waiting) = Waiting[1] /\ First = queue[1] /\ 1 \in DOMAIN queue
    BY <1>2, <1>4, <1>5, SequenceFacts DEF First
  <2>. QED BY <2>1 DEF Waiting
<1>. QED BY <1>2, <1>3, <1>4, <1>5

LEMMA SameWaiting ==
  ASSUME DOMAIN queue' = DOMAIN queue, \A i \in DOMAIN queue : queue'[i].id = queue[i].id
  PROVE  Waiting' = Waiting
  BY DEF Waiting

LEMMA TailOfWaiting ==
  ASSUME Inv, queue # <<>>, queue' = Tail(queue)
  PROVE  Waiting' = Tail(Waiting)
<1>. queue \in Seq(Job)
  BY DEF Inv, WebhooksInv, TypeOK
<1>1. Waiting \in Seq(Delivery) /\ Waiting # <<>> /\ Len(Waiting) = Len(queue)
  <2>1. Waiting \in Seq(Delivery) /\ Waiting # <<>> /\ DOMAIN Waiting = DOMAIN queue
    BY WaitingFacts
  <2>. QED BY <2>1, SequenceFacts
<1>2. /\ DOMAIN Tail(Waiting) = DOMAIN Tail(queue)
      /\ \A i \in DOMAIN Tail(queue) :
           /\ Tail(Waiting)[i] = Waiting[i + 1] /\ Tail(queue)[i] = queue[i + 1]
           /\ i + 1 \in DOMAIN queue
  BY <1>1, SequenceFacts
<1>3. \A i \in DOMAIN Tail(queue) : Tail(Waiting)[i] = Tail(queue)[i].id
  BY <1>2 DEF Waiting
<1>4. Waiting' = [i \in DOMAIN Tail(queue) |-> Tail(queue)[i].id]
  BY DEF Waiting
<1>5. Tail(Waiting) \in Seq(Delivery)
  BY <1>1, SequenceFacts
<1>6. Waiting' \in Seq(Delivery)
  <2>1. /\ DOMAIN Tail(queue) = 1..Len(queue) - 1 /\ Len(queue) - 1 \in Nat
        /\ \A i \in DOMAIN Tail(queue) : Tail(queue)[i].id \in Delivery
    BY SequenceFacts, JobFacts
  <2>. QED BY <1>4, <2>1
<1>. QED BY <1>2, <1>3, <1>4, <1>5, <1>6, SequencesEqual

LEMMA LeaveRefines ==
  ASSUME Inv, queue # <<>>, Leave("failed"), (UNCHANGED posts) \/ (turn.pc = "post" /\ Reach)
  PROVE  D!GiveUp
<1>1. Waiting # <<>> /\ Head(Waiting) = First.id /\ Waiting' = Tail(Waiting)
  BY WaitingFacts, TailOfWaiting DEF Leave
<1>2. D!Leave("failed")
  BY <1>1 DEF Leave, D!Leave
<1>3. (UNCHANGED posts) \/ D!Received
  <2>1. turn.pc = "post" => posts[First.id] < Retries + 1
    BY FirstFacts, WebhooksAssumption DEF Inv, WebhooksInv, TypeOK, Turn, InOrder
  <2>. QED BY <1>1, <2>1 DEF Reach, D!Received
<1>. QED BY <1>2, <1>3 DEF D!GiveUp

\* As many deliveries as webhooks found.
LEMMA PairsCounted ==
  ASSUME NEW t, NEW found, IsFiniteSet(found)
  PROVE  IsFiniteSet({t} \X found) /\ Cardinality({t} \X found) = Cardinality(found)
<1>. DEFINE pairs == {t} \X found
            f == [h \in found |-> <<t, h>>]
<1>1. f \in Bijection(found, pairs)
  BY DEF Bijection, Injection, Surjection, IsInjective
<1>2. ExistsBijection(found, pairs)
  BY <1>1 DEF ExistsBijection
<1>. QED BY <1>2, FS_Bijection

LEMMA TriggerRefines ==
  ASSUME Inv, NEW t \in Happenings, TriggerWebhook(t)
  PROVE  \E new \in SUBSET Delivery : D!Accept(new)
<1>. DEFINE found == {h \in Hooks : Subscribed(h, t)}
            new == {t} \X found
<1>. queue \in Seq(Job)
  BY DEF Inv, WebhooksInv, TypeOK
<1>1. PICK order \in SetToSeqs(found) :
        queue' = queue \o [i \in DOMAIN order |-> NewJob(t, order[i])]
  BY DEF TriggerWebhook
<1>. DEFINE ids == [i \in DOMAIN order |-> <<t, order[i]>>]
            jobs == [i \in DOMAIN order |-> NewJob(t, order[i])]
<1>2. IsFiniteSet(found) /\ Cardinality(new) = Cardinality(found) /\ Cardinality(found) \in Nat
  <2>1. IsFiniteSet(found)
    BY FS_Subset, WebhooksAssumption
  <2>. QED BY <2>1, PairsCounted, FS_CardinalityType
<1>3. /\ DOMAIN order = 1..Cardinality(found) /\ order \in Seq(found)
      /\ \A i \in DOMAIN order : order[i] \in found
      /\ \A i, j \in DOMAIN order : i # j => order[i] # order[j]
  <2>1. /\ order \in [1..Cardinality(found) -> found]
        /\ \A i, j \in 1..Cardinality(found) : i # j => order[i] # order[j]
    BY <1>1 DEF SetToSeqs
  <2>. HIDE DEF found
  <2>. QED BY <1>2, <2>1
<1>4. new \in SUBSET Delivery
  BY DEF Delivery
<1>5. \A d \in new : outcome[d] = "none"
  BY <1>4 DEF TriggerWebhook, Inv, WebhooksInv, TriggeredOnce
<1>6. ids \in D!SetToSeqs(new)
  <2>1. D!Cardinality(new) = Cardinality(found)
    BY <1>2, SameCardinality
  <2>2. /\ ids \in [1..Cardinality(found) -> new]
        /\ \A i, j \in 1..Cardinality(found) : i # j => ids[i] # ids[j]
    BY <1>3
  <2>. HIDE DEF ids, new, found
  <2>. QED BY <2>1, <2>2 DEF D!SetToSeqs
<1>7. Waiting' = Waiting \o ids
  <2>1. Waiting \in Seq(Delivery) /\ DOMAIN Waiting = DOMAIN queue
    BY WaitingFacts
  <2>2. Len(Waiting) = Len(queue) /\ DOMAIN queue = 1..Len(queue) /\ Len(queue) \in Nat
    BY <2>1, SequenceFacts
  <2>3. ids \in Seq(Delivery) /\ Len(ids) = Len(order) /\ Len(order) \in Nat
        /\ DOMAIN order = 1..Len(order) /\ DOMAIN ids = 1..Len(order)
    <3>1. DOMAIN order = 1..Len(order) /\ Len(order) \in Nat
      BY <1>3, SequenceFacts
    <3>2. ids \in [1..Len(order) -> Delivery]
      BY <1>3, <1>4, <3>1
    <3>. HIDE DEF ids
    <3>. QED BY <3>1, <3>2
  <2>4. /\ DOMAIN queue' = 1..Len(queue) + Len(order)
        /\ \A i \in 1..Len(queue) : queue'[i] = queue[i]
        /\ \A i \in 1..Len(order) : queue'[Len(queue) + i].id = <<t, order[i]>>
    <3>1. jobs \in [1..Len(order) -> {NewJob(t, h) : h \in found}]
      BY <1>3, <2>3
    <3>2. \A i \in 1..Len(order) : jobs[i].id = <<t, order[i]>>
      BY <2>3 DEF NewJob
    <3>. HIDE DEF jobs
    <3>3. jobs \in Seq({NewJob(t, h) : h \in found}) /\ Len(jobs) = Len(order)
      BY <2>3, <3>1
    <3>4. queue' = queue \o jobs
      BY <1>1 DEF jobs
    <3>5. /\ DOMAIN (queue \o jobs) = 1..Len(queue) + Len(jobs)
          /\ \A i \in 1..Len(queue) : (queue \o jobs)[i] = queue[i]
          /\ \A i \in 1..Len(jobs) : (queue \o jobs)[Len(queue) + i] = jobs[i]
      BY <3>3
    <3>. QED BY <3>2, <3>3, <3>4, <3>5
  <2>5. DOMAIN Waiting' = 1..Len(queue) + Len(order)
    BY <2>4 DEF Waiting
  <2>6. /\ Waiting \o ids \in Seq(Delivery)
        /\ DOMAIN (Waiting \o ids) = 1..Len(queue) + Len(order)
        /\ \A i \in 1..Len(queue) : (Waiting \o ids)[i] = queue[i].id
        /\ \A i \in 1..Len(order) : (Waiting \o ids)[Len(queue) + i] = <<t, order[i]>>
    <3>1. /\ \A i \in 1..Len(queue) : Waiting[i] = queue[i].id
          /\ \A i \in 1..Len(order) : ids[i] = <<t, order[i]>>
      BY <2>2, <2>3 DEF Waiting
    <3>. HIDE DEF ids
    <3>2. Waiting \o ids \in Seq(Delivery)
      BY <2>1, <2>3
    <3>3. /\ DOMAIN (Waiting \o ids) = 1..Len(Waiting) + Len(ids)
          /\ \A i \in 1..Len(Waiting) : (Waiting \o ids)[i] = Waiting[i]
          /\ \A i \in 1..Len(ids) : (Waiting \o ids)[Len(Waiting) + i] = ids[i]
      BY <2>1, <2>3
    <3>. QED BY <2>2, <2>3, <3>1, <3>2, <3>3
  <2>7. ASSUME NEW i \in 1..Len(queue) + Len(order)
        PROVE  Waiting'[i] = (Waiting \o ids)[i]
    <3>0. Waiting'[i] = queue'[i].id
      BY <2>4 DEF Waiting
    <3>1. CASE i \in 1..Len(queue)
      BY <2>4, <2>6, <3>0, <3>1
    <3>2. CASE i \notin 1..Len(queue)
      <4>1. i - Len(queue) \in 1..Len(order) /\ i = Len(queue) + (i - Len(queue))
        BY <2>2, <2>3, <3>2
      <4>. QED BY <2>4, <2>6, <3>0, <4>1
    <3>. QED BY <3>1, <3>2
  <2>8. Waiting' \in Seq(Delivery)
    <3>. HIDE DEF ids
    <3>1. \A i \in 1..Len(queue) + Len(order) : Waiting'[i] \in Delivery
      <4>1. ASSUME NEW i \in DOMAIN (Waiting \o ids)
            PROVE  (Waiting \o ids)[i] \in Delivery
        BY <2>6, <4>1, SequenceFacts
      <4>. QED BY <2>6, <2>7, <4>1
    <3>2. Waiting' \in [1..Len(queue) + Len(order) -> Delivery]
      BY <2>5, <3>1 DEF Waiting
    <3>3. Len(queue) + Len(order) \in Nat
      BY <2>2, <2>3
    <3>. QED BY ONLY <3>2, <3>3
  <2>. HIDE DEF ids
  <2>. QED BY <2>5, <2>6, <2>7, <2>8, SequencesEqual
<1>8. outcome' = [d \in Delivery |-> IF d \in new THEN "waiting" ELSE outcome[d]] /\ UNCHANGED posts
  BY DEF TriggerWebhook, others
<1>. QED BY <1>4, <1>5, <1>6, <1>7, <1>8 DEF D!Accept

LEMMA InitRefines == Init => D!DInit
<1>. SUFFICES ASSUME Init PROVE D!DInit
  OBVIOUS
<1>1. Waiting = <<>>
  BY DEF Init, Waiting
<1>. QED BY <1>1 DEF Init, D!DInit

LEMMA FailRefines ==
  ASSUME Inv, queue # <<>>, FailAttempt, (UNCHANGED posts) \/ (turn.pc = "post" /\ Reach)
  PROVE  [D!DNext]_(D!dvars)
<1>1. CASE turn.failed < Retries
  <2>1. UNCHANGED <<queue, outcome>>
    BY <1>1 DEF FailAttempt
  <2>2. Waiting' = Waiting
    BY <2>1, SameWaiting
  <2>3. CASE UNCHANGED posts
    BY <2>1, <2>2, <2>3 DEF D!dvars
  <2>4. CASE turn.pc = "post" /\ Reach
    <3>1. Waiting # <<>> /\ Head(Waiting) = First.id
      BY WaitingFacts
    <3>2. posts[First.id] < Retries + 1
      BY <2>4, FirstFacts, WebhooksAssumption DEF Inv, WebhooksInv, TypeOK, Turn, InOrder
    <3>3. D!Receive
      BY <2>1, <2>2, <2>4, <3>1, <3>2 DEF D!Receive, D!Received, Reach
    <3>. QED BY <3>3 DEF D!DNext
  <2>. QED BY <2>3, <2>4
<1>2. CASE ~(turn.failed < Retries)
  BY <1>2, LeaveRefines DEF FailAttempt, D!DNext, D!Settle
<1>. QED BY <1>1, <1>2

LEMMA WorkRefines ==
  ASSUME Inv, Work
  PROVE  [D!DNext]_(D!dvars)
<1>1. CASE PostWebhook
  <2>1. queue # <<>> /\ turn.pc = "post" /\ Reach /\ UNCHANGED <<queue, outcome>>
    BY <1>1 DEF PostWebhook, Posting
  <2>2. Waiting' = Waiting
    BY <2>1, SameWaiting
  <2>3. Waiting # <<>> /\ Head(Waiting) = First.id
    BY <2>1, WaitingFacts
  <2>4. posts[First.id] < Retries + 1
    BY <2>1, FirstFacts, WebhooksAssumption DEF Inv, WebhooksInv, TypeOK, Turn, InOrder
  <2>5. D!Receive
    BY <2>1, <2>2, <2>3, <2>4 DEF D!Receive, D!Received, Reach
  <2>. QED BY <2>5 DEF D!DNext
<1>2. CASE FailToPost
  BY <1>2, FailRefines DEF FailToPost, Posting
<1>3. CASE RefuseUrl
  BY <1>3, LeaveRefines DEF RefuseUrl, D!DNext, D!Settle
<1>4. CASE SaveLastFired
  <2>1. queue # <<>> /\ turn.pc = "save" /\ Leave("delivered") /\ UNCHANGED posts
    BY <1>4 DEF SaveLastFired, Saving
  <2>2. Waiting # <<>> /\ Head(Waiting) = First.id /\ Waiting' = Tail(Waiting)
    BY <2>1, WaitingFacts, TailOfWaiting DEF Leave
  <2>3. posts[First.id] > 0
    BY <2>1, FirstFacts, WebhooksAssumption DEF Inv, WebhooksInv, TypeOK, Turn, InOrder
  <2>4. D!Done
    BY <2>1, <2>2, <2>3 DEF D!Done, D!Leave, Leave
  <2>. QED BY <2>4 DEF D!DNext, D!Settle
<1>5. CASE FailToSave
  BY <1>5, FailRefines DEF FailToSave, Saving
<1>6. CASE Hang
  <2>1. /\ queue # <<>> /\ turn.pc = "post" /\ UNCHANGED <<queue, outcome>>
        /\ (UNCHANGED posts) \/ Reach
    BY <1>6 DEF Hang, Posting
  <2>2. Waiting' = Waiting
    BY <2>1, SameWaiting
  <2>3. Waiting # <<>> /\ Head(Waiting) = First.id
    BY <2>1, WaitingFacts
  <2>4. posts[First.id] < Retries + 1
    BY <2>1, FirstFacts, WebhooksAssumption DEF Inv, WebhooksInv, TypeOK, Turn, InOrder
  <2>5. Reach => D!Receive
    BY <2>1, <2>2, <2>3, <2>4 DEF D!Receive, D!Received, Reach
  <2>. QED BY <2>1, <2>2, <2>5 DEF D!DNext, D!dvars
<1>. QED BY <1>1, <1>2, <1>3, <1>4, <1>5, <1>6 DEF Work

LEMMA HandleRefines ==
  ASSUME Inv, Handle
  PROVE  UNCHANGED D!dvars
<1>. queue \in Seq(Job)
  BY DEF Inv, WebhooksInv, TypeOK
<1>1. ASSUME NEW h \in Hooks, NEW row, WriteByRequest(h, row)
      PROVE  UNCHANGED D!dvars
  <2>1. DOMAIN queue' = DOMAIN queue
    BY <1>1 DEF WriteByRequest
  <2>2. \A i \in DOMAIN queue : queue'[i].id = queue[i].id
    <3>1. \A job \in Job : MarkEdited(job, h).id = job.id
      BY DEF MarkEdited, Job
    <3>2. \A i \in DOMAIN queue : queue[i] \in Job /\ queue'[i] = MarkEdited(queue[i], h)
      BY <1>1, SequenceFacts DEF WriteByRequest
    <3>. QED BY <3>1, <3>2
  <2>3. UNCHANGED <<posts, outcome>>
    BY <1>1 DEF WriteByRequest, received
  <2>. QED BY <2>1, <2>2, <2>3, SameWaiting DEF D!dvars
<1>2. \A r \in Requests : req[r].pc \in {"update", "delete"} => req[r].hook \in Hooks
  BY DEF Inv, WebhooksInv, TypeOK, Request, Idle
<1>3. ASSUME NEW r \in Requests,
             \/ Abort(r)
             \/ \E g \in Groups, w \in Hooks, pc \in {"update", "delete"} : FindWebhook(r, g, w, pc)
      PROVE  UNCHANGED D!dvars
  <2>1. UNCHANGED <<queue, posts, outcome>>
    BY <1>3 DEF Abort, FindWebhook, received
  <2>. QED BY <2>1, SameWaiting DEF D!dvars
<1>. QED BY <1>1, <1>2, <1>3 DEF Handle, CreateWebhook, UpdateWebhook, DeleteWebhook

LEMMA NextRefines ==
  ASSUME Inv, [Next]_vars
  PROVE  [D!DNext]_(D!dvars)
<1>1. ASSUME UNCHANGED <<queue, posts, outcome>>
      PROVE  UNCHANGED D!dvars
  BY <1>1, SameWaiting DEF D!dvars
<1>2. CASE Intercept
  <2>1. ASSUME NEW t \in Happenings, TriggerWebhook(t)
        PROVE  D!DNext
    BY <2>1, TriggerRefines DEF D!DNext
  <2>2. ASSUME NEW t \in Happenings,
               \/ SaveAuditLog(t) \/ FailAuditLog(t)
               \/ \E g \in Groups, e \in Events : Succeed(t, g, e)
        PROVE  UNCHANGED <<queue, posts, outcome>>
    BY <2>2 DEF SaveAuditLog, FailAuditLog, Succeed, others
  <2>. QED BY <1>1, <1>2, <2>1, <2>2 DEF Intercept
<1>3. CASE Restart
  <2>1. Waiting' = <<>>
    BY <1>3 DEF Restart, Waiting
  <2>2. D!Lose
    BY <1>3, <2>1 DEF Restart, D!Lose
  <2>. QED BY <2>2 DEF D!DNext
<1>4. CASE UNCHANGED vars \/ \E job \in offs : SwitchOff(job)
  BY <1>1, <1>4 DEF vars, SwitchOff, received
<1>. QED BY <1>2, <1>3, <1>4, HandleRefines, WorkRefines DEF Next

\* Every step of the queue is a step of Deliveries or leaves it as it is
\* (triggerWebhook, callWebhook and p-retry's limit).
THEOREM QueueImplementsDeliveries == Spec => D!DSpec
  BY InitRefines, NextRefines, AlwaysInv, PTL DEF Spec, D!DSpec
=============================================================================
