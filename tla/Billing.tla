------------------------------- MODULE Billing -------------------------------
(***************************************************************************)
(* The Stripe customer of a group (stripe.service.ts): Stripe keeps it,    *)
(* and the attributes of the group name it.  Every operation reads the     *)
(* attributes, then calls Stripe, then, when it creates or deletes the     *)
(* customer, writes the attributes.  What else these hold, which the write *)
(* throws away, is not modelled.                                           *)
(***************************************************************************)
EXTENDS Naturals

CONSTANTS
  BillingGroups, \* groups there are at first
  Customers,     \* ids that Stripe hands out, each once
  Calls,         \* slots for requests in flight
  Nil            \* no value

ASSUME BillingAssumption == Nil \notin BillingGroups \cup Customers

VARIABLES
  groups,    \* table Group
  id,        \* stripeCustomerId in the attributes of each group
  customer,  \* what Stripe says of each customer
  paying,    \* customers with a subscription that is not cancelled
  calls      \* requests in flight

billingVars == <<groups, id, customer, paying, calls>>
stripe == <<customer, paying>>
database == <<groups, id>>

NoCall == [pc |-> "idle", group |-> Nil, customer |-> Nil, stale |-> FALSE]

PCs == {"idle", "cre_stripe", "cre_save", "del_stripe", "del_save", "use"}

Call == [pc : PCs, group : BillingGroups \cup {Nil}, customer : Customers \cup {Nil},
         stale : BOOLEAN]

BillingTypeOK ==
  /\ groups \subseteq BillingGroups
  /\ id \in [BillingGroups -> Customers \cup {Nil}]
  /\ customer \in [Customers -> {"unused", "live", "deleted"}]
  /\ paying \subseteq Customers
  /\ calls \in [Calls -> Call]

BillingInit ==
  /\ groups = BillingGroups
  /\ id = [g \in BillingGroups |-> Nil]
  /\ customer = [c \in Customers |-> "unused"]
  /\ paying = {}
  /\ calls = [r \in Calls |-> NoCall]

----------------------------------------------------------------------------
(* How a step of request r ends.  The history field stale of the others    *)
(* records that the attributes, the group or the customer they have read   *)
(* of are no more what they were.                                          *)

Proceed(r, next) == calls' = [calls EXCEPT ![r] = next]

Overtaken(q) ==
  \/ \E g \in BillingGroups : g = q.group /\ (id'[g] # id[g] \/ (g \in groups) # (g \in groups'))
  \/ \E c \in Customers : c = q.customer /\ customer'[c] # customer[c]

Commit(r, next) ==
  calls' = [p \in Calls |->
              IF p = r THEN next
              ELSE [calls[p] EXCEPT !.stale = @ \/ Overtaken(calls[p])]]

\* The read that every operation starts with: stripeId, or its like in createCustomer.
Begin(r, g, pc) ==
  /\ calls[r] = NoCall
  /\ g \in groups
  /\ Proceed(r, [NoCall EXCEPT !.pc = pc, !.group = g, !.customer = id[g]])
  /\ UNCHANGED <<database, stripe>>

\* "Group not found".
NotFound(r, g) ==
  /\ calls[r] = NoCall
  /\ g \notin groups
  /\ UNCHANGED billingVars

Write(r, c) ==
  /\ calls[r].group \in groups
  /\ id' = [id EXCEPT ![calls[r].group] = c]
  /\ UNCHANGED <<groups, stripe>>
  /\ Commit(r, NoCall)

----------------------------------------------------------------------------
(* createCustomer                                                          *)

\* Mutant: a second customer is made for a group that has one.
CreateAnotherCustomer(r, g) == Begin(r, g, "cre_stripe")

CreateCustomer(r, g) ==
  /\ id[g] = Nil       \* else "Billing account already exists"
  /\ Begin(r, g, "cre_stripe")

StripeCreates(r, c) ==
  /\ calls[r].pc = "cre_stripe"
  /\ customer[c] = "unused"
  /\ customer' = [customer EXCEPT ![c] = "live"]
  /\ UNCHANGED <<database, paying>>
  /\ Commit(r, [calls[r] EXCEPT !.pc = "cre_save", !.customer = c])

SaveId(r) ==
  /\ calls[r].pc = "cre_save"
  /\ Write(r, calls[r].customer)

----------------------------------------------------------------------------
(* deleteCustomer                                                          *)

DeleteCustomer(r, g) ==
  /\ id[g] # Nil       \* else "Billing not found"
  /\ Begin(r, g, "del_stripe")

\* Mutant: Stripe is not told to delete it.
StripeKeeps(r) ==
  /\ calls[r].pc = "del_stripe"
  /\ UNCHANGED <<database, stripe>>
  /\ Commit(r, [calls[r] EXCEPT !.pc = "del_save"])

\* Stripe deletes a customer once, and its subscriptions with it.
StripeDeletes(r) ==
  LET c == calls[r].customer IN
  /\ calls[r].pc = "del_stripe"
  /\ customer[c] = "live"
  /\ customer' = [customer EXCEPT ![c] = "deleted"]
  /\ paying' = paying \ {c}
  /\ UNCHANGED database
  /\ Commit(r, [calls[r] EXCEPT !.pc = "del_save"])

ClearId(r) ==
  /\ calls[r].pc = "del_save"
  /\ Write(r, Nil)

----------------------------------------------------------------------------
(* The other operations make their calls for the customer they read of.    *)

UseCustomer(r, g) ==
  /\ id[g] # Nil
  /\ Begin(r, g, "use")

\* createSession, when the page it opens is completed at Stripe.
StripeSubscribes(r) ==
  LET c == calls[r].customer IN
  /\ calls[r].pc = "use"
  /\ customer[c] = "live"
  /\ paying' = paying \cup {c}
  /\ UNCHANGED <<database, customer>>
  /\ Commit(r, NoCall)

\* cancelSubscription, to the end of the period.
StripeCancels(r) ==
  LET c == calls[r].customer IN
  /\ calls[r].pc = "use"
  /\ c \in paying
  /\ paying' = paying \ {c}
  /\ UNCHANGED <<database, customer>>
  /\ Commit(r, NoCall)

\* Calls that leave what is modelled of the customer: getCustomer,
\* updateCustomer, getBillingPortalLink, invoices, sources, subscriptions.
StripeAnswers(r) ==
  /\ calls[r].pc = "use"
  /\ Proceed(r, NoCall)
  /\ UNCHANGED <<database, stripe>>

----------------------------------------------------------------------------
(* Elsewhere: PUT or PATCH of a group with attributes of the client's      *)
(* choice (groups.service.ts; nothing takes fields off a body), and its    *)
(* deletion, which Stripe is not told of.                                  *)

ReplaceGroup(r, g, c) ==
  /\ calls[r] = NoCall
  /\ g \in groups
  /\ id' = [id EXCEPT ![g] = c]
  /\ UNCHANGED <<groups, stripe>>
  /\ Commit(r, NoCall)

DeleteGroup(r, g) ==
  /\ calls[r] = NoCall
  /\ g \in groups
  /\ groups' = groups \ {g}
  /\ id' = [id EXCEPT ![g] = Nil]
  /\ UNCHANGED stripe
  /\ Commit(r, NoCall)

\* A call fails, or the process stops.
Abort(r) ==
  /\ calls[r] # NoCall
  /\ Proceed(r, NoCall)
  /\ UNCHANGED <<database, stripe>>

----------------------------------------------------------------------------
Ask(r) ==
  \E g \in BillingGroups :
    \/ CreateCustomer(r, g) \/ DeleteCustomer(r, g) \/ UseCustomer(r, g)
    \/ DeleteGroup(r, g)
    \/ NotFound(r, g)
    \/ \E c \in {b \in Customers : customer[b] # "unused"} \cup {Nil} : ReplaceGroup(r, g, c)

Resume(r) ==
  \/ \E c \in Customers : StripeCreates(r, c)
  \/ SaveId(r) \/ StripeDeletes(r) \/ ClearId(r)
  \/ StripeSubscribes(r) \/ StripeCancels(r) \/ StripeAnswers(r)

BillingNext == \E r \in Calls : Ask(r) \/ Resume(r) \/ Abort(r)

BillingSpec == BillingInit /\ [][BillingNext]_billingVars

----------------------------------------------------------------------------
(* Properties                                                              *)

ParametersFit(q) ==
  /\ q.pc # "idle" => q.group \in BillingGroups
  /\ q.pc \in {"cre_save", "del_stripe", "del_save", "use"} =>
       q.customer \in Customers /\ customer[q.customer] # "unused"

\* What the attributes and Stripe said of it.
ReadsHold(q) ==
  /\ q.pc # "idle" => q.group \in groups
  /\ q.pc \in {"cre_stripe", "cre_save"} => id[q.group] = Nil
  /\ q.pc \in {"del_stripe", "del_save", "use"} => id[q.group] = q.customer
  /\ q.pc = "cre_save" => customer[q.customer] = "live"
  /\ q.pc = "del_save" => customer[q.customer] = "deleted"

\* Only live customers pay, and attributes name only customers that there
\* were; a request that nobody overtook saves the id of a live customer where
\* there is none, and clears the id of one that is deleted.
BillingInv ==
  /\ BillingTypeOK
  /\ \A r \in Calls : ParametersFit(calls[r]) /\ (calls[r].stale \/ ReadsHold(calls[r]))
  /\ \A c \in paying : customer[c] = "live"
  /\ \A g \in BillingGroups : id[g] # Nil => g \in groups /\ customer[id[g]] # "unused"

\* Some group names the customer, or a request is about to make one do so.
Tracked(c) ==
  \/ \E g \in BillingGroups : id[g] = c
  \/ \E r \in Calls : calls[r].pc = "cre_save" /\ calls[r].customer = c

\* stripe.service.ts never loses a customer that lives, and may pay, at Stripe:
\* every live customer is tracked, until a PUT or PATCH of the group changes the
\* id, the group is deleted, a creation fails between Stripe and the database, or
\* of two operations at once one writes over what the other wrote.
CustomersAreTracked ==
  [][\A c \in Customers :
       customer'[c] = "live" /\ ~Tracked(c)' =>
         \/ customer[c] = "live" /\ ~Tracked(c)
         \/ groups' # groups
         \/ \E r \in Calls, g \in BillingGroups, d \in Customers \cup {Nil} : ReplaceGroup(r, g, d)
         \/ \E r \in Calls :
              \/ calls[r].pc = "cre_save" /\ Abort(r)
              \/ calls[r].stale /\ (SaveId(r) \/ ClearId(r))]_billingVars
=============================================================================
