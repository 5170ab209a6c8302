----------------------- MODULE SubscriptionLifecycle ------------------------
(***************************************************************************)
(* The Stripe subscription of one account: Checkout, cancellation, the     *)
(* webhooks, the two ways of deleting the account, and the manual review   *)
(* (stripeSubscriptionLifecycle.service.js, subscription.controller.js,    *)
(* accountDeletion.service.js, stripeSubscriptionRecovery.service.js).     *)
(* Everything of an account runs behind its fence, a document with a phase *)
(* and an owner; each request draws a new owner token.  A token whose      *)
(* request is over is `Gone': nobody who runs carries it any more.         *)
(*                                                                         *)
(* Stripe is external.  A call sent to it is carried out or lost later,    *)
(* whether or not its sender still waits; it delivers its events at least  *)
(* once and in any order.  Accounts share nothing, so one is modelled; its *)
(* customers name it in their metadata, and each id has the form it should. *)
(***************************************************************************)
EXTENDS Integers, FiniteSets

CONSTANTS
  Workers,       \* requests that may run at the same time
  MaxCustomers,  \* bound on the customers created at Stripe
  MaxCheckouts,  \* bound on the Checkout sessions created at Stripe
  MaxFaults      \* bound on crashes, timeouts and failed writes

ASSUME WorkerAssumption == Workers # {} /\ Workers \cap {"nobody", "gone"} = {}
ASSUME BoundAssumption ==
  MaxCustomers \in Nat \ {0} /\ MaxCheckouts \in Nat \ {0} /\ MaxFaults \in Nat

VARIABLES
  user,       \* the User: whether it exists, and isVIP/isPremium
  local,      \* its Subscription document
  fence,      \* its StripeSubscriptionLifecycle document
  customers,  \* the account's customers at Stripe
  checkout,   \* its Checkout sessions there, with the subscription each began
  flight,     \* calls sent to Stripe, neither carried out nor lost
  pending,    \* events that Stripe still delivers
  at,         \* what each worker does next
  job,        \* and its request, with the variables of its handler
  faults

vars == <<user, local, fence, customers, checkout, flight, pending, at, job, faults>>
stripe == <<customers, checkout, flight, pending>>

Customers == 1..MaxCustomers
Checkouts == 1..MaxCheckouts
Nobody == "nobody"
Gone == "gone"

Calls ==
  [kind : {"customer.create"}, target : Customers, customer : {0}]
    \cup [kind : {"checkout.create", "subscription.cancel"}, target : Checkouts, customer : Customers]
NoCall == [kind |-> "none", target |-> 0, customer |-> 0]
NoMutation == [status |-> "none", call |-> NoCall]
Events == [type : {"paid", "failed", "deleted"}, sub : Checkouts]
NoEvent == [type |-> "none", sub |-> 0]

Fences ==
  {f \in [phase : {"idle", "working", "deleted"}, owner : Workers \cup {Nobody, Gone},
          request : {"none", "pending", "completed"}, review : BOOLEAN, customers : SUBSET Customers,
          mutation : [status : {"none", "pending", "confirmed", "unknown", "no_effect"},
                      call : Calls \cup {NoCall}]] :
     f.phase = "working" <=> f.owner # Nobody}
Locals == [kept : BOOLEAN, customer : {0} \cup Customers, sub : {0} \cup Checkouts,
           status : {"inactive", "active", "past_due", "canceled"}]
NoLocal == [kept |-> FALSE, customer |-> 0, sub |-> 0, status |-> "inactive"]
Pages == [page : {"none", "open", "complete", "expired"}, customer : {0} \cup Customers,
          plan : {"none", "active", "past_due", "canceled"}]
NoPage == [page |-> "none", customer |-> 0, plan |-> "none"]

Operations == {"checkout", "cancel", "delete", "purge", "webhook"}
Deletions == {"delete", "purge"}
Labels == {"idle", "waiting", "customer", "link", "settle", "plans", "pages", "open", "cancel", "await",
           "confirm", "unsure", "readback", "revoke", "erase", "purge", "bury", "track", "fetch",
           "upsert", "grant", "release"}
\* `opened' is bookkeeping of DeletionVerified: the handler does not keep it.
Jobs == [op : Operations \cup {"none"}, event : Events \cup {NoEvent}, known : SUBSET Customers,
         review : BOOLEAN, unsettled : BOOLEAN, customer : {0} \cup Customers,
         call : Calls \cup {NoCall}, ok : BOOLEAN, opened : SUBSET Checkouts]
NoJob == [op |-> "none", event |-> NoEvent, known |-> {}, review |-> FALSE, unsettled |-> FALSE,
          customer |-> 0, call |-> NoCall, ok |-> FALSE, opened |-> {}]

Live(s) == checkout[s].plan \in {"active", "past_due"}
Open(s) == checkout[s].page = "open"
Unsettled(f) == f.mutation.status \in {"pending", "unknown"}
Used == {c.target : c \in {m \in flight : m.kind = "checkout.create"}}
          \cup {s \in Checkouts : checkout[s].page # "none"}
Taken == {c.target : c \in {m \in flight : m.kind = "customer.create"}} \cup customers
Unused(used, all) == {n \in all \ used : \A m \in all \ used : n <= m}

Put(f, k, v) == [f EXCEPT ![k] = v]
Go(w, label, j) == at' = Put(at, w, label) /\ job' = Put(job, w, j)
Quit(w) == Go(w, "idle", NoJob)
\* The callback is over; of its variables the answer alone still matters.
Finish(w, ok) ==
  Go(w, "release", [NoJob EXCEPT !.event = IF ok THEN job[w].event ELSE NoEvent, !.ok = ok])
Orphan(f, w) == IF f.owner = w THEN [f EXCEPT !.owner = Gone] ELSE f
\* The answer 200 to a webhook may get lost: Stripe delivers again.
Ack(w) == pending' \in {pending, pending \ {job[w].event}}
Holds(w) == fence.phase = "working" /\ fence.owner = w
Fault == faults < MaxFaults /\ faults' = faults + 1
-----------------------------------------------------------------------------
(***************************************************************************)
(* initializeState has run.  The account is a new one, which the lifecycle *)
(* tracks from its start, or an older one, whose history is not known: it  *)
(* may have a subscription that the local document names, or lost.         *)
(***************************************************************************)
History(subscribed, linked) ==
  LET paid == [page |-> "complete", customer |-> 1, plan |-> "active"]
  IN /\ user = [exists |-> TRUE, vip |-> subscribed]
     /\ customers = IF subscribed THEN {1} ELSE {}
     /\ checkout = [s \in Checkouts |-> IF subscribed /\ s = 1 THEN paid ELSE NoPage]
     /\ local = IF linked THEN [kept |-> TRUE, customer |-> 1, sub |-> 1, status |-> "active"] ELSE NoLocal

Init ==
  /\ \E review, subscribed, linked \in BOOLEAN :
       /\ linked => subscribed
       /\ subscribed => review
       /\ fence = [phase |-> "idle", owner |-> Nobody, request |-> "none", review |-> review,
                   customers |-> IF linked THEN {1} ELSE {}, mutation |-> NoMutation]
       /\ History(subscribed, linked)
  /\ flight = {} /\ pending = {}
  /\ at = [w \in Workers |-> "idle"]
  /\ job = [w \in Workers |-> NoJob]
  /\ faults = 0
-----------------------------------------------------------------------------
(***************************************************************************)
(* runLifecycle up to the callback.  A deletion leaves its receipt first.  *)
(* The wait for the fence is not timed: a waiting request may give up      *)
(* whenever the fence is not idle, or go on waiting.                       *)
(***************************************************************************)
Arrive(w) ==
  /\ at[w] = "idle" /\ user.exists
  /\ Go(w, "waiting", NoJob)
  /\ \/ UNCHANGED fence
     \/ fence' = [fence EXCEPT !.request = IF @ = "none" THEN "pending" ELSE @]
  /\ UNCHANGED <<user, local, stripe, faults>>

First == [checkout |-> "customer", cancel |-> "cancel", delete |-> "settle", purge |-> "settle",
          webhook |-> "track"]

\* (Mutant: a fence left shut is taken over, as if a timeout had freed it.)
AcquireStale(w, op, e) ==
  /\ at[w] = "waiting" /\ fence.phase # "deleted" /\ fence.owner \in {Nobody, Gone}
  /\ op \in Deletions => fence.request # "none"
  /\ fence' = [fence EXCEPT !.phase = "working", !.owner = w]
  /\ Go(w, First[op], [NoJob EXCEPT !.op = op, !.event = e, !.known = fence.customers,
                                    !.review = fence.review, !.unsettled = Unsettled(fence)])
  /\ UNCHANGED <<user, local, stripe, faults>>

\* (Mutant: the user is not read again behind the fence.)
AcquireUnchecked(w, op, e) ==
  /\ at[w] = "waiting" /\ fence.phase = "idle"
  /\ op \in Deletions => fence.request # "none"
  /\ fence' = [fence EXCEPT !.phase = "working", !.owner = w]
  /\ Go(w, First[op], [NoJob EXCEPT !.op = op, !.event = e, !.known = fence.customers,
                                    !.review = fence.review, !.unsettled = Unsettled(fence)])
  /\ UNCHANGED <<user, local, stripe, faults>>

Acquire(w, op, e) ==
  /\ at[w] = "waiting" /\ fence.phase = "idle"
  /\ op \in Deletions => fence.request # "none"
  /\ fence' = [fence EXCEPT !.phase = "working", !.owner = w]
  /\ LET context == [NoJob EXCEPT !.op = op, !.event = e, !.known = fence.customers,
                                  !.review = fence.review, !.unsettled = Unsettled(fence)]
     IN IF user.exists THEN Go(w, First[op], context)
        ELSE Go(w, "release", [NoJob EXCEPT !.event = e, !.ok = op \notin {"checkout", "cancel"}])
  /\ UNCHANGED <<user, local, stripe, faults>>

Begin(w) == \E op \in Operations \ {"webhook"} : Acquire(w, op, NoEvent)
Deliver(w, e) == Acquire(w, "webhook", e)

GiveUp(w) ==
  /\ at[w] = "waiting" /\ fence.phase # "idle"
  /\ Quit(w)
  /\ UNCHANGED <<user, local, fence, stripe, faults>>

\* There is no such user any more: the webhook is done.
DeliverLate(e) ==
  /\ ~user.exists
  /\ pending' = pending \ {e}
  /\ UNCHANGED <<user, local, fence, customers, checkout, flight, at, job, faults>>

\* (Mutant: the fence is opened and the owner's token left in it.)
ReleaseKeepingOwner(w) ==
  /\ at[w] = "release" /\ Holds(w)
  /\ fence' = [fence EXCEPT !.phase = "idle"]
  /\ IF job[w].ok THEN Ack(w) ELSE UNCHANGED pending
  /\ Quit(w)
  /\ UNCHANGED <<user, local, customers, checkout, flight, faults>>

\* The finally of runLifecycle, when no outcome is uncertain.
Release(w) ==
  /\ at[w] = "release" /\ Holds(w)
  /\ fence' = [fence EXCEPT !.phase = "idle", !.owner = Nobody]
  /\ IF job[w].ok THEN Ack(w) ELSE UNCHANGED pending
  /\ Quit(w)
  /\ UNCHANGED <<user, local, customers, checkout, flight, faults>>

\* requireReview, and the error that follows it.
AskReview(w) ==
  /\ Holds(w)
  /\ fence' = [fence EXCEPT !.review = TRUE]
  /\ Finish(w, FALSE)
  /\ UNCHANGED <<user, local, stripe, faults>>

Refuse(w) == Finish(w, FALSE) /\ UNCHANGED <<user, local, fence, stripe, faults>>
Pass(w, label, j) == Go(w, label, j) /\ UNCHANGED <<user, local, fence, stripe, faults>>

(***************************************************************************)
(* mutate: the call is recorded as pending, then sent; from then on the    *)
(* outcome is uncertain until it is recorded as confirmed.                 *)
(***************************************************************************)
Mutate(w, call) ==
  /\ Holds(w)
  /\ fence' = [fence EXCEPT !.mutation = [status |-> "pending", call |-> call]]
  /\ \/ /\ flight' = flight \cup {call}
        /\ Go(w, "await", [job[w] EXCEPT !.call = call])
        /\ UNCHANGED faults
     \/ \* the record is saved, but the save fails all the same: nothing is sent
        /\ Fault
        /\ Finish(w, FALSE)
        /\ UNCHANGED flight
  /\ UNCHANGED <<user, local, customers, checkout, pending>>

\* (Mutant: a new customer is not added to those that the lifecycle knows.)
ConfirmForgetting(w) ==
  /\ at[w] = "confirm" /\ Holds(w)
  /\ LET j == [job[w] EXCEPT !.known = @ \cup {job[w].call.target}, !.customer = job[w].call.target,
                             !.call = NoCall]
     IN /\ fence' = [fence EXCEPT !.mutation.status = "confirmed"]
        /\ CASE job[w].call.kind = "customer.create" -> Go(w, "link", j)
             [] job[w].call.kind = "checkout.create" -> Finish(w, TRUE)
             [] OTHER -> Go(w, "readback", [job[w] EXCEPT !.call = NoCall])
  /\ UNCHANGED <<user, local, stripe, faults>>

Confirm(w) ==
  /\ at[w] = "confirm" /\ Holds(w)
  /\ LET call == job[w].call
         new == IF call.kind = "customer.create" THEN {call.target} ELSE {}
         j == [job[w] EXCEPT !.known = @ \cup new, !.call = NoCall]
     IN /\ fence' = [fence EXCEPT !.mutation.status = "confirmed", !.customers = @ \cup new]
        /\ CASE call.kind = "customer.create" -> Go(w, "link", [j EXCEPT !.customer = call.target])
             [] call.kind = "checkout.create" -> Finish(w, TRUE)
             [] OTHER -> Go(w, "readback", j)
  /\ UNCHANGED <<user, local, stripe, faults>>

\* (Mutant: after a lost answer the fence is opened again.)
DistrustOpening(w) ==
  /\ at[w] = "unsure" /\ Holds(w)
  /\ fence' = [fence EXCEPT !.phase = "idle", !.owner = Nobody, !.mutation.status = "unknown", !.review = TRUE]
  /\ Quit(w)
  /\ UNCHANGED <<user, local, stripe, faults>>

\* The catch of runLifecycle: the fence stays shut, its owner's request ends.
Distrust(w) ==
  /\ at[w] = "unsure" /\ Holds(w)
  /\ fence' = [fence EXCEPT !.owner = Gone, !.mutation.status = "unknown", !.review = TRUE]
  /\ Quit(w)
  /\ UNCHANGED <<user, local, stripe, faults>>
-----------------------------------------------------------------------------
\* (Mutant: only the local document is asked for the customer.)
ChooseLocalCustomer(w) ==
  /\ at[w] = "customer"
  /\ LET c == local.customer
     IN IF job[w].review THEN Refuse(w)
        ELSE IF c = 0
        THEN \E n \in Unused(Taken, Customers) :
               Mutate(w, [kind |-> "customer.create", target |-> n, customer |-> 0])
        ELSE IF c \in job[w].known THEN Pass(w, "link", [job[w] EXCEPT !.customer = c])
        ELSE AskReview(w)

\* getCheckoutCustomer
ChooseCustomer(w) ==
  /\ at[w] = "customer"
  /\ LET candidates == IF local.customer # 0 THEN {local.customer} ELSE job[w].known
     IN IF job[w].review THEN Refuse(w)
        ELSE \/ \E c \in candidates :
                  IF c \in job[w].known THEN Pass(w, "link", [job[w] EXCEPT !.customer = c]) ELSE AskReview(w)
             \/ /\ candidates = {}
                /\ \E c \in Unused(Taken, Customers) :
                     Mutate(w, [kind |-> "customer.create", target |-> c, customer |-> 0])

LinkCustomer(w) ==
  /\ at[w] = "link"
  /\ local' = [local EXCEPT !.kept = TRUE, !.customer = job[w].customer]
  /\ Go(w, "settle", job[w])
  /\ UNCHANGED <<user, fence, stripe, faults>>

(***************************************************************************)
(* assertDeletionSafe, which also guards a new Checkout: what the lifecycle *)
(* knows, then the subscriptions of the known customers, then their open   *)
(* Checkout sessions, asked of Stripe one after the other.                 *)
(***************************************************************************)
SettleHistory(w) ==
  /\ at[w] = "settle"
  /\ IF job[w].review \/ job[w].unsettled THEN Refuse(w)
     ELSE IF \/ local.customer # 0 /\ local.customer \notin job[w].known
             \/ local.kept /\ local.customer = 0 /\ (local.sub # 0 \/ local.status # "inactive")
     THEN AskReview(w)
     ELSE Pass(w, "plans", job[w])

\* (Mutant: a subscription that is past due counts as ended.)
ListActivePlans(w) ==
  /\ at[w] = "plans"
  /\ IF \E s \in Checkouts : checkout[s].plan = "active" /\ checkout[s].customer \in job[w].known THEN Refuse(w)
     ELSE Pass(w, "pages", [job[w] EXCEPT !.opened = {s \in Checkouts : Open(s)}])

ListPlans(w) ==
  /\ at[w] = "plans"
  /\ IF \E s \in Checkouts : Live(s) /\ checkout[s].customer \in job[w].known THEN Refuse(w)
     ELSE Pass(w, "pages", [job[w] EXCEPT !.opened = {s \in Checkouts : Open(s)}])

\* (Mutant: open Checkout sessions do not block.)
ListPagesLeniently(w) ==
  /\ at[w] = "pages"
  /\ Pass(w, CASE job[w].op = "checkout" -> "open"
               [] job[w].op = "delete" -> "erase"
               [] OTHER -> "purge", job[w])

ListPages(w) ==
  /\ at[w] = "pages"
  /\ IF \E s \in Checkouts : Open(s) /\ checkout[s].customer \in job[w].known THEN Refuse(w)
     ELSE Pass(w, CASE job[w].op = "checkout" -> "open"
                    [] job[w].op = "delete" -> "erase"
                    [] OTHER -> "purge", job[w])

OpenCheckout(w) ==
  /\ at[w] = "open"
  /\ \E s \in Unused(Used, Checkouts) :
       Mutate(w, [kind |-> "checkout.create", target |-> s, customer |-> job[w].customer])
-----------------------------------------------------------------------------
\* cancelSubscription: only the subscription that the local document names.
Cancel(w) ==
  /\ at[w] = "cancel"
  /\ IF local.sub = 0 THEN Refuse(w)
     ELSE IF local.customer \notin job[w].known THEN AskReview(w)
     ELSE IF Live(local.sub)
     THEN Mutate(w, [kind |-> "subscription.cancel", target |-> local.sub, customer |-> local.customer])
     ELSE Pass(w, "readback", job[w])

ReadBack(w) ==
  /\ at[w] = "readback" /\ checkout[local.sub].plan = "canceled"
  /\ local' = [local EXCEPT !.status = "canceled"]
  /\ Go(w, "revoke", job[w])
  /\ UNCHANGED <<user, fence, stripe, faults>>

Revoke(w) ==
  /\ at[w] = "revoke"
  /\ user' = [user EXCEPT !.vip = FALSE]
  /\ Finish(w, TRUE)
  /\ UNCHANGED <<local, fence, stripe, faults>>
-----------------------------------------------------------------------------
Tombstone(f) == [phase |-> "deleted", owner |-> Nobody, request |-> "completed", review |-> FALSE,
                 customers |-> {}, mutation |-> NoMutation]

\* The transaction of deleteUserAccountData: data, tombstone and user at once.
Erase(w) ==
  /\ at[w] = "erase" /\ Holds(w)
  /\ user' = [exists |-> FALSE, vip |-> FALSE]
  /\ local' = NoLocal
  /\ fence' = Tombstone(fence)
  /\ Quit(w)
  /\ UNCHANGED <<stripe, faults>>

\* hardDeleteUser: the user first, by itself; its filter for subscriptions
\* names a field that they do not have.
Purge(w) ==
  /\ at[w] = "purge"
  /\ user' = [exists |-> FALSE, vip |-> FALSE]
  /\ Go(w, "bury", job[w])
  /\ UNCHANGED <<local, fence, stripe, faults>>

Bury(w) ==
  /\ at[w] = "bury" /\ Holds(w)
  /\ fence' = Tombstone(fence)
  /\ Quit(w)
  /\ UNCHANGED <<user, local, stripe, faults>>
-----------------------------------------------------------------------------
(***************************************************************************)
(* handleSubscriptionWebhook.  A customer that the lifecycle does not know *)
(* is kept for the reviewers.  A payment counts only if Stripe, asked      *)
(* again, says that the subscription is active.                            *)
(***************************************************************************)
TrackCustomer(w) ==
  /\ at[w] = "track" /\ Holds(w)
  /\ LET c == checkout[job[w].event.sub].customer
     IN /\ fence' = IF c \in job[w].known THEN fence
                    ELSE [fence EXCEPT !.review = TRUE, !.customers = @ \cup {c}]
        /\ Go(w, "fetch", job[w])
  /\ UNCHANGED <<user, local, stripe, faults>>

Fetch(w) ==
  /\ at[w] = "fetch"
  /\ IF job[w].event.type = "paid" /\ checkout[job[w].event.sub].plan # "active"
     THEN Finish(w, TRUE)
     ELSE Go(w, "upsert", job[w])
  /\ UNCHANGED <<user, local, fence, stripe, faults>>

StatusAfter == [paid |-> "active", failed |-> "past_due", deleted |-> "canceled"]

Upsert(w) ==
  /\ at[w] = "upsert"
  /\ LET e == job[w].event
     IN /\ local' = [kept |-> TRUE, customer |-> checkout[e.sub].customer, sub |-> e.sub,
                     status |-> StatusAfter[e.type]]
        /\ IF e.type = "failed" THEN Finish(w, TRUE) ELSE Go(w, "grant", job[w])
  /\ UNCHANGED <<user, fence, stripe, faults>>

\* User.findByIdAndUpdate changes nothing when the user is gone.
Grant(w) ==
  /\ at[w] = "grant"
  /\ user' = [user EXCEPT !.vip = user.exists /\ job[w].event.type # "deleted"]
  /\ Finish(w, TRUE)
  /\ UNCHANGED <<local, fence, stripe, faults>>
-----------------------------------------------------------------------------
(***************************************************************************)
(* What goes wrong: a write that fails although it took effect is the      *)
(* write followed by Fail; a failed release is a crash before it; and so   *)
(* is a failed catch.                                                      *)
(***************************************************************************)
Fail(w) ==
  /\ at[w] \notin {"idle", "waiting", "await", "confirm", "unsure", "release"}
  /\ Fault
  /\ Finish(w, FALSE)
  /\ UNCHANGED <<user, local, fence, stripe>>

\* No answer from Stripe in time, or the confirmation is not saved for sure.
LoseTrack(w) ==
  /\ at[w] \in {"await", "confirm"} /\ Holds(w)
  /\ Fault
  /\ Go(w, "unsure", job[w])
  /\ \/ UNCHANGED fence
     \/ /\ at[w] = "confirm" /\ job[w].call.kind = "customer.create"
        /\ fence' = [fence EXCEPT !.mutation.status = "confirmed", !.customers = @ \cup {job[w].call.target}]
  /\ UNCHANGED <<user, local, stripe>>

Crash(w) ==
  /\ at[w] # "idle"
  /\ Fault
  /\ fence' = Orphan(fence, w)
  /\ Quit(w)
  /\ UNCHANGED <<user, local, stripe>>
-----------------------------------------------------------------------------
(***************************************************************************)
(* Stripe, and the user before its pages.                                  *)
(***************************************************************************)
\* "paid" stands for checkout.session.completed and invoice.payment_succeeded.
Emit(type, s) == pending' = pending \cup {[type |-> type, sub |-> s]}

Answer(c, label) ==
  at' = [w \in Workers |-> IF at[w] = "await" /\ job[w].call = c THEN label ELSE at[w]]

CarryOut(c) ==
  /\ c \in flight
  /\ flight' = flight \ {c}
  /\ Answer(c, "confirm")
  /\ CASE c.kind = "customer.create" ->
            customers' = customers \cup {c.target} /\ UNCHANGED <<checkout, pending>>
       [] c.kind = "checkout.create" ->
            /\ checkout' = Put(checkout, c.target, [page |-> "open", customer |-> c.customer, plan |-> "none"])
            /\ UNCHANGED <<customers, pending>>
       [] OTHER ->
            /\ Live(c.target)
            /\ checkout' = [checkout EXCEPT ![c.target].plan = "canceled"]
            /\ Emit("deleted", c.target)
            /\ UNCHANGED customers
  /\ UNCHANGED <<user, local, fence, job, faults>>

\* The request is refused or lost for good.
Lose(c) ==
  /\ c \in flight
  /\ flight' = flight \ {c}
  /\ Answer(c, "unsure")
  /\ UNCHANGED <<user, local, fence, customers, checkout, pending, job, faults>>

Turn(s, from, to, type) ==
  /\ checkout[s].plan = from
  /\ checkout' = [checkout EXCEPT ![s].plan = to]
  /\ Emit(type, s)
  /\ UNCHANGED <<user, local, fence, customers, flight, at, job, faults>>

Pay(s) ==
  /\ Open(s)
  /\ checkout' = [checkout EXCEPT ![s].page = "complete", ![s].plan = "active"]
  /\ Emit("paid", s)
  /\ UNCHANGED <<user, local, fence, customers, flight, at, job, faults>>

Expire(s) ==
  /\ Open(s)
  /\ checkout' = [checkout EXCEPT ![s].page = "expired"]
  /\ UNCHANGED <<user, local, fence, customers, flight, pending, at, job, faults>>

Decline(s) == Turn(s, "active", "past_due", "failed")
Recover(s) == Turn(s, "past_due", "active", "paid")
Lapse(s) == Turn(s, "past_due", "canceled", "deleted")
-----------------------------------------------------------------------------
(***************************************************************************)
(* The manual review.  The reviewers' attestations are taken as true: the  *)
(* owner of a shut fence is stopped, the inventory of customers complete,  *)
(* and the outcome of a call what the provider's request log says of it.   *)
(* The inspection and its application are one step: the second is rejected *)
(* unless the documents are still the ones inspected, and nothing else     *)
(* that the evidence states can change while they stay the same.           *)
(***************************************************************************)
Done(c) ==
  \/ c.kind = "customer.create" /\ c.target \in customers
  \/ c.kind = "checkout.create" /\ checkout[c.target].page # "none"
  \/ c.kind = "subscription.cancel" /\ checkout[c.target].plan = "canceled"

Reviewed(f) ==
  [f EXCEPT !.phase = "idle", !.owner = Nobody, !.review = FALSE, !.customers = customers,
            !.mutation.status = IF ~Unsettled(f) THEN @
                                ELSE IF Done(f.mutation.call) THEN "confirmed" ELSE "no_effect"]

Review ==
  /\ user.exists /\ fence.phase # "deleted"
  /\ fence.phase = "working" => fence.owner = Gone
  /\ Unsettled(fence) => fence.mutation.call \notin flight
  /\ fence' = Reviewed(fence)
  /\ UNCHANGED <<user, local, stripe, at, job, faults>>
-----------------------------------------------------------------------------
Callback(w) ==
  \/ Confirm(w) \/ Distrust(w) \/ ChooseCustomer(w) \/ LinkCustomer(w)
  \/ SettleHistory(w) \/ ListPlans(w) \/ ListPages(w) \/ OpenCheckout(w)
  \/ Cancel(w) \/ ReadBack(w) \/ Revoke(w) \/ Erase(w) \/ Purge(w) \/ Bury(w)
  \/ TrackCustomer(w) \/ Fetch(w) \/ Upsert(w) \/ Grant(w) \/ Release(w)

Provider ==
  \/ \E c \in flight : CarryOut(c) \/ Lose(c)
  \/ \E s \in Checkouts : Pay(s) \/ Expire(s) \/ Decline(s) \/ Recover(s) \/ Lapse(s)

Next ==
  \/ \E w \in Workers :
       \/ Arrive(w) \/ Begin(w) \/ GiveUp(w) \/ Callback(w)
       \/ Fail(w) \/ LoseTrack(w) \/ Crash(w)
       \/ \E e \in pending : Deliver(w, e)
  \/ \E e \in pending : DeliverLate(e)
  \/ Provider
  \/ Review

Spec == Init /\ [][Next]_vars
-----------------------------------------------------------------------------
(***************************************************************************)
(* The documents and the variables of the handlers have their shape, and   *)
(* the fence has an owner exactly while it is shut (saveOwned).            *)
(***************************************************************************)
TypeOK ==
  /\ user \in [exists : BOOLEAN, vip : BOOLEAN]
  /\ local \in Locals
  /\ fence \in Fences
  /\ customers \subseteq Customers
  /\ checkout \in [Checkouts -> Pages]
  /\ flight \subseteq Calls
  /\ pending \subseteq Events
  /\ at \in [Workers -> Labels]
  /\ job \in [Workers -> Jobs]
  /\ faults \in 0..MaxFaults

\* A call that Stripe may still carry out is the one that the shut fence
\* records as pending or unknown, whoever died or timed out after sending it
\* (mutate, and the catch of runLifecycle).
InFlightIsFenced ==
  \A c \in flight : fence.phase = "working" /\ fence.mutation.call = c /\ Unsettled(fence)

\* A failed save, a crash or a lost answer never makes a retry create a second
\* customer at Stripe (getCheckoutCustomer and reviewAccount).
OneCustomer == Cardinality(customers) <= 1

\* While the fence is idle and no review is due, the lifecycle knows every
\* customer that the account has: what assertDeletionSafe asks about is all.
KnownCustomers ==
  fence.phase = "idle" /\ ~fence.review /\ ~Unsettled(fence) => customers \subseteq fence.customers

\* At most one Checkout page of the account can be paid at any time, those
\* that are still being created included.
OneOpenCheckout ==
  Cardinality({s \in Checkouts : Open(s)})
    + Cardinality({c \in flight : c.kind = "checkout.create"}) <= 1

\* Nothing writes a Subscription for a user that is gone: no webhook, however
\* late, and no request that had started before.
NoResurrection == [][~user.exists => local' = local]_vars

\* An account is deleted only with no page open and no subscription live,
\* except one paid after the deletion had listed the subscriptions.
DeletionVerified ==
  [][user.exists /\ ~user'.exists =>
       \E w \in Workers :
         /\ at[w] \in {"erase", "purge"}
         /\ \A s \in Checkouts : ~Open(s) /\ (Live(s) => s \in job[w].opened)]_vars

\* No subscription outlives the account that pays for it.
NothingBilledAfterDeletion == ~user.exists => \A s \in Checkouts : ~Live(s) /\ ~Open(s)

-----------------------------------------------------------------------------
Door == [idle |-> "open", working |-> "shut", deleted |-> "gone"][fence.phase]
Promise == INSTANCE ProviderFence WITH Calls <- Calls, door <- Door, flying <- flight

\* The lifecycle is a fence around the calls to Stripe as ProviderFence has it.
ImplementsFence == Promise!Spec
=============================================================================
