-------------------- MODULE SubscriptionLifecycleProofs ---------------------
(***************************************************************************)
(* Theorems about SubscriptionLifecycle, for any number of requests,       *)
(* customers, Checkout sessions and faults.  They rest on one inductive    *)
(* invariant: only the owner of the fence is inside it, a call to Stripe   *)
(* that may still be carried out is the one that the shut fence records,   *)
(* and what the owner found out stays true while it holds the fence.       *)
(***************************************************************************)
EXTENDS SubscriptionLifecycle, FiniteSetTheorems, TLAPS

USE WorkerAssumption, BoundAssumption

Inside(w) == at[w] \notin {"idle", "waiting"}

\* What Stripe has: pages belong to customers of the account, plans and events
\* to pages; at most one page is open, and there is one customer at most.
ProviderSane ==
  /\ \A s \in Checkouts : /\ checkout[s].page # "none" => checkout[s].customer \in customers
                          /\ checkout[s].plan # "none" => checkout[s].page # "none"
  /\ \A e \in pending : checkout[e.sub].page # "none"
  /\ \A s, t \in Checkouts : Open(s) /\ Open(t) => s = t
  /\ \A c, d \in customers : c = d

\* A call under way, and what was made sure of before it was sent.
FlightSane ==
  \A c \in flight :
    /\ fence.phase = "working" /\ fence.mutation.call = c /\ Unsettled(fence)
    /\ \A w \in Workers : Inside(w) => at[w] \in {"await", "unsure"}
    /\ c.kind = "customer.create" => customers = {}
    /\ c.kind = "checkout.create" => c.customer \in customers /\ \A s \in Checkouts : ~Open(s)

\* A customer that was created and is not recorded yet.
Newborn ==
  {c \in Customers :
     /\ fence.phase = "working" /\ Unsettled(fence)
     /\ fence.mutation.call.kind = "customer.create" /\ fence.mutation.call.target = c
     /\ \A w \in Workers : Inside(w) => at[w] \in {"confirm", "unsure"}}

KnownSane ==
  /\ fence.customers \subseteq customers
  /\ fence.phase # "deleted" /\ ~fence.review => customers \subseteq fence.customers \cup Newborn

\* What a request behind the fence may rely on.
InsideSane(w) ==
  /\ Holds(w)
  /\ at[w] \notin {"release", "bury"} => user.exists
  /\ job[w].event # NoEvent => checkout[job[w].event.sub].page # "none"
  /\ at[w] \in {"track", "fetch", "upsert", "grant"} => job[w].event # NoEvent
  /\ at[w] \in {"await", "confirm", "unsure"} =>
       job[w].call = fence.mutation.call /\ job[w].call # NoCall
  /\ at[w] = "confirm" /\ job[w].call.kind = "customer.create" => job[w].call.target \in customers
  /\ at[w] \in {"customer", "link", "settle", "plans", "pages", "open", "erase", "purge", "cancel",
                "await", "confirm"} =>
       job[w].known = fence.customers /\ job[w].review = fence.review
  /\ at[w] \in {"link", "open"} \/ (at[w] \in {"settle", "plans", "pages"} /\ job[w].op = "checkout") =>
       job[w].customer \in customers
  /\ at[w] \in {"plans", "pages", "open", "erase", "purge"} => ~job[w].review
  /\ at[w] \in {"pages", "open", "erase", "purge"} =>
       \A s \in Checkouts : Open(s) \/ Live(s) => s \in job[w].opened
  /\ at[w] \in {"open", "erase", "purge"} => \A s \in Checkouts : ~Open(s)

WorkerSane(w) == IF Inside(w) THEN InsideSane(w) ELSE ~Holds(w) /\ job[w] = NoJob

IInv ==
  /\ TypeOK
  /\ ProviderSane
  /\ FlightSane
  /\ KnownSane
  /\ \A w \in Workers : WorkerSane(w)
-----------------------------------------------------------------------------
(***************************************************************************)
(* The shape of the documents and of the handlers' variables.              *)
(***************************************************************************)
\* The fields of a fence document, one by one (the schema and saveOwned).
LEMMA FenceFields ==
  ASSUME NEW f \in Fences
  PROVE  /\ f.phase \in {"idle", "working", "deleted"} /\ f.owner \in Workers \cup {Nobody, Gone}
         /\ f.request \in {"none", "pending", "completed"} /\ f.review \in BOOLEAN
         /\ f.customers \subseteq Customers
         /\ f.mutation.status \in {"none", "pending", "confirmed", "unknown", "no_effect"}
         /\ f.mutation.call \in Calls \cup {NoCall}
         /\ f.phase = "working" <=> f.owner # Nobody
         /\ f.mutation = [status |-> f.mutation.status, call |-> f.mutation.call]
         /\ f = [phase |-> f.phase, owner |-> f.owner, request |-> f.request, review |-> f.review,
                 customers |-> f.customers, mutation |-> f.mutation]
  BY DEF Fences

\* What a step of a request does to the variables of the requests (Go).
LEMMA GoTyped ==
  ASSUME at \in [Workers -> Labels], job \in [Workers -> Jobs],
         NEW w \in Workers, NEW label \in Labels, NEW j \in Jobs, Go(w, label, j)
  PROVE  /\ at' \in [Workers -> Labels] /\ job' \in [Workers -> Jobs]
         /\ at'[w] = label /\ job'[w] = j
         /\ \A v \in Workers \ {w} : at'[v] = at[v] /\ job'[v] = job[v]
  BY DEF Go, Put

\* A request at rest has no variables.
LEMMA NoJobTyped == NoJob \in Jobs
  BY DEF NoJob, Jobs

\* After the callback only the answer matters (Finish).
LEMMA FinishTyped ==
  ASSUME at \in [Workers -> Labels], job \in [Workers -> Jobs],
         NEW w \in Workers, NEW ok \in BOOLEAN, Finish(w, ok)
  PROVE  /\ at' \in [Workers -> Labels] /\ job' \in [Workers -> Jobs]
         /\ at'[w] = "release" /\ job'[w].event \in {job[w].event, NoEvent}
         /\ \A v \in Workers \ {w} : at'[v] = at[v] /\ job'[v] = job[v]
<1> DEFINE j == [NoJob EXCEPT !.event = IF ok THEN job[w].event ELSE NoEvent, !.ok = ok]
<1>1. job[w].event \in Events \cup {NoEvent}  BY DEF Jobs
<1>2. j \in Jobs /\ j.event \in {job[w].event, NoEvent}  BY <1>1 DEF NoJob, Jobs
<1>3. Go(w, "release", j)  BY DEF Finish
<1>4. "release" \in Labels  BY DEF Labels
<1> HIDE DEF j
<1> QED  BY <1>2, <1>3, <1>4, GoTyped

\* The end of a request (Quit).
LEMMA QuitTyped ==
  ASSUME at \in [Workers -> Labels], job \in [Workers -> Jobs], NEW w \in Workers, Quit(w)
  PROVE  /\ at' \in [Workers -> Labels] /\ job' \in [Workers -> Jobs]
         /\ at'[w] = "idle" /\ job'[w] = NoJob
         /\ \A v \in Workers \ {w} : at'[v] = at[v] /\ job'[v] = job[v]
<1>1. "idle" \in Labels  BY DEF Labels
<1> QED  BY <1>1, GoTyped, NoJobTyped DEF Quit
\* A call recorded before it is sent keeps every variable typed (mutate).
LEMMA MutateTyped ==
  ASSUME TypeOK, NEW w \in Workers, NEW call \in Calls, Mutate(w, call)
  PROVE  TypeOK'
<1>1. fence' \in Fences  BY DEF Mutate, TypeOK, Fences
<1>2. at' \in [Workers -> Labels] /\ job' \in [Workers -> Jobs]
  <2>1. [job[w] EXCEPT !.call = call] \in Jobs /\ "await" \in Labels  BY DEF TypeOK, Jobs, Labels
  <2>2. CASE Go(w, "await", [job[w] EXCEPT !.call = call])  BY <2>1, <2>2, GoTyped DEF TypeOK
  <2>3. CASE Finish(w, FALSE)  BY <2>3, FinishTyped DEF TypeOK
  <2> QED  BY <2>2, <2>3 DEF Mutate
<1>3. flight' \subseteq Calls /\ faults' \in 0..MaxFaults
  <2>1. flight \subseteq Calls /\ faults \in 0..MaxFaults  BY DEF TypeOK
  <2>2. flight' \in {flight \cup {call}, flight} /\ (UNCHANGED faults \/ Fault)
    BY DEF Mutate
  <2> QED  BY <2>1, <2>2 DEF Fault
<1> QED  BY <1>1, <1>2, <1>3 DEF Mutate, TypeOK

\* The shared endings of a step keep every variable typed.
LEMMA SharedTyped ==
  ASSUME TypeOK, NEW w \in Workers, NEW label \in Labels,
         AskReview(w) \/ Refuse(w) \/ \E j \in Jobs : Pass(w, label, j)
  PROVE  TypeOK'
<1>1. CASE AskReview(w)
  <2>1. fence' \in Fences  BY <1>1 DEF AskReview, TypeOK, Fences
  <2>2. at' \in [Workers -> Labels] /\ job' \in [Workers -> Jobs]
    BY <1>1, FinishTyped DEF AskReview, TypeOK
  <2> QED  BY <1>1, <2>1, <2>2 DEF AskReview, TypeOK, stripe
<1>2. CASE Refuse(w)
  <2>1. at' \in [Workers -> Labels] /\ job' \in [Workers -> Jobs]
    BY <1>2, FinishTyped DEF Refuse, TypeOK
  <2> QED  BY <1>2, <2>1 DEF Refuse, TypeOK, stripe
<1>3. ASSUME NEW j \in Jobs, Pass(w, label, j) PROVE TypeOK'
  <2>1. at' \in [Workers -> Labels] /\ job' \in [Workers -> Jobs]
    BY <1>3, GoTyped DEF Pass, TypeOK
  <2> QED  BY <1>3, <2>1 DEF Pass, TypeOK, stripe
<1> QED  BY <1>1, <1>2, <1>3

\* Choosing the customer, the checks and the opening of the page, and the
\* cancellation: only what mutate records and sends is new.
LEMMA CheckoutTyped ==
  ASSUME TypeOK, NEW w \in Workers, WorkerSane(w), ProviderSane,
         \/ ChooseCustomer(w) \/ LinkCustomer(w) \/ SettleHistory(w) \/ ListPlans(w)
         \/ ListPages(w) \/ OpenCheckout(w) \/ Cancel(w) \/ ReadBack(w) \/ Revoke(w)
  PROVE  TypeOK'
<1> USE DEF TypeOK
<1>0. job[w] \in Jobs /\ local \in Locals  OBVIOUS
<1>a. job[w].known \subseteq Customers /\ job[w].customer \in {0} \cup Customers  BY <1>0 DEF Jobs
<1>b. {"link", "settle", "plans", "pages", "open", "erase", "purge", "readback", "revoke"} \subseteq Labels
  BY DEF Labels
<1>1. CASE ChooseCustomer(w)
  <2>1. CASE Refuse(w)  BY <1>b, <2>1, SharedTyped
  <2>2. CASE AskReview(w)  BY <1>b, <2>2, SharedTyped
  <2>3. ASSUME NEW c \in job[w].known, Pass(w, "link", [job[w] EXCEPT !.customer = c]) PROVE TypeOK'
    <3>1. [job[w] EXCEPT !.customer = c] \in Jobs  BY <1>0, <1>a DEF Jobs
    <3> QED  BY <1>b, <2>3, <3>1, SharedTyped
  <2>4. ASSUME NEW c \in Unused(Taken, Customers),
               Mutate(w, [kind |-> "customer.create", target |-> c, customer |-> 0])
        PROVE  TypeOK'
    <3>1. [kind |-> "customer.create", target |-> c, customer |-> 0] \in Calls  BY DEF Unused, Calls
    <3> QED  BY <2>4, <3>1, MutateTyped
  <2> QED  BY <1>1, <2>1, <2>2, <2>3, <2>4 DEF ChooseCustomer
<1>2. CASE LinkCustomer(w)
  <2>1. at' \in [Workers -> Labels] /\ job' \in [Workers -> Jobs]
    BY <1>0, <1>2, <1>b, GoTyped DEF LinkCustomer
  <2>2. local' \in Locals  BY <1>0, <1>2, <1>a DEF LinkCustomer, Locals
  <2> QED  BY <1>2, <2>1, <2>2 DEF LinkCustomer, stripe
<1>3. CASE SettleHistory(w)
  BY <1>0, <1>3, <1>b, SharedTyped DEF SettleHistory
<1>4. CASE ListPlans(w)
  <2>1. [job[w] EXCEPT !.opened = {s \in Checkouts : Open(s)}] \in Jobs  BY <1>0 DEF Jobs
  <2> QED  BY <1>4, <1>b, <2>1, SharedTyped DEF ListPlans
<1>5. CASE ListPages(w)
  BY <1>0, <1>5, <1>b, SharedTyped DEF ListPages
<1>6. CASE OpenCheckout(w)
  <2>1. at[w] = "open"  BY <1>6 DEF OpenCheckout
  <2>2. job[w].customer \in Customers  BY <2>1 DEF WorkerSane, Inside, InsideSane
  <2>3. PICK s \in Unused(Used, Checkouts) :
          Mutate(w, [kind |-> "checkout.create", target |-> s, customer |-> job[w].customer])
    BY <1>6 DEF OpenCheckout
  <2>4. [kind |-> "checkout.create", target |-> s, customer |-> job[w].customer] \in Calls
    BY <2>2 DEF Unused, Calls
  <2> QED  BY <2>3, <2>4, MutateTyped
<1>7. CASE Cancel(w)
  <2>1. CASE Refuse(w)  BY <1>b, <2>1, SharedTyped
  <2>2. CASE AskReview(w)  BY <1>b, <2>2, SharedTyped
  <2>3. CASE Pass(w, "readback", job[w])  BY <1>0, <1>b, <2>3, SharedTyped
  <2>4. CASE /\ local.sub # 0 /\ local.customer \in job[w].known
             /\ Mutate(w, [kind |-> "subscription.cancel", target |-> local.sub, customer |-> local.customer])
    <3>1. [kind |-> "subscription.cancel", target |-> local.sub, customer |-> local.customer] \in Calls
      BY <1>0, <1>a, <2>4 DEF Calls, Locals
    <3> QED  BY <2>4, <3>1, MutateTyped
  <2> QED  BY <1>7, <2>1, <2>2, <2>3, <2>4 DEF Cancel
<1>8. CASE ReadBack(w)
  <2>1. at' \in [Workers -> Labels] /\ job' \in [Workers -> Jobs]
    BY <1>0, <1>8, <1>b, GoTyped DEF ReadBack
  <2>2. local' \in Locals  BY <1>0, <1>8 DEF ReadBack, Locals
  <2> QED  BY <1>8, <2>1, <2>2 DEF ReadBack, stripe
<1>9. CASE Revoke(w)
  <2>1. at' \in [Workers -> Labels] /\ job' \in [Workers -> Jobs]
    BY <1>9, FinishTyped DEF Revoke
  <2> QED  BY <1>9, <2>1 DEF Revoke, stripe
<1> QED  BY <1>1, <1>2, <1>3, <1>4, <1>5, <1>6, <1>7, <1>8, <1>9
\* Entering the fence, leaving it and what may go wrong (runLifecycle).
LEMMA FencingTyped ==
  ASSUME TypeOK, NEW w \in Workers,
         \/ Arrive(w) \/ GiveUp(w) \/ Release(w) \/ Distrust(w) \/ Fail(w) \/ LoseTrack(w) \/ Crash(w)
         \/ \E op \in Operations, e \in Events \cup {NoEvent} : Acquire(w, op, e)
  PROVE  TypeOK'
<1> USE DEF TypeOK
<1>0. /\ fence \in Fences /\ job[w] \in Jobs /\ NoJob \in Jobs
      /\ {"idle", "waiting", "unsure", "release"} \subseteq Labels
  BY NoJobTyped DEF Labels
<1>f. Fault => faults' \in 0..MaxFaults  BY DEF Fault
<1>1. CASE Arrive(w)
  <2>1. fence' \in Fences  BY <1>0, <1>1 DEF Arrive, Fences
  <2>2. at' \in [Workers -> Labels] /\ job' \in [Workers -> Jobs]
    BY <1>0, <1>1, GoTyped DEF Arrive
  <2> QED  BY <1>1, <2>1, <2>2 DEF Arrive, stripe
<1>2. CASE GiveUp(w)
  <2>1. at' \in [Workers -> Labels] /\ job' \in [Workers -> Jobs]
    BY <1>2, QuitTyped DEF GiveUp
  <2> QED  BY <1>2, <2>1 DEF GiveUp, stripe
<1>3. CASE Release(w)
  <2>1. fence' \in Fences  BY <1>0, <1>3 DEF Release, Holds, Fences, Nobody
  <2>2. at' \in [Workers -> Labels] /\ job' \in [Workers -> Jobs]
    BY <1>3, QuitTyped DEF Release
  <2>3. pending' \subseteq Events  BY <1>3 DEF Release, Ack
  <2> QED  BY <1>3, <2>1, <2>2, <2>3 DEF Release
<1>4. CASE Distrust(w)
  <2>1. fence' \in Fences  BY <1>0, <1>4 DEF Distrust, Holds, Fences, Nobody, Gone
  <2>2. at' \in [Workers -> Labels] /\ job' \in [Workers -> Jobs]
    BY <1>4, QuitTyped DEF Distrust
  <2> QED  BY <1>4, <2>1, <2>2 DEF Distrust, stripe
<1>5. CASE Fail(w)
  <2>1. at' \in [Workers -> Labels] /\ job' \in [Workers -> Jobs]
    BY <1>5, FinishTyped DEF Fail
  <2> QED  BY <1>5, <1>f, <2>1 DEF Fail, stripe
<1>6. CASE LoseTrack(w)
  <2>1. at' \in [Workers -> Labels] /\ job' \in [Workers -> Jobs]
    BY <1>0, <1>6, GoTyped DEF LoseTrack
  <2>2. CASE UNCHANGED fence  BY <1>6, <1>f, <2>1, <2>2 DEF LoseTrack, stripe
  <2>3. CASE /\ job[w].call.kind = "customer.create"
             /\ fence' = [fence EXCEPT !.mutation.status = "confirmed", !.customers = @ \cup {job[w].call.target}]
    <3>1. job[w].call.target \in Customers  BY <1>0, <2>3 DEF Jobs, Calls, NoCall
    <3>2. fence' \in Fences  BY <1>0, <2>3, <3>1 DEF Fences
    <3> QED  BY <1>6, <1>f, <2>1, <3>2 DEF LoseTrack, stripe
  <2> QED  BY <1>6, <2>2, <2>3 DEF LoseTrack
<1>7. CASE Crash(w)
  <2>1. fence' \in Fences  BY <1>0, <1>7 DEF Crash, Orphan, Fences, Nobody, Gone
  <2>2. at' \in [Workers -> Labels] /\ job' \in [Workers -> Jobs]
    BY <1>7, QuitTyped DEF Crash
  <2> QED  BY <1>7, <1>f, <2>1, <2>2 DEF Crash, stripe
<1>8. ASSUME NEW op \in Operations, NEW e \in Events \cup {NoEvent}, Acquire(w, op, e) PROVE TypeOK'
  <2>1. fence' \in Fences  BY <1>0, <1>8 DEF Acquire, Fences, Nobody
  <2> DEFINE context == [NoJob EXCEPT !.op = op, !.event = e, !.known = fence.customers,
                                      !.review = fence.review, !.unsettled = Unsettled(fence)]
             over == [NoJob EXCEPT !.event = e, !.ok = op \notin {"checkout", "cancel"}]
  <2>2. First[op] \in Labels  BY DEF First, Labels, Operations
  <2>a. fence.customers \subseteq Customers /\ fence.review \in BOOLEAN  BY <1>0, FenceFields
  <2>b. Unsettled(fence) \in BOOLEAN  BY DEF Unsettled
  <2>c. context \in Jobs  BY <1>8, <2>a, <2>b DEF NoJob, Jobs
  <2>d. over \in Jobs  BY <1>8 DEF NoJob, Jobs
  <2>3. context \in Jobs /\ over \in Jobs  BY <2>c, <2>d
  <2>4. Go(w, First[op], context) \/ Go(w, "release", over)  BY <1>8 DEF Acquire
  <2> HIDE DEF context, over
  <2>5. at' \in [Workers -> Labels] /\ job' \in [Workers -> Jobs]
    BY <1>0, <2>2, <2>3, <2>4, GoTyped
  <2> QED  BY <1>8, <2>1, <2>5 DEF Acquire, stripe
<1> QED  BY <1>1, <1>2, <1>3, <1>4, <1>5, <1>6, <1>7, <1>8

\* The answers of Stripe, the deletions and the webhook.
LEMMA HandlersTyped ==
  ASSUME TypeOK, NEW w \in Workers, WorkerSane(w), ProviderSane,
         \/ Confirm(w) \/ Erase(w) \/ Purge(w) \/ Bury(w)
         \/ TrackCustomer(w) \/ Fetch(w) \/ Upsert(w) \/ Grant(w)
  PROVE  TypeOK'
<1> USE DEF TypeOK
<1>0. /\ fence \in Fences /\ job[w] \in Jobs
      /\ {"link", "readback", "bury", "fetch", "upsert", "grant"} \subseteq Labels
  BY DEF Labels
<1>1. CASE Confirm(w)
  <2> DEFINE new == IF job[w].call.kind = "customer.create" THEN {job[w].call.target} ELSE {}
             j == [job[w] EXCEPT !.known = @ \cup new, !.call = NoCall]
             linked == [j EXCEPT !.customer = job[w].call.target]
  <2>1. new \subseteq Customers  BY <1>0 DEF Jobs, Calls, NoCall
  <2>2. j \in Jobs  BY <1>0, <2>1 DEF Jobs
  <2>3. job[w].call.kind = "customer.create" => linked \in Jobs
    <3>1. \A k \in Jobs, x \in Customers : [k EXCEPT !.customer = x] \in Jobs  BY DEF Jobs
    <3>2. job[w].call.kind = "customer.create" => job[w].call.target \in Customers
      BY <1>0 DEF Jobs, Calls, NoCall
    <3> HIDE DEF j
    <3> QED  BY <2>2, <3>1, <3>2
  <2>4. /\ Holds(w)
        /\ fence' = [fence EXCEPT !.mutation.status = "confirmed", !.customers = @ \cup new]
        /\ \/ job[w].call.kind = "customer.create" /\ Go(w, "link", linked)
           \/ Finish(w, TRUE) \/ Go(w, "readback", j)
        /\ UNCHANGED <<user, local, stripe, faults>>
    BY <1>1 DEF Confirm
  <2> HIDE DEF j, new, linked
  <2>5. fence' \in Fences  BY <1>0, <2>1, <2>4 DEF Fences
  <2>6. at' \in [Workers -> Labels] /\ job' \in [Workers -> Jobs]
    BY <1>0, <2>2, <2>3, <2>4, GoTyped, FinishTyped
  <2> QED  BY <2>4, <2>5, <2>6 DEF stripe
<1>2. CASE Erase(w) \/ Bury(w)
  <2>a. Tombstone(fence) \in Fences
    BY DEF Tombstone, Fences, NoMutation
  <2>1. fence' \in Fences  BY <1>2, <2>a DEF Erase, Bury
  <2>2. at' \in [Workers -> Labels] /\ job' \in [Workers -> Jobs]
    BY <1>2, QuitTyped DEF Erase, Bury
  <2>b. NoLocal \in Locals  BY DEF NoLocal, Locals
  <2>3. local' \in Locals  BY <1>2, <2>b DEF Erase, Bury
  <2>c. [exists |-> FALSE, vip |-> FALSE] \in [exists : BOOLEAN, vip : BOOLEAN]  OBVIOUS
  <2>d. user' \in {user, [exists |-> FALSE, vip |-> FALSE]}  BY <1>2 DEF Erase, Bury
  <2>4. user' \in [exists : BOOLEAN, vip : BOOLEAN]  BY <2>c, <2>d
  <2>5. UNCHANGED <<stripe, faults>>  BY <1>2 DEF Erase, Bury
  <2> QED  BY <2>1, <2>2, <2>3, <2>4, <2>5 DEF stripe
<1>3. CASE Purge(w)
  <2>1. at' \in [Workers -> Labels] /\ job' \in [Workers -> Jobs]
    BY <1>0, <1>3, GoTyped DEF Purge
  <2> QED  BY <1>3, <2>1 DEF Purge, stripe
<1>4. CASE TrackCustomer(w) \/ Upsert(w)
  <2>1. job[w].event # NoEvent /\ checkout[job[w].event.sub].page # "none"
    BY <1>4 DEF TrackCustomer, Upsert, WorkerSane, Inside, InsideSane
  <2>2. job[w].event \in Events  BY <1>0, <2>1 DEF Jobs
  <2>3. job[w].event.sub \in Checkouts /\ job[w].event.type \in {"paid", "failed", "deleted"}
    BY <2>2 DEF Events
  <2>4. checkout[job[w].event.sub].customer \in Customers
    BY <2>1, <2>3 DEF ProviderSane
  <2>5. CASE TrackCustomer(w)
    <3>1. fence' \in Fences  BY <1>0, <2>4, <2>5 DEF TrackCustomer, Fences
    <3>2. at' \in [Workers -> Labels] /\ job' \in [Workers -> Jobs]
      BY <1>0, <2>5, GoTyped DEF TrackCustomer
    <3> QED  BY <2>5, <3>1, <3>2 DEF TrackCustomer, stripe
  <2>6. CASE Upsert(w)
    <3>1. local' \in Locals  BY <2>3, <2>4, <2>6 DEF Upsert, StatusAfter, Locals
    <3>2. at' \in [Workers -> Labels] /\ job' \in [Workers -> Jobs]
      BY <1>0, <2>6, GoTyped, FinishTyped DEF Upsert
    <3> QED  BY <2>6, <3>1, <3>2 DEF Upsert, stripe
  <2> QED  BY <1>4, <2>5, <2>6
<1>5. CASE Fetch(w)
  <2>1. at' \in [Workers -> Labels] /\ job' \in [Workers -> Jobs]
    BY <1>0, <1>5, GoTyped, FinishTyped DEF Fetch
  <2> QED  BY <1>5, <2>1 DEF Fetch, stripe
<1>6. CASE Grant(w)
  <2>1. at' \in [Workers -> Labels] /\ job' \in [Workers -> Jobs]
    BY <1>6, FinishTyped DEF Grant
  <2>2. user' \in [exists : BOOLEAN, vip : BOOLEAN]  BY <1>6 DEF Grant
  <2> QED  BY <1>6, <2>1, <2>2 DEF Grant, stripe
<1> QED  BY <1>1, <1>2, <1>3, <1>4, <1>5, <1>6

\* Stripe, late deliveries and the manual review.
LEMMA OutsideTyped ==
  ASSUME TypeOK, Provider \/ Review \/ \E e \in pending : DeliverLate(e)
  PROVE  TypeOK'
<1> USE DEF TypeOK
<1>1. ASSUME NEW e \in pending, DeliverLate(e) PROVE TypeOK'
  BY <1>1 DEF DeliverLate
<1>2. CASE Review
  <2>1. fence' \in Fences
    BY <1>2 DEF Review, Reviewed, Fences, Nobody
  <2> QED  BY <1>2, <2>1 DEF Review, stripe
<1>3. ASSUME NEW c \in flight, NEW label \in {"confirm", "unsure"}, Answer(c, label)
      PROVE  at' \in [Workers -> Labels]
  BY <1>3 DEF Answer, Labels
<1>4. ASSUME NEW c \in flight, CarryOut(c) PROVE TypeOK'
  <2>0. c \in Calls  OBVIOUS
  <2>1. CASE c.kind = "customer.create"
    <3>1. c.target \in Customers  BY <2>0, <2>1 DEF Calls
    <3> QED  BY <1>3, <1>4, <2>1, <3>1 DEF CarryOut
  <2>2. CASE c.kind = "checkout.create"
    <3>1. c.target \in Checkouts /\ c.customer \in Customers  BY <2>0, <2>2 DEF Calls
    <3>2. checkout' \in [Checkouts -> Pages]  BY <1>4, <2>2, <3>1 DEF CarryOut, Put, Pages
    <3> QED  BY <1>3, <1>4, <2>2, <3>2 DEF CarryOut
  <2>3. CASE c.kind = "subscription.cancel"
    <3>1. c.target \in Checkouts  BY <2>0, <2>3 DEF Calls
    <3>2. checkout' \in [Checkouts -> Pages]  BY <1>4, <2>3, <3>1 DEF CarryOut, Pages
    <3>3. pending' \subseteq Events  BY <1>4, <2>3, <3>1 DEF CarryOut, Emit, Events
    <3> QED  BY <1>3, <1>4, <2>3, <3>2, <3>3 DEF CarryOut
  <2> QED  BY <2>0, <2>1, <2>2, <2>3 DEF Calls
<1>5. ASSUME NEW c \in flight, Lose(c) PROVE TypeOK'
  BY <1>3, <1>5 DEF Lose
<1>6. ASSUME NEW s \in Checkouts, Pay(s) \/ Expire(s) \/ Decline(s) \/ Recover(s) \/ Lapse(s)
      PROVE  TypeOK'
  <2>1. checkout' \in [Checkouts -> Pages]
    BY <1>6 DEF Pay, Expire, Decline, Recover, Lapse, Turn, Pages
  <2>2. pending' \subseteq Events
    BY <1>6 DEF Pay, Expire, Decline, Recover, Lapse, Turn, Emit, Events
  <2> QED  BY <1>6, <2>1, <2>2 DEF Pay, Expire, Decline, Recover, Lapse, Turn
<1> QED  BY <1>1, <1>2, <1>4, <1>5, <1>6 DEF Provider
-----------------------------------------------------------------------------
(***************************************************************************)
(* Behind the fence there is one request, and the rest is outside.         *)
(***************************************************************************)
\* A request outside has nothing of its own, and holds no fence.
LEMMA Alone ==
  ASSUME \A v \in Workers : WorkerSane(v), NEW w \in Workers, Inside(w)
  PROVE  /\ Holds(w) /\ InsideSane(w)
         /\ \A v \in Workers \ {w} : ~Inside(v) /\ job[v] = NoJob
  BY DEF WorkerSane, InsideSane, Holds

\* An open fence, or one whose owner's request is over, has nobody behind it.
LEMMA NobodyInside ==
  ASSUME TypeOK, \A v \in Workers : WorkerSane(v), fence.phase # "working" \/ fence.owner \notin Workers
  PROVE  \A v \in Workers : ~Inside(v) /\ job[v] = NoJob
  BY DEF WorkerSane, InsideSane, Holds

\* While a request is behind the fence and waits for no answer, nothing is
\* under way at Stripe, and the lifecycle knows every customer.
LEMMA NothingUnderWay ==
  ASSUME FlightSane, KnownSane, \A v \in Workers : WorkerSane(v),
         NEW w \in Workers, Inside(w), at[w] \notin {"await", "unsure"}
  PROVE  /\ flight = {}
         /\ at[w] # "confirm" => Newborn = {} /\ (~fence.review => customers = fence.customers)
<1>1. flight = {}  BY DEF FlightSane
<1>2. Holds(w)  BY Alone
<1>3. at[w] # "confirm" => Newborn = {}  BY DEF Newborn
<1> QED  BY <1>1, <1>2, <1>3 DEF KnownSane, Holds

\* Whoever is outside stays there while another one steps.
LEMMA StaysOutside ==
  ASSUME NEW v \in Workers, ~Inside(v), WorkerSane(v), at'[v] = at[v], job'[v] = job[v], fence'.owner # v
  PROVE  WorkerSane(v)'
  BY DEF WorkerSane, Inside, Holds

\* A step of the request behind the fence leaves the others where they are.
LEMMA InsideStep ==
  ASSUME \A v \in Workers : WorkerSane(v), NEW w \in Workers, Inside(w),
         fence'.owner \in {w, Nobody, Gone},
         \A v \in Workers \ {w} : at'[v] = at[v] /\ job'[v] = job[v],
         WorkerSane(w)'
  PROVE  \A v \in Workers : WorkerSane(v)'
<1> SUFFICES ASSUME NEW v \in Workers \ {w} PROVE WorkerSane(v)'  OBVIOUS
<1>1. ~Inside(v)  BY Alone
<1>2. fence'.owner # v  BY DEF Nobody, Gone
<1> QED  BY <1>1, <1>2, StaysOutside

\* A step that leaves alone what a request relies on leaves it its assurances.
LEMMA Untouched ==
  ASSUME NEW v \in Workers, WorkerSane(v), at'[v] = at[v], job'[v] = job[v],
         UNCHANGED <<user, customers, checkout>>,
         fence'.phase = fence.phase, fence'.owner = fence.owner, fence'.mutation = fence.mutation,
         fence'.customers = fence.customers, fence'.review = fence.review
  PROVE  WorkerSane(v)'
  BY DEF WorkerSane, Inside, InsideSane, Holds, Open, Live

\* The callback is over (Finish): nothing but the answer is left.
LEMMA FinishSane ==
  ASSUME TypeOK, \A v \in Workers : WorkerSane(v), NEW w \in Workers, Inside(w), NEW ok \in BOOLEAN,
         Finish(w, ok), fence'.phase = fence.phase, fence'.owner = fence.owner, UNCHANGED checkout
  PROVE  \A v \in Workers : WorkerSane(v)'
<1>1. /\ at'[w] = "release" /\ job'[w].event \in {job[w].event, NoEvent}
      /\ \A v \in Workers \ {w} : at'[v] = at[v] /\ job'[v] = job[v]
  BY FinishTyped DEF TypeOK
<1>2. Holds(w) /\ InsideSane(w)  BY Alone
<1>3. WorkerSane(w)'  BY <1>1, <1>2 DEF WorkerSane, Inside, InsideSane, Holds
<1> QED  BY <1>1, <1>2, <1>3, InsideStep DEF Holds

\* The request is over (Quit), and its token no longer holds the fence.
LEMMA QuitSane ==
  ASSUME TypeOK, \A v \in Workers : WorkerSane(v), NEW w \in Workers, Inside(w), Quit(w),
         fence'.owner \in {Nobody, Gone}
  PROVE  \A v \in Workers : WorkerSane(v)'
<1>1. /\ at'[w] = "idle" /\ job'[w] = NoJob
      /\ \A v \in Workers \ {w} : at'[v] = at[v] /\ job'[v] = job[v]
  BY QuitTyped DEF TypeOK
<1>2. fence'.owner # w  BY DEF Nobody, Gone
<1>3. WorkerSane(w)'  BY <1>1, <1>2 DEF WorkerSane, Inside, Holds
<1> QED  BY <1>1, <1>3, InsideStep
-----------------------------------------------------------------------------
(***************************************************************************)
(* What Stripe has.                                                        *)
(***************************************************************************)
\* Nothing that a request or a reviewer does changes it (mutate only sends).
LEMMA OnlyStripeChangesStripe ==
  ASSUME NEW w \in Workers,
         \/ Arrive(w) \/ GiveUp(w) \/ Callback(w) \/ Fail(w) \/ LoseTrack(w) \/ Crash(w)
         \/ \E op \in Operations, e \in Events \cup {NoEvent} : Acquire(w, op, e)
  PROVE  UNCHANGED <<customers, checkout>> /\ pending' \subseteq pending
<1>1. CASE Arrive(w) \/ GiveUp(w) \/ Fail(w) \/ LoseTrack(w) \/ Crash(w)
           \/ \E op \in Operations, e \in Events \cup {NoEvent} : Acquire(w, op, e)
  BY <1>1 DEF Arrive, GiveUp, Fail, LoseTrack, Crash, Acquire, stripe
<1>2. CASE Confirm(w) \/ Distrust(w) \/ LinkCustomer(w) \/ ReadBack(w) \/ Revoke(w) \/ Erase(w)
           \/ Purge(w) \/ Bury(w) \/ TrackCustomer(w) \/ Fetch(w) \/ Upsert(w) \/ Grant(w)
  BY <1>2 DEF Confirm, Distrust, LinkCustomer, ReadBack, Revoke, Erase, Purge, Bury, TrackCustomer,
              Fetch, Upsert, Grant, stripe
<1>3. CASE SettleHistory(w) \/ ListPlans(w) \/ ListPages(w)
  BY <1>3 DEF SettleHistory, ListPlans, ListPages, Refuse, AskReview, Pass, stripe
<1>4. CASE ChooseCustomer(w) \/ OpenCheckout(w) \/ Cancel(w)
  BY <1>4 DEF ChooseCustomer, OpenCheckout, Cancel, Refuse, AskReview, Pass, Mutate, stripe
<1>5. CASE Release(w)
  BY <1>5 DEF Release, Ack
<1> QED  BY <1>1, <1>2, <1>3, <1>4, <1>5 DEF Callback

\* What Stripe has stays sane when nothing there changes.
LEMMA ProviderStays ==
  ASSUME ProviderSane, UNCHANGED <<customers, checkout>>, pending' \subseteq pending
  PROVE  ProviderSane'
  BY DEF ProviderSane, Open

\* A call carried out creates the first customer, or a page when none is open.
LEMMA CarryOutProvider ==
  ASSUME TypeOK, ProviderSane, FlightSane, NEW c \in flight, CarryOut(c)
  PROVE  ProviderSane'
<1>0. c \in Calls /\ checkout \in [Checkouts -> Pages]  BY DEF TypeOK
<1>1. CASE c.kind = "customer.create"
  <2>1. customers = {} /\ customers' = {c.target} /\ UNCHANGED <<checkout, pending>>
    BY <1>1 DEF CarryOut, FlightSane
  <2> QED  BY <2>1 DEF ProviderSane, Open
<1>2. CASE c.kind = "checkout.create"
  <2>1. c.target \in Checkouts /\ c.customer \in customers /\ \A s \in Checkouts : ~Open(s)
    BY <1>0, <1>2 DEF FlightSane, Calls
  <2>2. /\ UNCHANGED <<customers, pending>>
        /\ checkout'[c.target] = [page |-> "open", customer |-> c.customer, plan |-> "none"]
        /\ \A s \in Checkouts \ {c.target} : checkout'[s] = checkout[s]
    BY <1>0, <1>2, <2>1 DEF CarryOut, Put
  <2>3. \A e \in pending : e.sub \in Checkouts  BY DEF TypeOK, Events
  <2> QED  BY <2>1, <2>2, <2>3 DEF ProviderSane, Open
<1>3. CASE c.kind = "subscription.cancel"
  <2>1. c.target \in Checkouts  BY <1>0, <1>3 DEF Calls
  <2>2. /\ customers' = customers /\ Live(c.target)
        /\ checkout' = [checkout EXCEPT ![c.target].plan = "canceled"]
        /\ pending' = pending \cup {[type |-> "deleted", sub |-> c.target]}
    BY <1>3 DEF CarryOut, Emit
  <2>3. \A s \in Checkouts : /\ checkout'[s].page = checkout[s].page
                             /\ checkout'[s].customer = checkout[s].customer
                             /\ checkout'[s].plan # "none" => checkout[s].plan # "none"
    BY <1>0, <2>1, <2>2 DEF Live, Pages
  <2>4. \A e \in pending : e.sub \in Checkouts  BY DEF TypeOK, Events
  <2>5. checkout[c.target].page # "none"  BY <2>1, <2>2 DEF ProviderSane, Live
  <2> QED  BY <2>1, <2>2, <2>3, <2>4, <2>5 DEF ProviderSane, Open
<1> QED  BY <1>0, <1>1, <1>2, <1>3 DEF Calls

\* The user pays or lets go of a page, and the subscription takes its turns.
LEMMA PagesProvider ==
  ASSUME TypeOK, ProviderSane, NEW s \in Checkouts,
         Pay(s) \/ Expire(s) \/ Decline(s) \/ Recover(s) \/ Lapse(s)
  PROVE  /\ ProviderSane' /\ UNCHANGED <<user, local, fence, customers, flight, at, job, faults>>
         /\ \A t \in Checkouts : /\ Open(t)' => Open(t)
                                 /\ (Open(t) \/ Live(t))' => Open(t) \/ Live(t)
                                 /\ checkout'[t].page # "none" <=> checkout[t].page # "none"
                                 /\ checkout'[t].customer = checkout[t].customer
<1>0. checkout \in [Checkouts -> Pages] /\ \A e \in pending : e.sub \in Checkouts
  BY DEF TypeOK, Events
<1>1. UNCHANGED <<user, local, fence, customers, flight, at, job, faults>>
  BY DEF Pay, Expire, Decline, Recover, Lapse, Turn
<1>2. checkout[s].page # "none"
  BY DEF Pay, Expire, Decline, Recover, Lapse, Turn, Open, ProviderSane
<1>3. \/ UNCHANGED pending
      \/ \E type \in {"paid", "failed", "deleted"} : pending' = pending \cup {[type |-> type, sub |-> s]}
  BY DEF Pay, Expire, Decline, Recover, Lapse, Turn, Emit
<1>4. \A t \in Checkouts \ {s} : checkout'[t] = checkout[t]
  BY <1>0 DEF Pay, Expire, Decline, Recover, Lapse, Turn
<1>5. /\ checkout'[s].page # "none" /\ checkout'[s].customer = checkout[s].customer
      /\ checkout'[s].page = "open" => checkout[s].page = "open"
      /\ checkout'[s].plan \in {"active", "past_due"} =>
           checkout[s].page = "open" \/ checkout[s].plan \in {"active", "past_due"}
  <2>1. CASE Pay(s) \/ Expire(s)  BY <1>0, <1>2, <2>1 DEF Pay, Expire, Open, Pages
  <2>2. CASE Decline(s) \/ Recover(s) \/ Lapse(s)
    BY <1>0, <1>2, <2>2 DEF Decline, Recover, Lapse, Turn, Pages
  <2> QED  BY <2>1, <2>2
<1>6. ProviderSane'  BY <1>0, <1>1, <1>2, <1>3, <1>4, <1>5 DEF ProviderSane, Open
<1> QED  BY <1>1, <1>2, <1>4, <1>5, <1>6 DEF Open, Live
-----------------------------------------------------------------------------
(***************************************************************************)
(* The steps of the requests.  Sane is the invariant less what is typed    *)
(* and what Stripe has, which are lemmas of their own.                     *)
(***************************************************************************)
Sane == FlightSane /\ KnownSane /\ \A w \in Workers : WorkerSane(w)

\* A step that sends nothing and forgets no customer keeps the calls and the
\* known customers sane, if its request waits for no answer.
LEMMA QuietStep ==
  ASSUME Sane, NEW w \in Workers, Inside(w), at[w] \notin {"await", "unsure", "confirm"},
         UNCHANGED <<flight, customers>>, fence'.customers \subseteq customers,
         \/ fence'.phase = "deleted"
         \/ fence.customers \subseteq fence'.customers /\ (fence.review => fence'.review)
  PROVE  FlightSane' /\ KnownSane'
<1>1. flight = {} /\ (~fence.review => customers = fence.customers)
  BY NothingUnderWay DEF Sane
<1> QED  BY <1>1 DEF FlightSane, KnownSane

\* Refusing, asking for a review and going on are quiet (requireReview).
LEMMA SharedSane ==
  ASSUME TypeOK, Sane, NEW w \in Workers, Inside(w), at[w] \notin {"await", "unsure", "confirm"},
         \/ AskReview(w) \/ Refuse(w)
         \/ \E label \in Labels, j \in Jobs : Pass(w, label, j) /\ WorkerSane(w)'
  PROVE  Sane'
<1> USE DEF Sane
<1>0. Holds(w) /\ fence \in Fences  BY Alone DEF TypeOK
<1>1. CASE AskReview(w)
  <2>1. /\ fence'.phase = fence.phase /\ fence'.owner = fence.owner /\ fence'.review = TRUE
        /\ fence'.customers = fence.customers /\ Finish(w, FALSE)
        /\ UNCHANGED <<checkout, flight, customers>>
    BY <1>0, <1>1 DEF AskReview, Fences, stripe
  <2> QED  BY <2>1, QuietStep, FinishSane DEF KnownSane
<1>2. CASE Refuse(w)
  BY <1>2, QuietStep, FinishSane DEF Refuse, KnownSane, stripe
<1>3. ASSUME NEW label \in Labels, NEW j \in Jobs, Pass(w, label, j), WorkerSane(w)' PROVE Sane'
  <2>1. UNCHANGED <<fence, flight, customers>> /\ Go(w, label, j)  BY <1>3 DEF Pass, stripe
  <2>2. \A v \in Workers \ {w} : at'[v] = at[v] /\ job'[v] = job[v]
    BY <2>1, GoTyped DEF TypeOK
  <2>3. fence'.owner = w  BY <1>0, <2>1 DEF Holds
  <2> QED  BY <1>3, <2>1, <2>2, <2>3, QuietStep, InsideStep DEF KnownSane
<1> QED  BY <1>1, <1>2, <1>3

\* mutate, from a state in which the call may be sent.
LEMMA MutateSane ==
  ASSUME TypeOK, Sane, NEW w \in Workers, Inside(w), at[w] \notin {"await", "unsure", "confirm"},
         user.exists, job[w].known = fence.customers, job[w].review = fence.review,
         NEW call \in Calls, Mutate(w, call),
         call.kind = "customer.create" => customers = {},
         call.kind = "checkout.create" => call.customer \in customers /\ \A s \in Checkouts : ~Open(s)
  PROVE  Sane'
<1> USE DEF Sane
<1>0. /\ Holds(w) /\ InsideSane(w) /\ fence \in Fences /\ job[w] \in Jobs
      /\ \A v \in Workers \ {w} : ~Inside(v)
  BY Alone DEF TypeOK
<1>1. /\ flight = {} /\ (~fence.review => customers = fence.customers)
      /\ fence.customers \subseteq customers
  BY NothingUnderWay DEF KnownSane
<1>2. /\ fence'.phase = "working" /\ fence'.owner = w /\ fence'.customers = fence.customers
      /\ fence'.review = fence.review /\ fence'.mutation = [status |-> "pending", call |-> call]
      /\ UNCHANGED <<user, customers, checkout>>
  BY <1>0 DEF Mutate, Fences, Holds
<1>3. KnownSane'  BY <1>1, <1>2 DEF KnownSane
<1>4. CASE flight' = flight \cup {call} /\ Go(w, "await", [job[w] EXCEPT !.call = call])
  <2>1. [job[w] EXCEPT !.call = call] \in Jobs /\ "await" \in Labels
    BY <1>0 DEF Jobs, Labels
  <2>2. /\ at'[w] = "await" /\ job'[w] = [job[w] EXCEPT !.call = call]
        /\ \A v \in Workers \ {w} : at'[v] = at[v] /\ job'[v] = job[v]
    BY <1>4, <2>1, GoTyped DEF TypeOK
  <2>3. /\ job'[w].call = call /\ job'[w].event = job[w].event
        /\ job'[w].known = job[w].known /\ job'[w].review = job[w].review
    BY <1>0, <2>2 DEF Jobs
  <2>4. call # NoCall  BY DEF Calls, NoCall
  <2>5. WorkerSane(w)'
    BY <1>0, <1>2, <2>2, <2>3, <2>4 DEF WorkerSane, Inside, InsideSane, Holds
  <2>6. \A v \in Workers : WorkerSane(v)'  BY <1>2, <2>2, <2>5, InsideStep
  <2>7. FlightSane'
    BY <1>0, <1>1, <1>2, <1>4, <2>2 DEF FlightSane, Unsettled, Inside, Open
  <2> QED  BY <1>3, <2>6, <2>7
<1>5. CASE Finish(w, FALSE) /\ UNCHANGED flight
  <2>1. FlightSane'  BY <1>1, <1>5 DEF FlightSane
  <2>2. \A v \in Workers : WorkerSane(v)'  BY <1>0, <1>2, <1>5, FinishSane DEF Holds
  <2> QED  BY <1>3, <2>1, <2>2
<1> QED  BY <1>4, <1>5 DEF Mutate

\* getCheckoutCustomer: a customer is created only when there is none.
LEMMA ChooseCustomerSane ==
  ASSUME TypeOK, Sane, NEW w \in Workers, ChooseCustomer(w)
  PROVE  Sane'
<1> USE DEF Sane
<1>0. /\ at[w] = "customer" /\ Inside(w) /\ job[w] \in Jobs /\ local \in Locals
  BY DEF ChooseCustomer, Inside, TypeOK
<1>1. InsideSane(w) /\ Holds(w)  BY <1>0, Alone
<1>2. /\ flight = {} /\ (~fence.review => customers = fence.customers)
      /\ fence.customers \subseteq customers
  BY <1>0, NothingUnderWay DEF KnownSane
<1>3. user.exists /\ job[w].known = fence.customers /\ job[w].review = fence.review
  BY <1>0, <1>1 DEF InsideSane
<1>4. CASE Refuse(w) \/ AskReview(w)  BY <1>0, <1>4, SharedSane
<1>5. ASSUME NEW c \in job[w].known, Pass(w, "link", [job[w] EXCEPT !.customer = c]) PROVE Sane'
  <2> DEFINE j == [job[w] EXCEPT !.customer = c]
  <2>0. c \in Customers  BY <1>0 DEF Jobs
  <2>1. j \in Jobs /\ "link" \in Labels  BY <1>0, <2>0 DEF Jobs, Labels
  <2>2. /\ j.customer = c /\ j.event = job[w].event /\ j.known = job[w].known
        /\ j.review = job[w].review
    BY <1>0 DEF Jobs
  <2> HIDE DEF j
  <2>3. at'[w] = "link" /\ job'[w] = j /\ UNCHANGED <<user, fence, customers, checkout>>
    BY <1>5, <2>1, GoTyped DEF Pass, TypeOK, stripe, j
  <2>4. c \in customers  BY <1>2, <1>3
  <2>5. WorkerSane(w)'
    BY <1>0, <1>1, <2>2, <2>3, <2>4 DEF WorkerSane, Inside, InsideSane, Holds
  <2> QED  BY <1>0, <1>5, <2>1, <2>5, SharedSane DEF j
<1>6. ASSUME job[w].review = FALSE, job[w].known = {} \/ local.customer # 0,
             (IF local.customer # 0 THEN {local.customer} ELSE job[w].known) = {},
             NEW c \in Unused(Taken, Customers),
             Mutate(w, [kind |-> "customer.create", target |-> c, customer |-> 0])
      PROVE  Sane'
  <2> DEFINE call == [kind |-> "customer.create", target |-> c, customer |-> 0]
  <2>1. call \in Calls /\ call.kind = "customer.create"  BY DEF Calls, Unused
  <2>2. job[w].known = {}  BY <1>6
  <2>3. customers = {}  BY <1>2, <1>3, <1>6, <2>2
  <2> QED  BY <1>0, <1>3, <1>6, <2>1, <2>3, MutateSane
<1>7. job[w].review \in BOOLEAN  BY <1>0 DEF Jobs
<1> QED  BY <1>4, <1>5, <1>6, <1>7 DEF ChooseCustomer
\* The checks before a Checkout or a deletion: the known customers are all
\* there are, so what the two lists do not show does not exist
\* (assertDeletionSafe).
LEMMA ChecksSane ==
  ASSUME TypeOK, ProviderSane, Sane, NEW w \in Workers,
         LinkCustomer(w) \/ SettleHistory(w) \/ ListPlans(w) \/ ListPages(w)
  PROVE  Sane'
<1> USE DEF Sane
<1>0. /\ at[w] \in {"link", "settle", "plans", "pages"} /\ Inside(w)
      /\ job[w] \in Jobs /\ checkout \in [Checkouts -> Pages]
  BY DEF LinkCustomer, SettleHistory, ListPlans, ListPages, Inside, TypeOK
<1>1. InsideSane(w) /\ Holds(w)  BY <1>0, Alone
<1>2. /\ ~fence.review => customers = fence.customers
      /\ fence.customers \subseteq customers
  BY <1>0, NothingUnderWay DEF KnownSane
<1>3. user.exists /\ job[w].known = fence.customers /\ job[w].review = fence.review
  BY <1>0, <1>1 DEF InsideSane
<1>4. {"settle", "plans", "pages", "open", "erase", "purge"} \subseteq Labels  BY DEF Labels
<1>5. CASE Refuse(w) \/ AskReview(w)  BY <1>0, <1>5, SharedSane
<1>6. CASE LinkCustomer(w)
  <2>1. /\ at'[w] = "settle" /\ job'[w] = job[w]
        /\ \A v \in Workers \ {w} : at'[v] = at[v] /\ job'[v] = job[v]
        /\ UNCHANGED <<user, fence, customers, checkout, flight>>
    BY <1>0, <1>4, <1>6, GoTyped DEF LinkCustomer, TypeOK, stripe
  <2>2. at[w] = "link"  BY <1>6 DEF LinkCustomer
  <2>3. WorkerSane(w)'
    BY <1>1, <2>1, <2>2 DEF WorkerSane, Inside, InsideSane, Holds
  <2>4. FlightSane' /\ KnownSane'  BY <1>0, <1>2, <2>1, QuietStep
  <2> QED  BY <1>0, <1>1, <2>1, <2>3, <2>4, InsideStep DEF Holds
<1>7. CASE at[w] = "settle" /\ ~job[w].review /\ Pass(w, "plans", job[w])
  <2>1. at'[w] = "plans" /\ job'[w] = job[w] /\ UNCHANGED <<user, fence, customers, checkout>>
    BY <1>0, <1>4, <1>7, GoTyped DEF Pass, TypeOK, stripe
  <2>2. WorkerSane(w)'
    BY <1>1, <1>7, <2>1 DEF WorkerSane, Inside, InsideSane, Holds
  <2> QED  BY <1>0, <1>4, <1>7, <2>2, SharedSane
<1>8. CASE ListPlans(w)
  <2> DEFINE j == [job[w] EXCEPT !.opened = {s \in Checkouts : Open(s)}]
  <2>0. j \in Jobs  BY <1>0 DEF Jobs
  <2>1. CASE /\ ~ \E s \in Checkouts : Live(s) /\ checkout[s].customer \in job[w].known
             /\ Pass(w, "pages", j)
    <3>1. at[w] = "plans" /\ ~job[w].review  BY <1>1, <1>8 DEF ListPlans, InsideSane
    <3>2. \A s \in Checkouts : ~Live(s)
      <4> SUFFICES ASSUME NEW s \in Checkouts, Live(s) PROVE FALSE  OBVIOUS
      <4>1. checkout[s].customer \in customers  BY DEF Live, ProviderSane
      <4> QED  BY <1>2, <1>3, <2>1, <3>1, <4>1
    <3>3. /\ j.opened = {s \in Checkouts : Open(s)} /\ j.event = job[w].event
          /\ j.known = job[w].known /\ j.review = job[w].review /\ j.op = job[w].op
          /\ j.customer = job[w].customer
      BY <1>0 DEF Jobs
    <3> HIDE DEF j
    <3>4. at'[w] = "pages" /\ job'[w] = j /\ UNCHANGED <<user, fence, customers, checkout>>
      BY <1>0, <1>4, <2>0, <2>1, GoTyped DEF Pass, TypeOK, stripe
    <3>5. \A s \in Checkouts : Open(s)' = Open(s) /\ Live(s)' = Live(s)
      BY <3>4 DEF Open, Live
    <3>6. WorkerSane(w)'
      BY <1>1, <3>1, <3>2, <3>3, <3>4, <3>5 DEF WorkerSane, Inside, InsideSane, Holds
    <3> QED  BY <1>0, <1>4, <2>0, <2>1, <3>6, SharedSane
  <2> QED  BY <1>5, <1>8, <2>1 DEF ListPlans
<1>9. CASE ListPages(w)
  <2>1. ASSUME ~ \E s \in Checkouts : Open(s) /\ checkout[s].customer \in job[w].known,
               NEW label \in {"open", "erase", "purge"}, label = "open" => job[w].op = "checkout",
               Pass(w, label, job[w])
        PROVE  Sane'
    <3>1. at[w] = "pages" /\ ~job[w].review  BY <1>1, <1>9 DEF ListPages, InsideSane
    <3>2. \A s \in Checkouts : ~Open(s)
      <4> SUFFICES ASSUME NEW s \in Checkouts, Open(s) PROVE FALSE  OBVIOUS
      <4>1. checkout[s].customer \in customers  BY DEF Open, ProviderSane
      <4> QED  BY <1>2, <1>3, <2>1, <3>1, <4>1
    <3>3. at'[w] = label /\ job'[w] = job[w] /\ UNCHANGED <<user, fence, customers, checkout>>
      BY <1>0, <1>4, <2>1, GoTyped DEF Pass, TypeOK, stripe
    <3>4. \A s \in Checkouts : Open(s)' = Open(s) /\ Live(s)' = Live(s)
      BY <3>3 DEF Open, Live
    <3>5. WorkerSane(w)'
      BY <1>1, <2>1, <3>1, <3>2, <3>3, <3>4 DEF WorkerSane, Inside, InsideSane, Holds
    <3> QED  BY <1>0, <1>4, <2>1, <3>5, SharedSane
  <2>2. CASE Refuse(w)  BY <1>5, <2>2
  <2>3. CASE /\ ~ \E s \in Checkouts : Open(s) /\ checkout[s].customer \in job[w].known
             /\ ~Refuse(w)
    <3>1. CASE job[w].op = "checkout"  BY <1>9, <2>1, <2>3, <3>1 DEF ListPages
    <3>2. CASE job[w].op = "delete"  BY <1>9, <2>1, <2>3, <3>2 DEF ListPages
    <3>3. CASE job[w].op \notin {"checkout", "delete"}  BY <1>9, <2>1, <2>3, <3>3 DEF ListPages
    <3> QED  BY <3>1, <3>2, <3>3
  <2> QED  BY <1>9, <2>2, <2>3 DEF ListPages
<1>10. CASE SettleHistory(w)
  <2>1. job[w].review \in BOOLEAN  BY <1>0 DEF Jobs
  <2> QED  BY <1>5, <1>7, <1>10, <2>1 DEF SettleHistory
<1> QED  BY <1>6, <1>8, <1>9, <1>10

\* The page is opened, or the subscription cancelled, by mutate.
LEMMA SendersSane ==
  ASSUME TypeOK, ProviderSane, Sane, NEW w \in Workers, OpenCheckout(w) \/ Cancel(w)
  PROVE  Sane'
<1> USE DEF Sane
<1>0. at[w] \in {"open", "cancel"} /\ Inside(w) /\ job[w] \in Jobs /\ local \in Locals
  BY DEF OpenCheckout, Cancel, Inside, TypeOK
<1>1. InsideSane(w) /\ Holds(w)  BY <1>0, Alone
<1>2. fence.customers \subseteq customers /\ customers \subseteq Customers
  BY DEF KnownSane, TypeOK
<1>3. user.exists /\ job[w].known = fence.customers /\ job[w].review = fence.review
  BY <1>0, <1>1 DEF InsideSane
<1>4. CASE OpenCheckout(w)
  <2>1. PICK s \in Unused(Used, Checkouts) :
          Mutate(w, [kind |-> "checkout.create", target |-> s, customer |-> job[w].customer])
    BY <1>4 DEF OpenCheckout
  <2> DEFINE call == [kind |-> "checkout.create", target |-> s, customer |-> job[w].customer]
  <2>2. at[w] = "open"  BY <1>4 DEF OpenCheckout
  <2>3. job[w].customer \in customers /\ \A t \in Checkouts : ~Open(t)
    BY <1>1, <2>2 DEF InsideSane
  <2>4. call \in Calls /\ call.kind = "checkout.create" /\ call.customer = job[w].customer
    BY <1>2, <2>3 DEF Calls, Unused
  <2>5. call.kind # "customer.create"  OBVIOUS
  <2> QED  BY <1>0, <1>3, <2>1, <2>2, <2>3, <2>4, <2>5, MutateSane
<1>5. CASE Cancel(w)
  <2>1. CASE Refuse(w) \/ AskReview(w)  BY <1>0, <2>1, SharedSane
  <2>2. CASE Pass(w, "readback", job[w])
    <3>0. "readback" \in Labels  BY DEF Labels
    <3>1. at'[w] = "readback" /\ job'[w] = job[w] /\ UNCHANGED <<user, fence, customers, checkout>>
      BY <1>0, <2>2, <3>0, GoTyped DEF Pass, TypeOK, stripe
    <3>2. WorkerSane(w)'
      BY <1>0, <1>1, <3>1 DEF WorkerSane, Inside, InsideSane, Holds
    <3> QED  BY <1>0, <2>2, <3>0, <3>2, SharedSane
  <2>3. CASE /\ local.sub # 0 /\ local.customer \in job[w].known
             /\ Mutate(w, [kind |-> "subscription.cancel", target |-> local.sub, customer |-> local.customer])
    <3> DEFINE call == [kind |-> "subscription.cancel", target |-> local.sub, customer |-> local.customer]
    <3>1. call \in Calls /\ call.kind = "subscription.cancel"
      BY <1>0, <1>2, <1>3, <2>3 DEF Calls, Locals
    <3>2. call.kind # "customer.create" /\ call.kind # "checkout.create"  OBVIOUS
    <3> QED  BY <1>0, <1>3, <2>3, <3>1, <3>2, MutateSane
  <2> QED  BY <1>5, <2>1, <2>2, <2>3 DEF Cancel
<1> QED  BY <1>4, <1>5
\* The handlers that end with an answer, or fail (Finish).
LEMMA EndingsSane ==
  ASSUME TypeOK, Sane, NEW w \in Workers,
         \/ Revoke(w) \/ Grant(w) \/ Fail(w) \/ Release(w) \/ Erase(w) \/ Bury(w)
  PROVE  Sane'
<1> USE DEF Sane
<1>0. at[w] \notin {"idle", "waiting", "await", "confirm", "unsure"} /\ Inside(w) /\ fence \in Fences
  BY DEF Revoke, Grant, Fail, Release, Erase, Bury, Inside, TypeOK
<1>1. Holds(w) /\ fence.customers \subseteq customers
  BY <1>0, Alone DEF KnownSane
<1>2. CASE Revoke(w) \/ Grant(w) \/ Fail(w)
  <2>1. /\ UNCHANGED <<fence, customers, checkout, flight>>
        /\ Finish(w, TRUE) \/ Finish(w, FALSE)
    BY <1>2 DEF Revoke, Grant, Fail, stripe
  <2> QED  BY <1>0, <1>1, <2>1, QuietStep, FinishSane
<1>3. CASE Release(w)
  <2>1. /\ UNCHANGED <<customers, flight>> /\ Quit(w) /\ fence'.owner = Nobody
        /\ fence'.customers = fence.customers /\ fence'.review = fence.review
    BY <1>0, <1>3 DEF Release, Fences
  <2> QED  BY <1>0, <1>1, <2>1, QuietStep, QuitSane
<1>4. CASE Erase(w) \/ Bury(w)
  <2>1. /\ UNCHANGED <<customers, flight>> /\ Quit(w) /\ fence' = Tombstone(fence)
    BY <1>4 DEF Erase, Bury, stripe
  <2>2. fence'.owner = Nobody /\ fence'.phase = "deleted" /\ fence'.customers = {}
    BY <2>1 DEF Tombstone
  <2> QED  BY <1>0, <2>1, <2>2, QuietStep, QuitSane
<1> QED  BY <1>2, <1>3, <1>4

\* The handlers' steps on the way to their answer: what the event is about
\* stays known, and nobody but the owner deletes the user.
LEMMA PathsSane ==
  ASSUME TypeOK, ProviderSane, Sane, NEW w \in Workers,
         ReadBack(w) \/ Purge(w) \/ TrackCustomer(w) \/ Fetch(w) \/ Upsert(w)
  PROVE  Sane'
<1> USE DEF Sane
<1>0. /\ at[w] \in {"readback", "purge", "track", "fetch", "upsert"} /\ Inside(w)
      /\ job[w] \in Jobs /\ fence \in Fences
      /\ {"revoke", "bury", "fetch", "upsert", "grant"} \subseteq Labels
  BY DEF ReadBack, Purge, TrackCustomer, Fetch, Upsert, Inside, TypeOK, Labels
<1>1. InsideSane(w) /\ Holds(w) /\ fence.customers \subseteq customers
  BY <1>0, Alone DEF KnownSane
<1>2. CASE Finish(w, TRUE) /\ UNCHANGED <<fence, customers, checkout, flight>>
  BY <1>0, <1>1, <1>2, QuietStep, FinishSane
<1>3. ASSUME NEW label \in {"revoke", "bury", "fetch", "upsert", "grant"}, Go(w, label, job[w]),
             UNCHANGED <<customers, checkout, flight>>, label # "bury" => user' = user,
             label \in {"fetch", "upsert", "grant"} => at[w] \in {"track", "fetch", "upsert"},
             fence'.phase = fence.phase, fence'.owner = fence.owner, fence'.mutation = fence.mutation,
             fence.customers \subseteq fence'.customers, fence'.customers \subseteq customers,
             fence.review => fence'.review
      PROVE  Sane'
  <2>1. /\ at'[w] = label /\ job'[w] = job[w]
        /\ \A v \in Workers \ {w} : at'[v] = at[v] /\ job'[v] = job[v]
    BY <1>0, <1>3, GoTyped DEF TypeOK
  <2>2. WorkerSane(w)'
    BY <1>0, <1>1, <1>3, <2>1 DEF WorkerSane, Inside, InsideSane, Holds
  <2>3. FlightSane' /\ KnownSane'  BY <1>0, <1>3, QuietStep
  <2> QED  BY <1>0, <1>1, <1>3, <2>1, <2>2, <2>3, InsideStep DEF Holds
<1>4. CASE ReadBack(w) \/ Purge(w) \/ Fetch(w) \/ Upsert(w)
  <2>1. UNCHANGED <<fence, customers, checkout, flight>>
    BY <1>4 DEF ReadBack, Purge, Fetch, Upsert, stripe
  <2>2. CASE ReadBack(w)
    <3>1. Go(w, "revoke", job[w]) /\ user' = user  BY <2>2 DEF ReadBack
    <3> QED  BY <1>1, <1>3, <2>1, <3>1
  <2>3. CASE Purge(w)
    <3>1. Go(w, "bury", job[w])  BY <2>3 DEF Purge
    <3> QED  BY <1>1, <1>3, <2>1, <3>1
  <2>4. CASE Fetch(w) \/ Upsert(w)
    <3>1. /\ at[w] \in {"fetch", "upsert"} /\ user' = user
          /\ Finish(w, TRUE) \/ Go(w, "upsert", job[w]) \/ Go(w, "grant", job[w])
      BY <2>4 DEF Fetch, Upsert
    <3> QED  BY <1>1, <1>2, <1>3, <2>1, <3>1
  <2> QED  BY <1>4, <2>2, <2>3, <2>4
<1>5. CASE TrackCustomer(w)
  <2>1. at[w] = "track" /\ job[w].event # NoEvent /\ checkout[job[w].event.sub].page # "none"
    BY <1>1, <1>5 DEF TrackCustomer, InsideSane
  <2>2. job[w].event \in Events  BY <1>0, <2>1 DEF Jobs
  <2>3. job[w].event.sub \in Checkouts  BY <2>2 DEF Events
  <2>4. checkout[job[w].event.sub].customer \in customers  BY <2>1, <2>3 DEF ProviderSane
  <2>5. /\ Go(w, "fetch", job[w]) /\ UNCHANGED <<customers, checkout, flight, user>>
        /\ fence'.phase = fence.phase /\ fence'.owner = fence.owner /\ fence'.mutation = fence.mutation
    BY <1>0, <1>5 DEF TrackCustomer, stripe, Fences
  <2>6. /\ fence.customers \subseteq fence'.customers /\ fence'.customers \subseteq customers
        /\ fence.review => fence'.review
    BY <1>0, <1>1, <1>5, <2>4 DEF TrackCustomer, Fences
  <2> QED  BY <1>3, <2>1, <2>5, <2>6
<1> QED  BY <1>4, <1>5

\* The answer of Stripe is recorded: the new customer is known from then on.
LEMMA ConfirmSane ==
  ASSUME TypeOK, Sane, NEW w \in Workers, Confirm(w)
  PROVE  Sane'
<1> USE DEF Sane
<1>0. /\ at[w] = "confirm" /\ Inside(w) /\ job[w] \in Jobs /\ fence \in Fences
      /\ {"link", "readback"} \subseteq Labels
  BY DEF Confirm, Inside, TypeOK, Labels
<1>1. InsideSane(w) /\ Holds(w) /\ flight = {} /\ fence.customers \subseteq customers
  BY <1>0, Alone, NothingUnderWay DEF KnownSane
<1>2. /\ user.exists /\ job[w].known = fence.customers /\ job[w].review = fence.review
      /\ job[w].call = fence.mutation.call /\ job[w].call \in Calls
      /\ job[w].call.kind = "customer.create" => job[w].call.target \in customers
  BY <1>0, <1>1 DEF InsideSane, Jobs
<1> DEFINE new == IF job[w].call.kind = "customer.create" THEN {job[w].call.target} ELSE {}
           j == [job[w] EXCEPT !.known = @ \cup new, !.call = NoCall]
           linked == [j EXCEPT !.customer = job[w].call.target]
<1>3. new \subseteq customers /\ customers \subseteq Customers  BY <1>2 DEF TypeOK
<1>4. /\ fence' = [fence EXCEPT !.mutation.status = "confirmed", !.customers = @ \cup new]
      /\ \/ job[w].call.kind = "customer.create" /\ Go(w, "link", linked)
         \/ job[w].call.kind # "customer.create" /\ (Finish(w, TRUE) \/ Go(w, "readback", j))
      /\ UNCHANGED <<user, local, stripe, faults>>
  BY Zenon DEF Confirm
<1>5. j \in Jobs /\ j.known = job[w].known \cup new /\ j.event = job[w].event /\ j.review = job[w].review
  BY <1>0, <1>3 DEF Jobs
<1>6. job[w].call.kind = "customer.create" =>
        /\ linked \in Jobs /\ linked.customer = job[w].call.target /\ linked.known = j.known
        /\ linked.event = j.event /\ linked.review = j.review
  BY <1>2, <1>5, <1>3 DEF Jobs
<1>7. Newborn \subseteq new  BY <1>2 DEF Newborn
<1> HIDE DEF new, j, linked
<1>8. /\ fence'.phase = fence.phase /\ fence'.owner = fence.owner /\ fence'.review = fence.review
      /\ fence'.customers = fence.customers \cup new
  BY <1>0, <1>4 DEF Fences
<1>9. UNCHANGED <<user, customers, checkout, flight>>  BY <1>4 DEF stripe
<1>10. FlightSane' /\ KnownSane'
  BY <1>1, <1>3, <1>7, <1>8, <1>9 DEF FlightSane, KnownSane
<1>11. CASE job[w].call.kind = "customer.create" /\ Go(w, "link", linked)
  <2>1. /\ at'[w] = "link" /\ job'[w] = linked
        /\ \A v \in Workers \ {w} : at'[v] = at[v] /\ job'[v] = job[v]
    BY <1>0, <1>6, <1>11, GoTyped DEF TypeOK
  <2>2. WorkerSane(w)'
    BY <1>0, <1>1, <1>2, <1>5, <1>6, <1>8, <1>9, <1>11, <2>1 DEF WorkerSane, Inside, InsideSane, Holds
  <2> QED  BY <1>0, <1>1, <1>8, <1>10, <2>1, <2>2, InsideStep DEF Holds
<1>12. CASE Finish(w, TRUE)
  BY <1>0, <1>8, <1>9, <1>10, <1>12, FinishSane
<1>13. CASE Go(w, "readback", j)
  <2>1. /\ at'[w] = "readback" /\ job'[w] = j
        /\ \A v \in Workers \ {w} : at'[v] = at[v] /\ job'[v] = job[v]
    BY <1>0, <1>5, <1>13, GoTyped DEF TypeOK
  <2>2. WorkerSane(w)'
    BY <1>0, <1>1, <1>2, <1>5, <1>8, <1>9, <2>1 DEF WorkerSane, Inside, InsideSane, Holds
  <2> QED  BY <1>0, <1>1, <1>8, <1>10, <2>1, <2>2, InsideStep DEF Holds
<1> QED  BY <1>4, <1>11, <1>12, <1>13
\* A request that goes away without opening the fence: what it sent may still
\* be carried out, and the fence stays shut around it (the catch, and a crash).
LEMMA AbandonSane ==
  ASSUME TypeOK, Sane, NEW w \in Workers, Inside(w), Distrust(w) \/ Crash(w)
  PROVE  Sane'
<1> USE DEF Sane
<1>0. Holds(w) /\ fence \in Fences  BY Alone DEF TypeOK
<1>1. /\ Quit(w) /\ UNCHANGED <<user, customers, checkout, flight>>
      /\ fence'.phase = fence.phase /\ fence'.owner = Gone /\ fence'.customers = fence.customers
      /\ fence'.mutation.call = fence.mutation.call
      /\ Unsettled(fence) => Unsettled(fence')
      /\ fence.review => fence'.review
  <2>1. CASE Distrust(w)  BY <1>0, <2>1 DEF Distrust, Fences, Unsettled, stripe
  <2>2. CASE Crash(w)  BY <1>0, <2>2 DEF Crash, Orphan, Holds, Fences, Unsettled, stripe
  <2> QED  BY <2>1, <2>2
<1>2. /\ \A v \in Workers : ~Inside(v)'
  <2>1. \A v \in Workers \ {w} : ~Inside(v)  BY Alone
  <2> QED  BY <1>1, <2>1, QuitTyped DEF Inside, TypeOK
<1>3. FlightSane'
  BY <1>1, <1>2 DEF FlightSane, Unsettled, Open
<1>4. Newborn \subseteq Newborn'  BY <1>1, <1>2 DEF Newborn, Unsettled
<1>5. KnownSane'  BY <1>1, <1>4 DEF KnownSane
<1> QED  BY <1>1, <1>3, <1>5, QuitSane

\* No answer, or no certainty that it was saved: whatever was saved is true.
LEMMA LoseTrackSane ==
  ASSUME TypeOK, Sane, NEW w \in Workers, LoseTrack(w)
  PROVE  Sane'
<1> USE DEF Sane
<1>0. /\ at[w] \in {"await", "confirm"} /\ Inside(w) /\ job[w] \in Jobs /\ fence \in Fences
      /\ "unsure" \in Labels
  BY DEF LoseTrack, Inside, TypeOK, Labels
<1>1. InsideSane(w) /\ Holds(w) /\ \A v \in Workers \ {w} : ~Inside(v)
  BY <1>0, Alone
<1>2. /\ at'[w] = "unsure" /\ job'[w] = job[w]
      /\ \A v \in Workers \ {w} : at'[v] = at[v] /\ job'[v] = job[v]
  BY <1>0, GoTyped DEF LoseTrack, TypeOK
<1>3. UNCHANGED <<user, customers, checkout, flight>>  BY DEF LoseTrack, stripe
<1>4. /\ fence'.phase = fence.phase /\ fence'.owner = fence.owner /\ fence'.review = fence.review
      /\ fence'.mutation.call = fence.mutation.call
      /\ \/ fence' = fence
         \/ /\ at[w] = "confirm" /\ job[w].call.kind = "customer.create"
            /\ fence'.customers = fence.customers \cup {job[w].call.target}
  <2>1. CASE UNCHANGED fence  BY <2>1
  <2>2. CASE /\ at[w] = "confirm" /\ job[w].call.kind = "customer.create"
             /\ fence' = [fence EXCEPT !.mutation.status = "confirmed", !.customers = @ \cup {job[w].call.target}]
    BY <1>0, <2>2 DEF Fences
  <2> QED  BY <2>1, <2>2 DEF LoseTrack
<1>5. job[w].call = fence.mutation.call /\ job[w].call # NoCall /\ user.exists
  BY <1>0, <1>1 DEF InsideSane
<1>6. WorkerSane(w)'
  BY <1>1, <1>2, <1>3, <1>4, <1>5 DEF WorkerSane, Inside, InsideSane, Holds
<1>7. CASE fence' = fence
  <2>1. FlightSane'
    BY <1>1, <1>2, <1>3, <1>7 DEF FlightSane, Inside, Open
  <2>2. Newborn \subseteq Newborn'  BY <1>1, <1>2, <1>7 DEF Newborn, Inside
  <2>3. KnownSane'  BY <1>3, <1>7, <2>2 DEF KnownSane
  <2> QED  BY <1>0, <1>1, <1>2, <1>4, <1>6, <2>1, <2>3, InsideStep DEF Holds
<1>8. CASE /\ at[w] = "confirm" /\ job[w].call.kind = "customer.create"
           /\ fence'.customers = fence.customers \cup {job[w].call.target}
  <2>1. flight = {} /\ job[w].call.target \in customers
    BY <1>0, <1>1, <1>8, NothingUnderWay DEF InsideSane
  <2>2. Newborn \subseteq {job[w].call.target}  BY <1>5 DEF Newborn
  <2>3. FlightSane' /\ KnownSane'
    BY <1>3, <1>4, <1>8, <2>1, <2>2 DEF FlightSane, KnownSane
  <2> QED  BY <1>0, <1>1, <1>2, <1>4, <1>6, <2>3, InsideStep DEF Holds
<1> QED  BY <1>4, <1>7, <1>8

\* A request before the fence comes, waits, gives up or crashes.
LEMMA BeforeSane ==
  ASSUME TypeOK, Sane, NEW w \in Workers, ~Inside(w), Arrive(w) \/ GiveUp(w) \/ Crash(w)
  PROVE  Sane'
<1> USE DEF Sane
<1>0. fence \in Fences /\ NoJob \in Jobs /\ "waiting" \in Labels /\ ~Holds(w) /\ job[w] = NoJob
  BY NoJobTyped DEF TypeOK, Labels, WorkerSane
<1>1. /\ UNCHANGED <<user, customers, checkout, flight>>
      /\ fence'.phase = fence.phase /\ fence'.owner = fence.owner /\ fence'.customers = fence.customers
      /\ fence'.mutation = fence.mutation /\ fence'.review = fence.review
  <2>1. CASE Arrive(w)  BY <1>0, <2>1 DEF Arrive, Fences, stripe
  <2>2. CASE GiveUp(w)  BY <1>0, <2>2 DEF GiveUp, stripe
  <2>3. CASE Crash(w)
    <3>1. fence.owner # w  BY <1>0 DEF Holds, Fences, Nobody
    <3> QED  BY <2>3, <3>1 DEF Crash, Orphan, stripe
  <2> QED  BY <2>1, <2>2, <2>3
<1>2. /\ at'[w] \in {"idle", "waiting"} /\ job'[w] = NoJob
      /\ \A v \in Workers \ {w} : at'[v] = at[v] /\ job'[v] = job[v]
  <2>1. CASE Arrive(w)  BY <1>0, <2>1, GoTyped DEF Arrive, TypeOK
  <2>2. CASE GiveUp(w) \/ Crash(w)  BY <2>2, QuitTyped DEF GiveUp, Crash, TypeOK
  <2> QED  BY <2>1, <2>2
<1>3. \A v \in Workers : Inside(v)' => Inside(v) /\ at'[v] = at[v]  BY <1>2 DEF Inside
<1>4. FlightSane'  BY <1>1, <1>3 DEF FlightSane, Unsettled, Open
<1>5. Newborn \subseteq Newborn'  BY <1>1, <1>3 DEF Newborn, Unsettled
<1>6. KnownSane'  BY <1>1, <1>5 DEF KnownSane
<1>7. WorkerSane(w)'  BY <1>0, <1>1, <1>2 DEF WorkerSane, Inside, Holds
<1>8. \A v \in Workers \ {w} : WorkerSane(v)'  BY <1>1, <1>2, Untouched
<1> QED  BY <1>4, <1>6, <1>7, <1>8

\* The fence is taken over from nobody: nothing was under way.
LEMMA AcquireSane ==
  ASSUME TypeOK, ProviderSane, Sane, NEW w \in Workers,
         NEW op \in Operations, NEW e \in Events \cup {NoEvent}, Acquire(w, op, e),
         op = "webhook" => e \in pending, op # "webhook" => e = NoEvent
  PROVE  Sane'
<1> USE DEF Sane
<1>0. fence \in Fences /\ NoJob \in Jobs /\ fence.phase = "idle"
  BY NoJobTyped DEF TypeOK, Acquire
<1>1. \A v \in Workers : ~Inside(v) /\ job[v] = NoJob  BY <1>0, NobodyInside
<1>2. flight = {} /\ Newborn = {}  BY <1>0 DEF FlightSane, Newborn
<1>3. /\ fence'.phase = "working" /\ fence'.owner = w /\ fence'.customers = fence.customers
      /\ fence'.review = fence.review
      /\ UNCHANGED <<user, customers, checkout, flight>>
  BY <1>0 DEF Acquire, Fences, stripe
<1>4. FlightSane' /\ KnownSane'  BY <1>0, <1>2, <1>3 DEF FlightSane, KnownSane
<1> DEFINE context == [NoJob EXCEPT !.op = op, !.event = e, !.known = fence.customers,
                                    !.review = fence.review, !.unsettled = Unsettled(fence)]
           over == [NoJob EXCEPT !.event = e, !.ok = op \notin {"checkout", "cancel"}]
<1>5. /\ context \in Jobs /\ context.event = e /\ context.known = fence.customers
      /\ context.review = fence.review /\ context.op = op
  <2>1. fence.customers \subseteq Customers /\ fence.review \in BOOLEAN  BY <1>0, FenceFields
  <2>2. Unsettled(fence) \in BOOLEAN  BY DEF Unsettled
  <2> QED  BY <2>1, <2>2 DEF NoJob, Jobs
<1>6. over \in Jobs /\ over.event = e  BY DEF NoJob, Jobs
<1>7. e # NoEvent => checkout[e.sub].page # "none"  BY DEF ProviderSane
<1>8. CASE user.exists /\ Go(w, First[op], context)
  <2> HIDE DEF context
  <2>1. /\ First[op] \in {"customer", "cancel", "settle", "track"}
        /\ First[op] = "track" => e # NoEvent
        /\ First[op] = "settle" => op # "checkout"
    BY DEF First, Operations, Events, NoEvent, ProviderSane, TypeOK
  <2>2. First[op] \in Labels  BY <2>1 DEF Labels
  <2>3. /\ at'[w] = First[op] /\ job'[w] = context
        /\ \A v \in Workers \ {w} : at'[v] = at[v] /\ job'[v] = job[v]
    BY <1>5, <1>8, <2>2, GoTyped DEF TypeOK
  <2>4. WorkerSane(w)'
    BY <1>3, <1>5, <1>7, <1>8, <2>1, <2>3 DEF WorkerSane, Inside, InsideSane, Holds
  <2>5. \A v \in Workers \ {w} : WorkerSane(v)'  BY <1>1, <1>3, <2>3, StaysOutside
  <2> QED  BY <1>4, <2>4, <2>5
<1>9. CASE Go(w, "release", over)
  <2> HIDE DEF over
  <2>1. "release" \in Labels  BY DEF Labels
  <2>2. /\ at'[w] = "release" /\ job'[w] = over
        /\ \A v \in Workers \ {w} : at'[v] = at[v] /\ job'[v] = job[v]
    BY <1>6, <1>9, <2>1, GoTyped DEF TypeOK
  <2>3. WorkerSane(w)'
    BY <1>3, <1>6, <1>7, <2>2 DEF WorkerSane, Inside, InsideSane, Holds
  <2>4. \A v \in Workers \ {w} : WorkerSane(v)'  BY <1>1, <1>3, <2>2, StaysOutside
  <2> QED  BY <1>4, <2>3, <2>4
<1> QED  BY <1>8, <1>9 DEF Acquire
\* The answer finds its request, or nobody: the call is no longer under way,
\* and a customer it created is the one the shut fence records.
LEMMA AnswerSane ==
  ASSUME TypeOK, ProviderSane, Sane, NEW c \in flight, CarryOut(c) \/ Lose(c)
  PROVE  Sane'
<1> USE DEF Sane
<1>0. /\ c \in Calls /\ checkout \in [Checkouts -> Pages] /\ fence \in Fences
      /\ at \in [Workers -> Labels] /\ \A v \in Workers : job[v] \in Jobs
  BY DEF TypeOK
<1>1. /\ fence.phase = "working" /\ fence.mutation.call = c /\ Unsettled(fence)
      /\ \A v \in Workers : Inside(v) => at[v] \in {"await", "unsure"}
      /\ c.kind = "customer.create" => customers = {}
  BY DEF FlightSane
<1>2. flight' = {} /\ UNCHANGED <<user, fence, job>>
  BY DEF FlightSane, CarryOut, Lose
<1>3. /\ customers' = customers \/ (customers = {} /\ customers' = {c.target} /\ CarryOut(c) /\ c.kind = "customer.create")
      /\ c.kind = "customer.create" /\ CarryOut(c) => customers' = {c.target}
  BY <1>0, <1>1 DEF CarryOut, Lose, Calls
<1>4. \A s \in Checkouts : checkout[s].page # "none" => checkout'[s].page # "none"
  <2>1. CASE Lose(c)  BY <2>1 DEF Lose
  <2>2. CASE CarryOut(c) /\ c.kind = "customer.create"  BY <2>2 DEF CarryOut
  <2>3. CASE CarryOut(c) /\ c.kind = "checkout.create"
    BY <1>0, <2>3 DEF CarryOut, Put, Calls
  <2>4. CASE CarryOut(c) /\ c.kind = "subscription.cancel"
    BY <1>0, <2>4 DEF CarryOut, Calls, Pages
  <2> QED  BY <1>0, <2>1, <2>2, <2>3, <2>4 DEF Calls
<1>5. PICK label \in {"confirm", "unsure"} :
        /\ Answer(c, label)
        /\ label = "confirm" => CarryOut(c)
  BY DEF CarryOut, Lose
<1>6. \A v \in Workers : \/ at[v] # "await" /\ at'[v] = at[v]
                         \/ at[v] = "await" /\ job[v].call = c /\ at'[v] = label
  <2> SUFFICES ASSUME NEW v \in Workers
               PROVE  \/ at[v] # "await" /\ at'[v] = at[v]
                      \/ at[v] = "await" /\ job[v].call = c /\ at'[v] = label
    OBVIOUS
  <2>1. at[v] = "await" => job[v].call = c
    BY <1>1 DEF WorkerSane, Inside, InsideSane
  <2>2. at'[v] = IF at[v] = "await" /\ job[v].call = c THEN label ELSE at[v]
    BY <1>5 DEF Answer
  <2> QED  BY <2>1, <2>2
<1>7. FlightSane'  BY <1>2 DEF FlightSane
<1>8. KnownSane'
  <2>1. ~fence.review => customers' \subseteq fence.customers \cup Newborn'
    <3>1. CASE CarryOut(c) /\ c.kind = "customer.create"
      <4>1. c.target \in Customers  BY <1>0, <3>1 DEF Calls
      <4>2. label = "confirm" \/ label = "unsure"  OBVIOUS
      <4>3. \A v \in Workers : Inside(v)' => at'[v] \in {"confirm", "unsure"}
        BY <1>1, <1>6 DEF Inside
      <4>4. c.target \in Newborn'  BY <1>1, <1>2, <3>1, <4>1, <4>3 DEF Newborn, Unsettled
      <4> QED  BY <1>3, <3>1, <4>4
    <3>2. CASE customers' = customers
      <4>1. Newborn \subseteq Newborn'
        BY <1>1, <1>2, <1>6 DEF Newborn, Unsettled, Inside
      <4> QED  BY <1>1, <3>2, <4>1 DEF KnownSane
    <3> QED  BY <1>3, <3>1, <3>2
  <2>2. fence.customers \subseteq customers'  BY <1>3 DEF KnownSane
  <2> QED  BY <1>2, <2>1, <2>2 DEF KnownSane
<1>9. ASSUME NEW v \in Workers PROVE WorkerSane(v)'
  <2>1. CASE ~Inside(v)  BY <1>2, <1>6, <2>1 DEF WorkerSane, Inside, Holds
  <2>2. CASE Inside(v)
    <3>1. at[v] \in {"await", "unsure"} /\ InsideSane(v)  BY <1>1, <2>2 DEF WorkerSane
    <3>2. at'[v] \in {"confirm", "unsure"} /\ (at'[v] = "confirm" => CarryOut(c) /\ at[v] = "await")
      BY <1>5, <1>6, <3>1
    <3>3. job[v].event # NoEvent => job[v].event.sub \in Checkouts
      BY <1>0 DEF Jobs, Events
    <3>4. job[v].call = fence.mutation.call /\ job[v].call # NoCall /\ user.exists
      BY <3>1 DEF InsideSane
    <3>5. InsideSane(v)'
      BY <1>1, <1>2, <1>3, <1>4, <3>1, <3>2, <3>3, <3>4 DEF InsideSane, Holds
    <3> QED  BY <3>2, <3>5 DEF WorkerSane, Inside
  <2> QED  BY <2>1, <2>2
<1> QED  BY <1>7, <1>8, <1>9

\* What the user does with a page, and what becomes of a subscription, leaves
\* standing what was found out behind the fence.
LEMMA PagesSane ==
  ASSUME TypeOK, ProviderSane, Sane, NEW s \in Checkouts,
         Pay(s) \/ Expire(s) \/ Decline(s) \/ Recover(s) \/ Lapse(s)
  PROVE  Sane'
<1> USE DEF Sane
<1>1. /\ UNCHANGED <<user, local, fence, customers, flight, at, job, faults>>
      /\ \A t \in Checkouts : /\ Open(t)' => Open(t)
                              /\ (Open(t) \/ Live(t))' => Open(t) \/ Live(t)
                              /\ checkout'[t].page # "none" <=> checkout[t].page # "none"
  BY PagesProvider
<1>2. FlightSane'  BY <1>1 DEF FlightSane, Unsettled, Inside
<1>3. KnownSane'  BY <1>1 DEF KnownSane, Newborn, Unsettled, Inside
<1>4. ASSUME NEW v \in Workers PROVE WorkerSane(v)'
  <2>1. job[v].event # NoEvent => job[v].event.sub \in Checkouts
    BY DEF TypeOK, Jobs, Events
  <2> QED  BY <1>1, <2>1 DEF WorkerSane, Inside, InsideSane, Holds
<1> QED  BY <1>2, <1>3, <1>4

\* A review is applied when nobody is behind the fence and nothing under way.
LEMMA ReviewSane ==
  ASSUME TypeOK, Sane, Review
  PROVE  Sane'
<1> USE DEF Sane
<1>0. fence \in Fences /\ (fence.phase = "idle" \/ fence.owner = Gone)
  BY DEF Review, TypeOK, Fences
<1>1. flight = {}  BY DEF Review, FlightSane
<1>2. Gone \notin Workers /\ Nobody \notin Workers  BY DEF Gone, Nobody
<1>3. \A v \in Workers : ~Inside(v)  BY <1>0, <1>2, NobodyInside
<1>4. /\ UNCHANGED <<user, local, stripe, at, job, faults>>
      /\ fence'.owner = Nobody /\ fence'.customers = customers
  BY <1>0 DEF Review, Reviewed, Fences
<1>5. \A v \in Workers : WorkerSane(v)'  BY <1>2, <1>3, <1>4, StaysOutside
<1>6. FlightSane' /\ KnownSane'  BY <1>1, <1>4 DEF FlightSane, KnownSane, stripe
<1> QED  BY <1>5, <1>6
-----------------------------------------------------------------------------
(***************************************************************************)
(* The invariant is inductive.                                             *)
(***************************************************************************)
\* A new account, or an old one that is due for a review, satisfies it.
LEMMA InitInvariant == Init => IInv
<1> SUFFICES ASSUME Init PROVE IInv  OBVIOUS
<1>0. PICK review, subscribed, linked \in BOOLEAN :
        /\ linked => subscribed
        /\ subscribed => review
        /\ fence = [phase |-> "idle", owner |-> Nobody, request |-> "none", review |-> review,
                    customers |-> IF linked THEN {1} ELSE {}, mutation |-> NoMutation]
        /\ History(subscribed, linked)
  BY DEF Init
<1>1. 1 \in Customers /\ 1 \in Checkouts  BY DEF Customers, Checkouts
<1>2. /\ flight = {} /\ pending = {} /\ faults = 0
      /\ at = [w \in Workers |-> "idle"] /\ job = [w \in Workers |-> NoJob]
  BY DEF Init
<1> DEFINE paid == [page |-> "complete", customer |-> 1, plan |-> "active"]
<1>3. /\ customers = (IF subscribed THEN {1} ELSE {})
      /\ checkout = [s \in Checkouts |-> IF subscribed /\ s = 1 THEN paid ELSE NoPage]
      /\ user = [exists |-> TRUE, vip |-> subscribed]
      /\ local \in {[kept |-> TRUE, customer |-> 1, sub |-> 1, status |-> "active"], NoLocal}
  BY <1>0 DEF History
<1>4. TypeOK
  <2>1. fence \in Fences  BY <1>0, <1>1 DEF Fences, NoMutation
  <2>2. checkout \in [Checkouts -> Pages]
    <3>1. paid \in Pages /\ NoPage \in Pages  BY <1>1 DEF Pages, NoPage
    <3> QED  BY <1>3, <3>1
  <2>a. NoLocal \in Locals  BY DEF Locals, NoLocal
  <2>b. [kept |-> TRUE, customer |-> 1, sub |-> 1, status |-> "active"] \in Locals  BY <1>1 DEF Locals
  <2>3. local \in Locals  BY <1>3, <2>a, <2>b
  <2>4. at \in [Workers -> Labels] /\ job \in [Workers -> Jobs]
    BY <1>2, NoJobTyped DEF Labels
  <2>5. user \in [exists : BOOLEAN, vip : BOOLEAN]  BY <1>3
  <2> QED  BY <1>1, <1>2, <1>3, <2>1, <2>2, <2>3, <2>4, <2>5 DEF TypeOK
<1>5. ProviderSane  BY <1>2, <1>3 DEF ProviderSane, Open, NoPage
<1>6. FlightSane  BY <1>2 DEF FlightSane
<1>7. KnownSane  BY <1>0, <1>3 DEF KnownSane
<1>8. \A w \in Workers : WorkerSane(w)
  BY <1>0, <1>2 DEF WorkerSane, Inside, Holds
<1> QED  BY <1>4, <1>5, <1>6, <1>7, <1>8 DEF IInv

\* Every step keeps it.
LEMMA NextInvariant == IInv /\ [Next]_vars => IInv'
<1> SUFFICES ASSUME IInv, [Next]_vars PROVE IInv'  OBVIOUS
<1> USE DEF IInv
<1>0. Sane  BY DEF Sane
<1>1. ASSUME NEW w \in Workers, Arrive(w) \/ GiveUp(w) \/ Crash(w), ~Inside(w) PROVE IInv'
  BY <1>0, <1>1, FencingTyped, OnlyStripeChangesStripe, ProviderStays, BeforeSane DEF Sane
<1>2. ASSUME NEW w \in Workers, Crash(w) \/ Distrust(w), Inside(w) PROVE IInv'
  <2>1. UNCHANGED <<customers, checkout>> /\ pending' \subseteq pending
    BY <1>2, OnlyStripeChangesStripe DEF Callback
  <2> QED  BY <1>0, <1>2, <2>1, FencingTyped, ProviderStays, AbandonSane DEF Sane
<1>3. ASSUME NEW w \in Workers, Arrive(w) \/ GiveUp(w), Inside(w) PROVE IInv'
  BY <1>3 DEF Arrive, GiveUp, Inside
<1>4. ASSUME NEW w \in Workers, LoseTrack(w) \/ Fail(w) PROVE IInv'
  BY <1>0, <1>4, FencingTyped, OnlyStripeChangesStripe, ProviderStays, LoseTrackSane, EndingsSane DEF Sane
<1>5. ASSUME NEW w \in Workers, NEW op \in Operations, NEW e \in Events \cup {NoEvent},
             Acquire(w, op, e), op = "webhook" => e \in pending, op # "webhook" => e = NoEvent
      PROVE  IInv'
  BY <1>0, <1>5, FencingTyped, OnlyStripeChangesStripe, ProviderStays, AcquireSane DEF Sane
<1>6. ASSUME NEW w \in Workers, Begin(w) PROVE IInv'
  BY <1>5, <1>6 DEF Begin
<1>7. ASSUME NEW w \in Workers, NEW e \in pending, Deliver(w, e) PROVE IInv'
  <2>1. e \in Events /\ "webhook" \in Operations  BY DEF TypeOK, Operations
  <2> QED  BY <1>5, <1>7, <2>1 DEF Deliver
<1>8. ASSUME NEW w \in Workers, Callback(w) PROVE IInv'
  <2>1. UNCHANGED <<customers, checkout>> /\ pending' \subseteq pending
    BY <1>8, OnlyStripeChangesStripe
  <2>2. ProviderSane'  BY <2>1, ProviderStays
  <2>3. CASE Distrust(w)  BY <1>2, <2>3 DEF Distrust, Inside
  <2>4. CASE ChooseCustomer(w)  BY <1>0, <2>2, <2>4, CheckoutTyped, ChooseCustomerSane DEF Sane
  <2>5. CASE LinkCustomer(w) \/ SettleHistory(w) \/ ListPlans(w) \/ ListPages(w)
    BY <1>0, <2>2, <2>5, CheckoutTyped, ChecksSane DEF Sane
  <2>6. CASE OpenCheckout(w) \/ Cancel(w)
    BY <1>0, <2>2, <2>6, CheckoutTyped, SendersSane DEF Sane
  <2>7. CASE ReadBack(w)  BY <1>0, <2>2, <2>7, CheckoutTyped, PathsSane DEF Sane
  <2>8. CASE Revoke(w)  BY <1>0, <2>2, <2>8, CheckoutTyped, EndingsSane DEF Sane
  <2>9. CASE Confirm(w)  BY <1>0, <2>2, <2>9, HandlersTyped, ConfirmSane DEF Sane
  <2>10. CASE Erase(w) \/ Bury(w) \/ Grant(w)
    BY <1>0, <2>2, <2>10, HandlersTyped, EndingsSane DEF Sane
  <2>11. CASE Purge(w) \/ TrackCustomer(w) \/ Fetch(w) \/ Upsert(w)
    BY <1>0, <2>2, <2>11, HandlersTyped, PathsSane DEF Sane
  <2>12. CASE Release(w)  BY <1>0, <2>2, <2>12, FencingTyped, EndingsSane DEF Sane
  <2> QED
    BY <1>8, <2>3, <2>4, <2>5, <2>6, <2>7, <2>8, <2>9, <2>10, <2>11, <2>12 DEF Callback
<1>9. ASSUME NEW e \in pending, DeliverLate(e) PROVE IInv'
  <2>1. UNCHANGED <<user, local, fence, customers, checkout, flight, at, job, faults>> /\ pending' \subseteq pending
    BY <1>9 DEF DeliverLate
  <2>2. TypeOK'  BY <1>9, OutsideTyped
  <2>3. FlightSane' /\ KnownSane'
    BY <2>1 DEF FlightSane, KnownSane, Newborn, Unsettled, Inside, Open
  <2>4. \A v \in Workers : WorkerSane(v)'  BY <2>1, Untouched
  <2> QED  BY <2>1, <2>2, <2>3, <2>4, ProviderStays
<1>10. CASE Provider
  <2>1. TypeOK'  BY <1>10, OutsideTyped
  <2>2. ASSUME NEW c \in flight, CarryOut(c) PROVE IInv'
    BY <1>0, <2>1, <2>2, CarryOutProvider, AnswerSane DEF Sane
  <2>3. ASSUME NEW c \in flight, Lose(c) PROVE IInv'
    <3>1. UNCHANGED <<customers, checkout>> /\ pending' \subseteq pending  BY <2>3 DEF Lose
    <3> QED  BY <1>0, <2>1, <2>3, <3>1, ProviderStays, AnswerSane DEF Sane
  <2>4. ASSUME NEW s \in Checkouts, Pay(s) \/ Expire(s) \/ Decline(s) \/ Recover(s) \/ Lapse(s)
        PROVE  IInv'
    BY <1>0, <2>1, <2>4, PagesProvider, PagesSane DEF Sane
  <2> QED  BY <1>10, <2>2, <2>3, <2>4 DEF Provider
<1>11. CASE Review
  <2>1. UNCHANGED <<customers, checkout>> /\ pending' \subseteq pending  BY <1>11 DEF Review, stripe
  <2> QED  BY <1>0, <1>11, <2>1, OutsideTyped, ProviderStays, ReviewSane DEF Sane
<1>12. CASE UNCHANGED vars
  <2>1. UNCHANGED <<user, local, fence, customers, checkout, flight, pending, at, job, faults>>
    BY <1>12 DEF vars
  <2>2. TypeOK'  BY <2>1 DEF TypeOK
  <2>3. FlightSane' /\ KnownSane'
    BY <2>1 DEF FlightSane, KnownSane, Newborn, Unsettled, Inside, Open
  <2>4. \A v \in Workers : WorkerSane(v)'  BY <2>1, Untouched
  <2> QED  BY <2>1, <2>2, <2>3, <2>4, ProviderStays
<1>13. CASE Next
  <2>1. ASSUME NEW w \in Workers, Crash(w) PROVE IInv'  BY <1>1, <1>2, <2>1
  <2>2. ASSUME NEW w \in Workers, Arrive(w) \/ GiveUp(w) PROVE IInv'  BY <1>1, <1>3, <2>2
  <2> QED  BY <1>4, <1>6, <1>7, <1>8, <1>9, <1>10, <1>11, <1>13, <2>1, <2>2 DEF Next
<1> QED  BY <1>12, <1>13

\* The invariant of the lifecycle.
LEMMA Invariant == Spec => []IInv
  BY InitInvariant, NextInvariant, PTL DEF Spec
-----------------------------------------------------------------------------
(***************************************************************************)
(* The theorems about single states.                                       *)
(***************************************************************************)
\* The documents keep their shape, and a fence has an owner exactly while it
\* is shut, whatever crashes, fails or comes late (saveOwned).
THEOREM ShapesHold == Spec => []TypeOK
<1>1. IInv => TypeOK  BY DEF IInv
<1> QED  BY <1>1, Invariant, PTL

\* Whatever Stripe may still carry out is what the shut fence records.
THEOREM CallsAreFenced == Spec => []InFlightIsFenced
<1>1. IInv => InFlightIsFenced  BY DEF IInv, FlightSane, InFlightIsFenced
<1> QED  BY <1>1, Invariant, PTL

\* A set without two different members has at most one.
LEMMA AtMostOne ==
  ASSUME NEW S, \A x, y \in S : x = y
  PROVE  IsFiniteSet(S) /\ Cardinality(S) \in {0, 1} /\ (S = {} \/ \E x \in S : S = {x})
<1>1. CASE S = {}  BY <1>1, FS_EmptySet
<1>2. CASE S # {}
  <2>1. PICK x \in S : TRUE  BY <1>2
  <2>2. S = {x}  BY <2>1
  <2> QED  BY <2>2, FS_Singleton
<1> QED  BY <1>1, <1>2

\* No retry after a failure creates a second customer at Stripe.
THEOREM CustomersAreNotDuplicated == Spec => []OneCustomer
<1>1. IInv => OneCustomer
  <2> SUFFICES ASSUME IInv PROVE Cardinality(customers) <= 1  BY DEF OneCustomer
  <2>1. \A c, d \in customers : c = d  BY DEF IInv, ProviderSane
  <2> QED  BY <2>1, AtMostOne
<1> QED  BY <1>1, Invariant, PTL

\* An idle fence that asks for no review knows every customer at Stripe.
THEOREM CustomersAreKnown == Spec => []KnownCustomers
<1>1. IInv => KnownCustomers  BY DEF IInv, KnownSane, KnownCustomers, Newborn
<1> QED  BY <1>1, Invariant, PTL

\* At most one page can be paid, or is being created, at any time.
THEOREM OnePageAtATime == Spec => []OneOpenCheckout
<1>1. IInv => OneOpenCheckout
  <2> DEFINE pages == {s \in Checkouts : Open(s)}
             sent == {c \in flight : c.kind = "checkout.create"}
  <2> SUFFICES ASSUME IInv PROVE Cardinality(pages) + Cardinality(sent) <= 1
    BY DEF OneOpenCheckout
  <2>1. \A s, t \in pages : s = t  BY DEF IInv, ProviderSane
  <2>2. \A c, d \in sent : c = d  BY DEF IInv, FlightSane
  <2>3. sent # {} => pages = {}  BY DEF IInv, FlightSane
  <2>4. Cardinality(pages) \in {0, 1} /\ Cardinality(sent) \in {0, 1}
    BY <2>1, <2>2, AtMostOne
  <2>5. pages = {} => Cardinality(pages) = 0  BY FS_EmptySet
  <2>6. sent = {} => Cardinality(sent) = 0  BY FS_EmptySet
  <2> QED  BY <2>3, <2>4, <2>5, <2>6
<1> QED  BY <1>1, Invariant, PTL
-----------------------------------------------------------------------------
(***************************************************************************)
(* The theorems about steps.                                               *)
(***************************************************************************)
\* The local document is written by four handlers, and the user by four.
LEMMA Writers ==
  ASSUME [Next]_vars
  PROVE  /\ \/ UNCHANGED local
            \/ \E w \in Workers : LinkCustomer(w) \/ ReadBack(w) \/ Erase(w) \/ Upsert(w)
         /\ \/ UNCHANGED user
            \/ \E w \in Workers : Revoke(w) \/ Grant(w) \/ Erase(w) \/ Purge(w)
<1>1. ASSUME NEW w \in Workers, Callback(w)
      PROVE  /\ UNCHANGED local \/ LinkCustomer(w) \/ ReadBack(w) \/ Erase(w) \/ Upsert(w)
             /\ UNCHANGED user \/ Revoke(w) \/ Grant(w) \/ Erase(w) \/ Purge(w)
  <2>1. CASE Confirm(w) \/ Distrust(w) \/ LinkCustomer(w) \/ ReadBack(w) \/ Revoke(w) \/ Erase(w)
             \/ Purge(w) \/ Bury(w) \/ TrackCustomer(w) \/ Fetch(w) \/ Upsert(w) \/ Grant(w) \/ Release(w)
    BY <2>1 DEF Confirm, Distrust, LinkCustomer, ReadBack, Revoke, Purge, Bury,
                TrackCustomer, Fetch, Upsert, Grant, Release
  <2>2. CASE SettleHistory(w) \/ ListPlans(w) \/ ListPages(w)
    BY <2>2 DEF SettleHistory, ListPlans, ListPages, Refuse, AskReview, Pass
  <2>3. CASE ChooseCustomer(w) \/ OpenCheckout(w) \/ Cancel(w)
    BY <2>3 DEF ChooseCustomer, OpenCheckout, Cancel, Refuse, AskReview, Pass, Mutate
  <2> QED  BY <1>1, <2>1, <2>2, <2>3 DEF Callback
<1>2. ASSUME NEW w \in Workers,
             \/ Arrive(w) \/ Begin(w) \/ GiveUp(w) \/ Fail(w) \/ LoseTrack(w) \/ Crash(w)
             \/ \E e \in pending : Deliver(w, e)
      PROVE  UNCHANGED <<user, local>>
  BY <1>2 DEF Arrive, Begin, GiveUp, Fail, LoseTrack, Crash, Deliver, Acquire
<1>3. CASE Provider \/ Review \/ \E e \in pending : DeliverLate(e)
  BY <1>3 DEF Provider, Review, DeliverLate, CarryOut, Lose, Pay, Expire, Decline, Recover, Lapse, Turn
<1>4. CASE UNCHANGED vars  BY <1>4 DEF vars
<1> QED  BY <1>1, <1>2, <1>3, <1>4 DEF Next

\* Nothing is written for a user that is gone.
THEOREM GoneStaysGone == Spec => NoResurrection
<1>1. IInv /\ [Next]_vars => (~user.exists => local' = local)
  <2> SUFFICES ASSUME IInv, [Next]_vars, local' # local PROVE user.exists  OBVIOUS
  <2>1. PICK w \in Workers : LinkCustomer(w) \/ ReadBack(w) \/ Erase(w) \/ Upsert(w)
    BY Writers
  <2>2. at[w] \in {"link", "readback", "erase", "upsert"}
    BY <2>1 DEF LinkCustomer, ReadBack, Erase, Upsert
  <2> QED  BY <2>2 DEF IInv, WorkerSane, Inside, InsideSane
<1> QED  BY <1>1, Invariant, PTL DEF Spec, NoResurrection

\* An account is deleted only by a request that holds the fence, and that has
\* seen every page closed and every subscription ended but those paid since.
THEOREM DeletionsAreVerified == Spec => DeletionVerified
<1> DEFINE Verified ==
      user.exists /\ ~user'.exists =>
        \E w \in Workers :
          /\ at[w] \in {"erase", "purge"}
          /\ \A s \in Checkouts : ~Open(s) /\ (Live(s) => s \in job[w].opened)
<1>1. IInv /\ [Next]_vars => Verified
  <2> SUFFICES ASSUME IInv, [Next]_vars, user.exists, ~user'.exists
               PROVE  \E w \in Workers :
                        /\ at[w] \in {"erase", "purge"}
                        /\ \A s \in Checkouts : ~Open(s) /\ (Live(s) => s \in job[w].opened)
    OBVIOUS
  <2>1. PICK w \in Workers : Revoke(w) \/ Grant(w) \/ Erase(w) \/ Purge(w)
    BY Writers
  <2>2. Erase(w) \/ Purge(w)  BY <2>1 DEF Revoke, Grant, IInv, TypeOK
  <2>3. at[w] \in {"erase", "purge"}  BY <2>2 DEF Erase, Purge
  <2>4. \A s \in Checkouts : ~Open(s) /\ (Live(s) => s \in job[w].opened)
    BY <2>3 DEF IInv, WorkerSane, Inside, InsideSane
  <2> QED  BY <2>3, <2>4
<1>2. Spec => [][Verified]_vars  BY <1>1, Invariant, PTL DEF Spec
<1> QED  BY <1>2 DEF DeletionVerified
-----------------------------------------------------------------------------
(***************************************************************************)
(* The refinement.                                                         *)
(***************************************************************************)
\* The door of ProviderFence changes with the phase alone.
LEMMA DoorIsPhase ==
  ASSUME IInv, IInv'
  PROVE  /\ Door = "open" <=> fence.phase = "idle"
         /\ Door = "shut" <=> fence.phase = "working"
         /\ Door = "gone" <=> fence.phase = "deleted"
         /\ Door' = "open" <=> fence'.phase = "idle"
         /\ Door' = "shut" <=> fence'.phase = "working"
         /\ Door' = "gone" <=> fence'.phase = "deleted"
         /\ fence'.phase = fence.phase => Door' = Door
<1>1. /\ fence.phase \in {"idle", "working", "deleted"}
      /\ fence'.phase \in {"idle", "working", "deleted"}
  BY DEF IInv, TypeOK, Fences
<1> QED  BY <1>1 DEF Door

\* The steps that touch neither the fence's phase nor the calls under way.
LEMMA Aside ==
  ASSUME IInv, NEW w \in Workers,
         \/ Arrive(w) \/ GiveUp(w) \/ Fail(w) \/ LoseTrack(w) \/ Crash(w)
         \/ Confirm(w) \/ Distrust(w) \/ LinkCustomer(w) \/ SettleHistory(w) \/ ListPlans(w)
         \/ ListPages(w) \/ ReadBack(w) \/ Revoke(w) \/ Purge(w) \/ TrackCustomer(w) \/ Fetch(w)
         \/ Upsert(w) \/ Grant(w) \/ Refuse(w) \/ AskReview(w) \/ \E label \in Labels, j \in Jobs : Pass(w, label, j)
  PROVE  flight' = flight /\ fence'.phase = fence.phase
<1>0. fence \in Fences  BY DEF IInv, TypeOK
<1>1. CASE Arrive(w) \/ LoseTrack(w) \/ Confirm(w) \/ Distrust(w) \/ TrackCustomer(w) \/ AskReview(w)
  <2>1. flight' = flight
    BY <1>1 DEF Arrive, LoseTrack, Confirm, Distrust, TrackCustomer, AskReview, stripe
  <2>2. CASE Arrive(w)  BY <1>0, <2>1, <2>2 DEF Arrive, Fences
  <2>3. CASE LoseTrack(w)
    <3>1. \/ UNCHANGED fence
          \/ fence' = [fence EXCEPT !.mutation.status = "confirmed", !.customers = @ \cup {job[w].call.target}]
      BY <2>3 DEF LoseTrack
    <3> QED  BY <1>0, <2>1, <3>1 DEF Fences
  <2>4. CASE Confirm(w)
    <3>1. \E c : fence' = [fence EXCEPT !.mutation.status = "confirmed", !.customers = @ \cup c]
      BY <2>4 DEF Confirm
    <3> QED  BY <1>0, <2>1, <3>1 DEF Fences
  <2>5. CASE Distrust(w)  BY <1>0, <2>1, <2>5 DEF Distrust, Fences
  <2>6. CASE TrackCustomer(w)  BY <1>0, <2>1, <2>6 DEF TrackCustomer, Fences
  <2>7. CASE AskReview(w)  BY <1>0, <2>1, <2>7 DEF AskReview, Fences
  <2> QED  BY <1>1, <2>1, <2>2, <2>3, <2>4, <2>5, <2>6, <2>7
<1>2. CASE Crash(w)  BY <1>0, <1>2 DEF Crash, Orphan, Fences, stripe
<1>3. CASE SettleHistory(w) \/ ListPlans(w) \/ ListPages(w)
  BY <1>0, <1>3 DEF SettleHistory, ListPlans, ListPages, Refuse, AskReview, Pass, Fences, stripe
<1>4. CASE \/ GiveUp(w) \/ Fail(w) \/ LinkCustomer(w) \/ ReadBack(w) \/ Revoke(w) \/ Purge(w)
           \/ Fetch(w) \/ Upsert(w) \/ Grant(w) \/ Refuse(w)
  BY <1>4 DEF GiveUp, Fail, LinkCustomer, ReadBack, Revoke, Purge, Fetch, Upsert, Grant, Refuse, stripe
<1>5. CASE \E label \in Labels, j \in Jobs : Pass(w, label, j)
  BY <1>5 DEF Pass, stripe
<1> QED  BY <1>1, <1>2, <1>3, <1>4, <1>5

\* mutate sends one call, while nothing is under way and the door is shut.
LEMMA MutateSends ==
  ASSUME IInv, IInv', NEW w \in Workers, at[w] \in {"customer", "open", "cancel"},
         NEW call, Mutate(w, call)
  PROVE  [Promise!Next]_<<Door, flight>>
<1>1. Inside(w)  BY DEF Inside
<1>2. flight = {} /\ Holds(w)
  BY <1>1, Alone, NothingUnderWay DEF IInv
<1>3. fence'.phase = fence.phase  BY DEF Mutate, IInv, TypeOK, Fences
<1>4. Door = "shut" /\ Door' = Door  BY <1>2, <1>3, DoorIsPhase DEF Holds
<1>5. CASE flight' = flight \cup {call}
  <2>1. call \in Calls  BY <1>5 DEF IInv, TypeOK
  <2>2. Promise!Send(call)  BY <1>2, <1>4, <1>5 DEF Promise!Send
  <2> QED  BY <2>1, <2>2 DEF Promise!Next
<1>6. CASE UNCHANGED flight  BY <1>4, <1>6
<1> QED  BY <1>5, <1>6 DEF Mutate
\* Every step is a step of the promised fence, or is not seen at its door.
LEMMA FenceSteps ==
  ASSUME IInv, IInv', [Next]_vars
  PROVE  [Promise!Next]_<<Door, flight>>
<1>1. ASSUME flight' = flight, fence'.phase = fence.phase PROVE [Promise!Next]_<<Door, flight>>
  BY <1>1, DoorIsPhase
<1>2. ASSUME NEW w \in Workers, NEW op, NEW e, Acquire(w, op, e) PROVE [Promise!Next]_<<Door, flight>>
  <2>1. fence.phase = "idle" /\ fence'.phase = "working" /\ flight' = flight
    BY <1>2 DEF Acquire, stripe, IInv, TypeOK, Fences
  <2>2. Promise!Shut  BY <2>1, DoorIsPhase DEF Promise!Shut
  <2> QED  BY <2>2 DEF Promise!Next
<1>3. ASSUME NEW w \in Workers, Release(w) \/ Erase(w) \/ Bury(w) PROVE [Promise!Next]_<<Door, flight>>
  <2>1. at[w] \in {"release", "erase", "bury"} /\ Inside(w)
    BY <1>3 DEF Release, Erase, Bury, Inside
  <2>2. Holds(w) /\ flight = {} /\ flight' = flight
    BY <1>3, <2>1, Alone, NothingUnderWay DEF IInv, Release, Erase, Bury, stripe
  <2>3. fence'.phase \in {"idle", "deleted"}
    <3>1. CASE Release(w)  BY <3>1 DEF Release, IInv, TypeOK, Fences
    <3>2. CASE Erase(w) \/ Bury(w)  BY <3>2 DEF Erase, Bury, Tombstone
    <3> QED  BY <1>3, <3>1, <3>2
  <2>4. Door = "shut" /\ Door' \in {"open", "gone"}
    BY <2>2, <2>3, DoorIsPhase DEF Holds
  <2>5. Promise!Leave(Door')  BY <2>2, <2>4 DEF Promise!Leave
  <2> QED  BY <2>4, <2>5 DEF Promise!Next
<1>4. ASSUME NEW w \in Workers, Callback(w) PROVE [Promise!Next]_<<Door, flight>>
  <2>1. CASE Release(w) \/ Erase(w) \/ Bury(w)  BY <1>3, <2>1
  <2>2. CASE ChooseCustomer(w)
    <3>1. \/ Refuse(w) \/ AskReview(w)
          \/ \E c \in job[w].known : Pass(w, "link", [job[w] EXCEPT !.customer = c])
          \/ \E call : Mutate(w, call)
      BY <2>2 DEF ChooseCustomer
    <3>2. ASSUME NEW c \in job[w].known, Pass(w, "link", [job[w] EXCEPT !.customer = c])
          PROVE  [Promise!Next]_<<Door, flight>>
      BY <1>1, <3>2 DEF Pass, stripe
    <3>3. at[w] = "customer"  BY <2>2 DEF ChooseCustomer
    <3> QED  BY <1>1, <3>1, <3>2, <3>3, Aside, MutateSends
  <2>3. CASE OpenCheckout(w)
    <3>1. at[w] = "open" /\ \E call : Mutate(w, call)  BY <2>3 DEF OpenCheckout
    <3> QED  BY <3>1, MutateSends
  <2>4. CASE Cancel(w)
    <3>1. /\ at[w] = "cancel"
          /\ Refuse(w) \/ AskReview(w) \/ Pass(w, "readback", job[w]) \/ \E call : Mutate(w, call)
      BY <2>4 DEF Cancel
    <3>2. job[w] \in Jobs /\ "readback" \in Labels  BY DEF IInv, TypeOK, Labels
    <3> QED  BY <1>1, <3>1, <3>2, Aside, MutateSends
  <2> QED  BY <1>1, <1>4, <2>1, <2>2, <2>3, <2>4, Aside DEF Callback
<1>5. ASSUME NEW c \in flight, CarryOut(c) \/ Lose(c) PROVE [Promise!Next]_<<Door, flight>>
  <2>1. flight' = flight \ {c} /\ UNCHANGED fence  BY <1>5 DEF CarryOut, Lose
  <2>2. c \in Calls  BY DEF IInv, TypeOK
  <2>3. Promise!Settle(c)  BY <2>1, DoorIsPhase DEF Promise!Settle
  <2> QED  BY <2>2, <2>3 DEF Promise!Next
<1>6. ASSUME NEW s \in Checkouts, Pay(s) \/ Expire(s) \/ Decline(s) \/ Recover(s) \/ Lapse(s)
      PROVE  [Promise!Next]_<<Door, flight>>
  BY <1>1, <1>6 DEF Pay, Expire, Decline, Recover, Lapse, Turn
<1>7. CASE Review
  <2>1. fence'.phase = "idle" /\ flight' = flight /\ fence.phase \in {"idle", "working"}
    BY <1>7 DEF Review, Reviewed, stripe, IInv, TypeOK, Fences
  <2>2. CASE fence.phase = "idle"  BY <1>1, <2>1, <2>2
  <2>3. CASE fence.phase = "working"
    <3>1. flight = {}  BY <1>7 DEF Review, IInv, FlightSane
    <3>2. Door = "shut" /\ Door' = "open"  BY <2>1, <2>3, DoorIsPhase
    <3>3. Promise!Leave("open")  BY <2>1, <3>1, <3>2 DEF Promise!Leave
    <3> QED  BY <3>3 DEF Promise!Next
  <2> QED  BY <2>1, <2>2, <2>3
<1>8. ASSUME NEW w \in Workers, Arrive(w) \/ GiveUp(w) \/ Fail(w) \/ LoseTrack(w) \/ Crash(w)
      PROVE  [Promise!Next]_<<Door, flight>>
  BY <1>1, <1>8, Aside
<1>9. ASSUME NEW e \in pending, DeliverLate(e) PROVE [Promise!Next]_<<Door, flight>>
  BY <1>1, <1>9 DEF DeliverLate
<1>10. CASE UNCHANGED vars  BY <1>1, <1>10 DEF vars
<1>11. ASSUME NEW w \in Workers, Begin(w) \/ \E e \in pending : Deliver(w, e)
       PROVE  [Promise!Next]_<<Door, flight>>
  BY <1>2, <1>11 DEF Begin, Deliver
<1>12. CASE Provider  BY <1>5, <1>6, <1>12 DEF Provider
<1> QED  BY <1>4, <1>7, <1>8, <1>9, <1>10, <1>11, <1>12 DEF Next

\* The lifecycle implements ProviderFence: the calls to Stripe go out one at a
\* time through a shut door, and the door opens only when none is under way.
THEOREM FenceImplemented == Spec => ImplementsFence
<1>1. Init => Promise!Init  BY DEF Init, Promise!Init, Door
<1>2. IInv /\ IInv' /\ [Next]_vars => [Promise!Next]_<<Door, flight>>  BY FenceSteps
<1> QED  BY <1>1, <1>2, Invariant, PTL DEF Spec, ImplementsFence, Promise!Spec
=============================================================================
