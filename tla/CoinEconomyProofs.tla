------------------------- MODULE CoinEconomyProofs --------------------------
(***************************************************************************)
(* Theorems about CoinEconomy, for any number of users, purchases, rewards *)
(* and requests.  The inductive invariant IInv says what a request that    *)
(* can still commit knows (Fresh), that no two such requests write the     *)
(* same document (Apart), what the records of the purchases may say        *)
(* (BooksSane), and who holds the claim of a reward (ClaimsSane).          *)
(***************************************************************************)
EXTENDS CoinEconomy, FiniteSums, TLAPS

USE PriceAssumption, UserAssumption, NameAssumption

\* What a request is about.
Asked(j) ==
  /\ j.user \in Users
  /\ \/ j.op = "purchase" /\ j.item \in Purchases /\ j.user = Owner[j.item]
     \/ j.op = "gift"
     \/ j.op = "access" /\ j.item \in Paywalls
     \/ j.op = "reward" /\ j.item \in Rewards

\* A request j at label l: what it is about, and what became of its commit.
Sane(l, j) ==
  /\ l \in {"begin", "write", "sent", "unheard", "orphan"} => Asked(j)
  /\ l \in {"claim", "putback"} => Asked(j) /\ j.op = "reward"
  /\ l = "bonus" => j.op = "reward" /\ j.user \in Users
  /\ l \in {"idle", "consume"} => j.op = "none"
  /\ l = "consume" => /\ j.item \in Purchases /\ store[j.item] = "google"
                      /\ record[j.item].status = "completed"
  /\ l = "unheard" => j.op = "purchase"
  /\ l = "orphan" => j.commit = "sent"
  /\ l = "sent" => j.commit \in {"sent", "applied"}
  /\ j.commit = "sent" => l \in {"sent", "unheard", "orphan"}
  /\ j.commit = "applied" => l \in {"sent", "unheard"}
  /\ j.stale => l = "write"

\* A request whose transaction can be committed decided on what is there.
Current(j) ==
  /\ j.delta # 0 => j.base = coins[j.user]
  /\ j.base + j.delta \in 0..Cap
  /\ j.op = "purchase" => record[j.item].status # "completed" /\ j.delta \in 0..Owed(j.item)
  /\ j.op = "gift" => j.delta = 0 - GiftCost
  /\ j.op = "access" => j.delta = 0 - Fee /\ j.item \notin access[j.user]
  /\ j.op = "reward" => j.delta \in 0..RewardCoins(j.item)

Fresh(l, j) == j.commit = "sent" \/ (l = "write" /\ ~j.stale) => Current(j)

\* No two commits on their way write the same document.
Apart ==
  \A r, q \in Workers :
    job[r].commit = "sent" /\ job[q].commit = "sent" /\ Clash(job[r], job[q]) => r = q

\* A purchase of Google Play or the App Store is complete when it is credited in
\* full; what was consumed is complete.  The set of what a user may enter is finite.
BooksSane ==
  /\ \A p \in Purchases :
       record[p].status = "completed" /\ store[p] # "stripe" => record[p].amount = Price
  /\ \A p \in consumed : store[p] = "google" /\ record[p].status = "completed"
  /\ \A u \in Users : IsFiniteSet(access[u])

\* A request has taken the flag of a reward and has neither paid it nor put it back.
Holding(l, j, u, x) ==
  /\ j.op = "reward" /\ j.user = u /\ j.item = x
  /\ l \in {"begin", "write", "putback"} \/ j.commit = "sent"
Holds(r, u, x) == Holding(at[r], job[r], u, x)

ClaimsSane(u, x) ==
  /\ paid[u][x].entries \in {0, 1}
  /\ paid[u][x].entries = 0 => paid[u][x].amount = 0
  /\ x \notin claimed[u] => paid[u][x].entries = 0
  /\ \A r \in Workers : Holds(r, u, x) => x \in claimed[u] /\ paid[u][x].entries = 0
  /\ \A r, q \in Workers : Holds(r, u, x) /\ Holds(q, u, x) => r = q
  /\ faults = 0 /\ x \in claimed[u] /\ paid[u][x].entries = 0 =>
       \E r \in Workers : Holds(r, u, x)

IInv ==
  /\ TypeOK
  /\ \A r \in Workers : Sane(at[r], job[r]) /\ Fresh(at[r], job[r])
  /\ Apart
  /\ BooksSane
  /\ \A u \in Users, x \in Rewards : ClaimsSane(u, x)
-----------------------------------------------------------------------------
(***************************************************************************)
(* Steps of one worker that leave the wallets alone.                       *)
(***************************************************************************)
\* No job is a job; a settled one and a stale one are.
LEMMA JobTypes ==
  /\ NoJob \in Jobs
  /\ \A j \in Jobs : Settled(j) \in Jobs /\ [j EXCEPT !.stale = FALSE] \in Jobs
<1>1. 0 \in 0..Cap /\ 0 \in (0 - Cap)..Cap  OBVIOUS
<1>2. NoJob \in Jobs  BY <1>1 DEF NoJob, Jobs
<1>3. ASSUME NEW j \in Jobs PROVE Settled(j) \in Jobs /\ [j EXCEPT !.stale = FALSE] \in Jobs
  BY <1>1, <1>3 DEF Settled, Jobs
<1> QED  BY <1>2, <1>3

\* A worker goes to a label with a job, and only that worker.
LEMMA GoType ==
  ASSUME TypeOK, NEW r \in Workers, NEW l \in Labels, NEW j \in Jobs, Go(r, l, j)
  PROVE  /\ at' \in [Workers -> Labels] /\ job' \in [Workers -> Jobs]
         /\ at'[r] = l /\ job'[r] = j
         /\ \A q \in Workers \ {r} : at'[q] = at[q] /\ job'[q] = job[q]
  BY DEF TypeOK, Go, Put

\* The invariant is about a worker that goes on to l with j, when that is in order
\* and neither sends a commit nor takes or, without a fault, drops a reward's flag.
LEMMA Quiet ==
  ASSUME IInv, NEW r \in Workers, NEW l \in Labels, NEW j \in Jobs, Go(r, l, j),
         UNCHANGED <<fixed, wallets, consumed, claimed>>,
         progress' \in [Users -> [Missions -> Nat]], faults' \in 0..MaxFaults,
         Sane(l, j), Fresh(l, j),
         j.commit = "sent" => /\ job[r].commit = "sent" /\ j.op = job[r].op
                              /\ j.item = job[r].item /\ j.user = job[r].user
                              /\ j.delta = job[r].delta,
         \A u \in Users, x \in Rewards : Holding(l, j, u, x) => Holds(r, u, x),
         faults' = 0 => /\ faults = 0
                        /\ \A u \in Users, x \in Rewards : Holds(r, u, x) => Holding(l, j, u, x)
  PROVE  IInv'
<1> USE DEF IInv
<1>1. /\ at' \in [Workers -> Labels] /\ job' \in [Workers -> Jobs]
      /\ at'[r] = l /\ job'[r] = j
      /\ \A q \in Workers \ {r} : at'[q] = at[q] /\ job'[q] = job[q]
  BY GoType
<1>2. TypeOK'  BY <1>1 DEF TypeOK, fixed, wallets
<1>3. \A k \in Jobs : \A m \in Labels :
        (Sane(m, k) <=> Sane(m, k)') /\ (Fresh(m, k) <=> Fresh(m, k)')
  BY DEF Sane, Fresh, Current, Asked, Owed, fixed, wallets
<1>4. ASSUME NEW q \in Workers PROVE Sane(at[q], job[q])' /\ Fresh(at[q], job[q])'
  <2>1. CASE q = r
    <3>1. Sane(l, j)' /\ Fresh(l, j)'  BY <1>3
    <3> QED  BY <1>1, <2>1, <3>1 DEF Sane, Fresh, Current, Asked, Owed
  <2>2. CASE q # r
    <3>1. Sane(at[q], job[q]) /\ Fresh(at[q], job[q])  OBVIOUS
    <3> QED
      BY <1>1, <2>2, <3>1 DEF Sane, Fresh, Current, Asked, Owed, fixed, wallets
  <2> QED  BY <2>1, <2>2
<1>5. Apart'  BY <1>1 DEF Apart, Clash
<1>6. BooksSane'  BY DEF BooksSane, fixed, wallets
<1>7. ASSUME NEW u \in Users, NEW x \in Rewards PROVE ClaimsSane(u, x)'
  <2>1. ClaimsSane(u, x)  OBVIOUS
  <2>2. \A q \in Workers : Holds(q, u, x)' => Holds(q, u, x)
    BY <1>1 DEF Holds, Holding
  <2>3. faults' = 0 => faults = 0 /\ \A q \in Workers : Holds(q, u, x) => Holds(q, u, x)'
    BY <1>1 DEF Holds, Holding
  <2>4. paid' = paid /\ claimed' = claimed  BY DEF wallets
  <2> QED  BY <2>1, <2>2, <2>3, <2>4 DEF ClaimsSane
<1> QED  BY <1>2, <1>4, <1>5, <1>6, <1>7
\* The requests arrive; a mission's counter reaches its target, and its flag is free.
LEMMA ArriveKeeps ==
  ASSUME IInv, NEW r \in Workers,
         \/ \E p \in Purchases : Deliver(r, p)
         \/ \E u \in Users : SendGift(r, u)
         \/ \E u \in Users, a \in Paywalls : Unlock(r, u, a)
         \/ \E u \in Players, m \in Missions : TrackEvent(r, u, m)
  PROVE  IInv'
<1> USE DEF TypeOK
<1>0. /\ TypeOK /\ Sane(at[r], job[r]) /\ at[r] = "idle" /\ job[r].op = "none"
      /\ {"begin", "claim"} \subseteq Labels
  BY DEF IInv, Deliver, SendGift, Unlock, TrackEvent, Sane, Labels
<1>1. ASSUME NEW p \in Purchases, Deliver(r, p) PROVE IInv'
  <2> DEFINE j == [NoJob EXCEPT !.op = "purchase", !.user = Owner[p], !.item = p,
                                !.consumed = p \in consumed]
  <2>0. Owner[p] \in Users /\ p \in Purchases /\ (p \in consumed) \in BOOLEAN  OBVIOUS
  <2>1. j \in Jobs  BY <2>0, JobTypes DEF Jobs
  <2>2. /\ j.op = "purchase" /\ j.user = Owner[p] /\ j.item = p /\ j.commit = "none" /\ ~j.stale
    BY DEF NoJob
  <2>3. Go(r, "begin", j) /\ UNCHANGED <<fixed, wallets, consumed, progress, claimed, faults>>
    BY <1>1 DEF Deliver
  <2> HIDE DEF j
  <2>4. Sane("begin", j) /\ Fresh("begin", j)
    BY <2>2 DEF Sane, Fresh, Asked
  <2>5. \A u \in Users, x \in Rewards : ~Holding("begin", j, u, x) /\ ~Holds(r, u, x)
    BY <1>0, <2>2 DEF Holding, Holds
  <2> QED  BY <1>0, <2>1, <2>2, <2>3, <2>4, <2>5, Quiet
<1>2. ASSUME NEW u \in Users, SendGift(r, u) PROVE IInv'
  <2> DEFINE j == [NoJob EXCEPT !.op = "gift", !.user = u]
  <2>1. j \in Jobs  BY JobTypes DEF Jobs
  <2>2. /\ j.op = "gift" /\ j.user = u /\ j.commit = "none" /\ ~j.stale
    BY DEF NoJob
  <2>3. Go(r, "begin", j) /\ UNCHANGED <<fixed, wallets, consumed, progress, claimed, faults>>
    BY <1>2 DEF SendGift
  <2> HIDE DEF j
  <2>4. Sane("begin", j) /\ Fresh("begin", j)
    BY <2>2 DEF Sane, Fresh, Asked
  <2>5. \A v \in Users, x \in Rewards : ~Holding("begin", j, v, x) /\ ~Holds(r, v, x)
    BY <1>0, <2>2 DEF Holding, Holds
  <2> QED  BY <1>0, <2>1, <2>2, <2>3, <2>4, <2>5, Quiet
<1>3. ASSUME NEW u \in Users, NEW a \in Paywalls, Unlock(r, u, a) PROVE IInv'
  <2> DEFINE j == [NoJob EXCEPT !.op = "access", !.user = u, !.item = a]
  <2>1. j \in Jobs  BY JobTypes DEF Jobs
  <2>2. /\ j.op = "access" /\ j.user = u /\ j.item = a /\ j.commit = "none" /\ ~j.stale
    BY DEF NoJob
  <2>3. Go(r, "begin", j) /\ UNCHANGED <<fixed, wallets, consumed, progress, claimed, faults>>
    BY <1>3 DEF Unlock
  <2> HIDE DEF j
  <2>4. Sane("begin", j) /\ Fresh("begin", j)
    BY <2>2 DEF Sane, Fresh, Asked
  <2>5. \A v \in Users, x \in Rewards : ~Holding("begin", j, v, x) /\ ~Holds(r, v, x)
    BY <1>0, <2>2 DEF Holding, Holds
  <2> QED  BY <1>0, <2>1, <2>2, <2>3, <2>4, <2>5, Quiet
<1>4. ASSUME NEW u \in Players, NEW m \in Missions, TrackEvent(r, u, m) PROVE IInv'
  <2> DEFINE j == [NoJob EXCEPT !.op = "reward", !.user = u, !.item = m]
  <2>0. u \in Users /\ m \in Rewards  BY DEF Rewards
  <2>1. j \in Jobs  BY <2>0, JobTypes DEF Jobs
  <2>2. /\ j.op = "reward" /\ j.user = u /\ j.item = m /\ j.commit = "none" /\ ~j.stale
    BY DEF NoJob
  <2>3. /\ UNCHANGED <<fixed, wallets, consumed, claimed, faults>>
        /\ progress' \in [Users -> [Missions -> Nat]]
        /\ Go(r, "claim", j) \/ UNCHANGED <<at, job>>
    <3>1. progress' = [progress EXCEPT ![u][m] = @ + 1]  BY <1>4 DEF TrackEvent
    <3>2. progress' \in [Users -> [Missions -> Nat]]  BY <1>0, <2>0, <3>1
    <3>3. UNCHANGED <<fixed, wallets, consumed, claimed, faults>>  BY <1>4 DEF TrackEvent
    <3>4. Go(r, "claim", j) \/ UNCHANGED <<at, job>>  BY <1>4 DEF TrackEvent
    <3> QED  BY <3>2, <3>3, <3>4
  <2> HIDE DEF j
  <2>4. Sane("claim", j) /\ Fresh("claim", j)
    BY <2>0, <2>2 DEF Sane, Fresh, Asked
  <2>5. \A v \in Users, x \in Rewards : ~Holding("claim", j, v, x) /\ ~Holds(r, v, x)
    BY <1>0, <2>2 DEF Holding, Holds
  <2>6. CASE Go(r, "claim", j)
    BY <1>0, <2>1, <2>2, <2>3, <2>4, <2>5, <2>6, Quiet
  <2>7. CASE UNCHANGED <<at, job>>
    <3>1. TypeOK'  BY <2>3, <2>7 DEF fixed, wallets, IInv
    <3>2. \A q \in Workers : Sane(at[q], job[q])' /\ Fresh(at[q], job[q])'
      BY <2>3, <2>7 DEF IInv, Sane, Fresh, Current, Asked, Owed, fixed, wallets
    <3>3. Apart' /\ BooksSane'
      BY <2>3, <2>7 DEF IInv, Apart, Clash, BooksSane, fixed, wallets
    <3>4. \A v \in Users, x \in Rewards : ClaimsSane(v, x)'
      BY <2>3, <2>7 DEF IInv, ClaimsSane, Holds, Holding, wallets
    <3> QED  BY <3>1, <3>2, <3>3, <3>4 DEF IInv
  <2> QED  BY <2>3, <2>6, <2>7
<1> QED  BY <1>1, <1>2, <1>3, <1>4
\* A request may end, if it does not drop a reward's flag where nothing failed.
LEMMA QuitKeeps ==
  ASSUME IInv, NEW r \in Workers, Quit(r),
         UNCHANGED <<fixed, wallets, consumed, progress, claimed>>, faults' \in 0..MaxFaults,
         faults' = 0 => faults = 0 /\ \A u \in Users, x \in Rewards : ~Holds(r, u, x)
  PROVE  IInv'
<1>1. Go(r, "idle", NoJob)  BY DEF Quit
<1>2. NoJob \in Jobs /\ "idle" \in Labels  BY JobTypes DEF Labels
<1>3. NoJob.op = "none" /\ NoJob.commit = "none" /\ ~NoJob.stale  BY DEF NoJob
<1>4. Sane("idle", NoJob) /\ Fresh("idle", NoJob)  BY <1>3 DEF Sane, Fresh
<1>5. \A u \in Users, x \in Rewards : ~Holding("idle", NoJob, u, x)  BY <1>3 DEF Holding
<1>6. progress' \in [Users -> [Missions -> Nat]]  BY DEF IInv, TypeOK
<1> QED  BY <1>1, <1>2, <1>3, <1>4, <1>5, <1>6, Quiet

\* A purchase that is complete is consumed next, at Google Play.
LEMMA DeliveredKeeps ==
  ASSUME IInv, NEW r \in Workers, NEW j \in Jobs, j.item \in Purchases,
         record[j.item].status = "completed", Delivered(r, j), job[r].op # "reward",
         UNCHANGED <<fixed, wallets, consumed, progress, claimed, faults>>
  PROVE  IInv'
<1>0. /\ \A u \in Users, x \in Rewards : ~Holds(r, u, x)
      /\ faults' \in 0..MaxFaults /\ progress' \in [Users -> [Missions -> Nat]]
  BY DEF Holds, Holding, IInv, TypeOK
<1>1. CASE store[j.item] = "google"
  <2> DEFINE k == [NoJob EXCEPT !.item = j.item]
  <2>1. k \in Jobs /\ "consume" \in Labels  BY JobTypes DEF Jobs, Labels
  <2>2. k.op = "none" /\ k.item = j.item /\ k.commit = "none" /\ ~k.stale  BY DEF NoJob
  <2>3. Go(r, "consume", k)  BY <1>1 DEF Delivered
  <2> HIDE DEF k
  <2>4. Sane("consume", k) /\ Fresh("consume", k)  BY <1>1, <2>2 DEF Sane, Fresh
  <2>5. \A u \in Users, x \in Rewards : ~Holding("consume", k, u, x)  BY <2>2 DEF Holding
  <2> QED  BY <1>0, <2>1, <2>2, <2>3, <2>4, <2>5, Quiet
<1>2. CASE store[j.item] # "google"
  BY <1>0, <1>2, QuitKeeps DEF Delivered
<1> QED  BY <1>1, <1>2

\* A mission's transaction failed: its flag is to be put back.
LEMMA PutBackLaterKeeps ==
  ASSUME IInv, NEW r \in Workers, PutBackLater(r), job[r].op = "reward",
         at[r] \in {"begin", "write"},
         UNCHANGED <<fixed, wallets, consumed, progress, claimed>>, faults' \in 0..MaxFaults,
         faults' = 0 => faults = 0
  PROVE  IInv'
<1> DEFINE j == [NoJob EXCEPT !.op = "reward", !.user = job[r].user, !.item = job[r].item]
<1>1. job[r] \in Jobs /\ Sane(at[r], job[r])  BY DEF IInv, TypeOK
<1>2. job[r].user \in Users /\ job[r].item \in Rewards  BY <1>1 DEF Sane, Asked
<1>3. j \in Jobs /\ "putback" \in Labels  BY <1>2, JobTypes, ZenonT(40) DEF Jobs, Labels
<1>4. /\ j.op = "reward" /\ j.user = job[r].user /\ j.item = job[r].item
      /\ j.commit = "none" /\ ~j.stale
  BY DEF NoJob
<1>5. Go(r, "putback", j)  BY DEF PutBackLater
<1> HIDE DEF j
<1>6. Sane("putback", j) /\ Fresh("putback", j)  BY <1>2, <1>4 DEF Sane, Fresh, Asked
<1>7. \A u \in Users, x \in Rewards : Holding("putback", j, u, x) <=> Holds(r, u, x)
  BY <1>4 DEF Holding, Holds
<1>8. progress' \in [Users -> [Missions -> Nat]]  BY DEF IInv, TypeOK
<1> QED  BY <1>3, <1>4, <1>5, <1>6, <1>7, <1>8, Quiet

\* The callback is run again, on a new snapshot.
LEMMA AgainKeeps ==
  ASSUME IInv, NEW r \in Workers, NEW j \in Jobs, Go(r, "begin", j),
         j.op = job[r].op, j.user = job[r].user, j.item = job[r].item, j.commit = "none", ~j.stale,
         at[r] \in {"write", "sent"}, job[r].op # "reward",
         UNCHANGED <<fixed, wallets, consumed, progress, claimed>>, faults' \in 0..MaxFaults,
         faults' = 0 => faults = 0
  PROVE  IInv'
<1>1. Sane(at[r], job[r])  BY DEF IInv
<1>2. Sane("begin", j) /\ Fresh("begin", j)  BY <1>1 DEF Sane, Fresh, Asked
<1>3. \A u \in Users, x \in Rewards : ~Holding("begin", j, u, x) /\ ~Holds(r, u, x)
  BY DEF Holding, Holds
<1>4. "begin" \in Labels /\ progress' \in [Users -> [Missions -> Nat]]  BY DEF Labels, IInv, TypeOK
<1> QED  BY <1>2, <1>3, <1>4, Quiet

\* A request is abandoned, its commit stays on its way.
LEMMA AbandonKeeps ==
  ASSUME IInv, NEW r \in Workers, Abandon(r) \/ Quit(r), Fault,
         UNCHANGED <<fixed, wallets, consumed, progress, claimed>>
  PROVE  IInv'
<1>0. faults' \in 0..MaxFaults /\ faults' # 0 /\ "orphan" \in Labels
      /\ progress' \in [Users -> [Missions -> Nat]] /\ job[r] \in Jobs
      /\ Sane(at[r], job[r]) /\ Fresh(at[r], job[r])
  BY DEF Fault, IInv, TypeOK, Labels
<1>1. CASE Quit(r)  BY <1>0, <1>1, QuitKeeps
<1>2. CASE job[r].commit = "sent" /\ Go(r, "orphan", job[r])
  <2>1. Sane("orphan", job[r]) /\ Fresh("orphan", job[r])
    BY <1>0, <1>2 DEF Sane, Fresh
  <2>2. \A u \in Users, x \in Rewards : Holding("orphan", job[r], u, x) => Holds(r, u, x)
    BY DEF Holding, Holds
  <2> QED  BY <1>0, <1>2, <2>1, <2>2, Quiet
<1> QED  BY <1>1, <1>2 DEF Abandon
\* What fits is no more than was asked for, and leaves the wallet under the cap.
LEMMA FitsUnderCap ==
  ASSUME NEW balance \in 0..Cap, NEW amount \in Nat
  PROVE  Fits(balance, amount) \in 0..amount /\ balance + Fits(balance, amount) \in 0..Cap
<1>1. CASE amount <= Cap - balance  BY <1>1 DEF Fits
<1>2. CASE ~(amount <= Cap - balance) /\ balance < Cap  BY <1>2 DEF Fits
<1>3. CASE ~(amount <= Cap - balance) /\ ~(balance < Cap)  BY <1>3 DEF Fits
<1> QED  BY <1>1, <1>2, <1>3

\* A snapshot is taken and decided on.
LEMMA SnapshotKeeps ==
  ASSUME IInv, NEW r \in Workers, at[r] = "begin", NEW d \in Int, Snapshot(r, d),
         UNCHANGED <<fixed, wallets, consumed, progress, claimed, faults>>,
         coins[job[r].user] + d \in 0..Cap,
         job[r].op = "purchase" => record[job[r].item].status # "completed" /\ d \in 0..Owed(job[r].item),
         job[r].op = "gift" => d = 0 - GiftCost,
         job[r].op = "access" => d = 0 - Fee /\ job[r].item \notin access[job[r].user],
         job[r].op = "reward" => d \in 0..RewardCoins(job[r].item)
  PROVE  IInv'
<1> DEFINE j == [job[r] EXCEPT !.base = coins[job[r].user], !.delta = d, !.stale = FALSE]
<1>1. /\ job[r] \in Jobs /\ Sane("begin", job[r]) /\ "write" \in Labels
      /\ progress' \in [Users -> [Missions -> Nat]] /\ faults' \in 0..MaxFaults
  BY DEF IInv, TypeOK, Labels
<1>2. job[r].user \in Users /\ coins[job[r].user] \in 0..Cap
  BY <1>1 DEF IInv, TypeOK, Sane, Asked
<1>3. d \in (0 - Cap)..Cap  BY <1>2
<1>4. j \in Jobs  BY <1>1, <1>2, <1>3 DEF Jobs
<1>5. /\ j.op = job[r].op /\ j.user = job[r].user /\ j.item = job[r].item
      /\ j.commit = job[r].commit /\ ~j.stale /\ j.base = coins[job[r].user] /\ j.delta = d
  BY <1>1 DEF Jobs
<1>6. Go(r, "write", j)  BY DEF Snapshot
<1> HIDE DEF j
<1>7. job[r].commit = "none"  BY <1>1 DEF Sane, Jobs
<1>8. Sane("write", j)  BY <1>1, <1>5, <1>7 DEF Sane, Asked
<1>9. Fresh("write", j)  BY <1>5 DEF Fresh, Current
<1>10. \A u \in Users, x \in Rewards : Holding("write", j, u, x) <=> Holds(r, u, x)
  BY <1>5 DEF Holding, Holds
<1> QED  BY <1>1, <1>4, <1>5, <1>6, <1>7, <1>8, <1>9, <1>10, Quiet

\* What of a purchase is owed, and what a reward is worth, are amounts of coins.
LEMMA Amounts ==
  ASSUME TypeOK
  PROVE  /\ \A p \in Purchases : Owed(p) \in Nat
         /\ \A x \in Rewards : RewardCoins(x) \in Nat
  BY DEF TypeOK, Records, Owed, RewardCoins

\* The beginning of a transaction.
LEMMA BeginKeeps ==
  ASSUME IInv, NEW r \in Workers, Begin(r)
  PROVE  IInv'
<1> DEFINE j == job[r]
           balance == coins[j.user]
<1>0. /\ TypeOK /\ j \in Jobs /\ at[r] = "begin" /\ Sane("begin", j)
      /\ UNCHANGED <<fixed, wallets, consumed, progress, claimed, faults>>
      /\ faults' \in 0..MaxFaults
  BY DEF Begin, IInv, TypeOK
<1>1. Asked(j)  BY <1>0 DEF Sane
<1>2. balance \in 0..Cap  BY <1>0, <1>1 DEF Asked, TypeOK
<1>3. CASE j.op = "purchase"
  <2>1. j.item \in Purchases  BY <1>1, <1>3 DEF Asked
  <2>2. \A u \in Users, x \in Rewards : ~Holds(r, u, x)  BY <1>3 DEF Holds, Holding
  <2>3. \/ record[j.item].status = "completed" /\ Delivered(r, j)
        \/ Quit(r)
        \/ record[j.item].status # "completed" /\ Snapshot(r, Fits(balance, Owed(j.item)))
    BY <1>3 DEF Begin, CreditOnce, CreditRest
  <2>4. Fits(balance, Owed(j.item)) \in 0..Owed(j.item) /\ balance + Fits(balance, Owed(j.item)) \in 0..Cap
    BY <1>0, <1>2, <2>1, Amounts, FitsUnderCap
  <2>5. CASE Quit(r)  BY <1>0, <2>2, <2>5, QuitKeeps DEF IInv, TypeOK
  <2>6. CASE record[j.item].status = "completed" /\ Delivered(r, j)
    BY <1>0, <1>3, <2>1, <2>6, DeliveredKeeps
  <2>7. CASE record[j.item].status # "completed" /\ Snapshot(r, Fits(balance, Owed(j.item)))
    <3>1. Fits(balance, Owed(j.item)) \in Int  BY <1>0, <2>1, <2>4, Amounts
    <3> QED  BY <1>0, <1>3, <2>4, <2>7, <3>1, SnapshotKeeps
  <2> QED  BY <2>3, <2>5, <2>6, <2>7
<1>4. CASE j.op = "gift"
  <2>1. \A u \in Users, x \in Rewards : ~Holds(r, u, x)  BY <1>4 DEF Holds, Holding
  <2>2. CASE balance < GiftCost
    <3>1. Quit(r)  BY <1>4, <2>2 DEF Begin
    <3> QED  BY <1>0, <2>1, <3>1, QuitKeeps DEF IInv, TypeOK
  <2>3. CASE ~(balance < GiftCost)
    <3>1. Snapshot(r, 0 - GiftCost)  BY <1>4, <2>3 DEF Begin
    <3>2. balance + (0 - GiftCost) \in 0..Cap /\ 0 - GiftCost \in Int  BY <1>2, <2>3
    <3> QED  BY <1>0, <1>4, <3>1, <3>2, SnapshotKeeps
  <2> QED  BY <2>2, <2>3
<1>5. CASE j.op = "access"
  <2>1. \A u \in Users, x \in Rewards : ~Holds(r, u, x)  BY <1>5 DEF Holds, Holding
  <2>2. CASE j.item \in access[j.user] \/ balance < Fee
    <3>1. Quit(r)  BY <1>5, <2>2 DEF Begin, Enter
    <3> QED  BY <1>0, <2>1, <3>1, QuitKeeps DEF IInv, TypeOK
  <2>3. CASE ~(j.item \in access[j.user] \/ balance < Fee)
    <3>1. Snapshot(r, 0 - Fee)  BY <1>5, <2>3 DEF Begin, Enter
    <3>2. balance + (0 - Fee) \in 0..Cap /\ 0 - Fee \in Int  BY <1>2, <2>3
    <3> QED  BY <1>0, <1>5, <2>3, <3>1, <3>2, SnapshotKeeps
  <2> QED  BY <2>2, <2>3
<1>6. CASE j.op = "reward"
  <2>1. j.item \in Rewards  BY <1>1, <1>6 DEF Asked
  <2>2. Snapshot(r, Fits(balance, RewardCoins(j.item)))  BY <1>6 DEF Begin
  <2>3. /\ Fits(balance, RewardCoins(j.item)) \in 0..RewardCoins(j.item)
        /\ balance + Fits(balance, RewardCoins(j.item)) \in 0..Cap
        /\ RewardCoins(j.item) \in Nat
    BY <1>0, <1>2, <2>1, Amounts, FitsUnderCap
  <2> QED  BY <1>0, <1>6, <2>2, <2>3, SnapshotKeeps
<1> QED  BY <1>1, <1>3, <1>4, <1>5, <1>6 DEF Asked

\* A write that is too late; the transaction runs again, or the flag is put back.
LEMMA ConflictKeeps ==
  ASSUME IInv, NEW r \in Workers, Conflict(r)
  PROVE  IInv'
<1> DEFINE j == Settled([job[r] EXCEPT !.stale = FALSE])
<1>0. /\ at[r] = "write" /\ UNCHANGED <<fixed, wallets, consumed, progress, claimed, faults>>
      /\ job[r] \in Jobs /\ Sane("write", job[r]) /\ faults' \in 0..MaxFaults
  BY DEF Conflict, IInv, TypeOK
<1>1. CASE job[r].op = "reward"
  BY <1>0, <1>1, PutBackLaterKeeps DEF Conflict
<1>2. CASE job[r].op # "reward"
  <2>1. Go(r, "begin", j) \/ Quit(r)  BY <1>2 DEF Conflict
  <2>2. j \in Jobs  BY <1>0, JobTypes
  <2>3. /\ j.op = job[r].op /\ j.user = job[r].user /\ j.item = job[r].item
        /\ j.commit = "none" /\ ~j.stale
    BY <1>0 DEF Settled, Jobs, Sane
  <2> HIDE DEF j
  <2>4. CASE Go(r, "begin", j)  BY <1>0, <1>2, <2>2, <2>3, <2>4, AgainKeeps
  <2>5. CASE Quit(r)
    <3>1. \A u \in Users, x \in Rewards : ~Holds(r, u, x)  BY <1>2 DEF Holds, Holding
    <3> QED  BY <1>0, <2>5, <3>1, QuitKeeps
  <2> QED  BY <2>1, <2>4, <2>5
<1> QED  BY <1>1, <1>2

\* The answer to a commit arrives.
LEMMA CommittedKeeps ==
  ASSUME IInv, NEW r \in Workers, Committed(r)
  PROVE  IInv'
<1>0. /\ at[r] = "sent" /\ job[r].commit = "applied" /\ job[r] \in Jobs /\ Sane("sent", job[r])
      /\ UNCHANGED <<fixed, wallets, consumed, progress, claimed, faults>>
      /\ faults' \in 0..MaxFaults /\ progress' \in [Users -> [Missions -> Nat]]
  BY DEF Committed, IInv, TypeOK
<1>1. \A u \in Users, x \in Rewards : ~Holds(r, u, x)  BY <1>0 DEF Holds, Holding
<1>2. CASE Quit(r)  BY <1>0, <1>1, <1>2, QuitKeeps
<1>3. CASE job[r].op = "purchase"
  <2>1. job[r].item \in Purchases  BY <1>0, <1>3 DEF Sane, Asked
  <2> QED
    BY <1>0, <1>2, <1>3, <2>1, DeliveredKeeps DEF Committed
<1>4. CASE job[r].op \in {"gift", "access"}
  <2>1. Quit(r)  BY <1>4 DEF Committed
  <2> QED  BY <1>2, <2>1
<1>5. CASE job[r].op = "reward"
  <2> DEFINE k == [NoJob EXCEPT !.op = "reward", !.user = job[r].user]
  <2>1. Quit(r) \/ Go(r, "bonus", k)  BY <1>5 DEF Committed
  <2>2. job[r].user \in Users  BY <1>0 DEF Sane, Asked
  <2>3. k \in Jobs /\ "bonus" \in Labels  BY <2>2, JobTypes DEF Jobs, Labels
  <2>4. k.op = "reward" /\ k.user = job[r].user /\ k.commit = "none" /\ ~k.stale  BY DEF NoJob
  <2> HIDE DEF k
  <2>5. Sane("bonus", k) /\ Fresh("bonus", k)  BY <2>2, <2>4 DEF Sane, Fresh
  <2>6. \A u \in Users, x \in Rewards : ~Holding("bonus", k, u, x)  BY <2>4 DEF Holding
  <2>7. CASE Go(r, "bonus", k)
    BY <1>0, <1>1, <2>3, <2>4, <2>5, <2>6, <2>7, Quiet
  <2> QED  BY <1>2, <2>1, <2>7
<1> QED  BY <1>0, <1>3, <1>4, <1>5 DEF Sane, Asked
\* An unknown commit is looked up in the purchase's record.
LEMMA ReconcileKeeps ==
  ASSUME IInv, NEW r \in Workers, Reconcile(r)
  PROVE  IInv'
<1>0. /\ at[r] = "unheard" /\ job[r] \in Jobs /\ Sane("unheard", job[r])
      /\ Fresh("unheard", job[r])
      /\ UNCHANGED <<fixed, wallets, consumed, progress, claimed, faults>>
      /\ faults' \in 0..MaxFaults /\ progress' \in [Users -> [Missions -> Nat]]
      /\ "orphan" \in Labels
  BY DEF Reconcile, IInv, TypeOK, Labels
<1>1. job[r].op = "purchase" /\ job[r].item \in Purchases  BY <1>0 DEF Sane, Asked
<1>2. \A u \in Users, x \in Rewards : ~Holds(r, u, x)  BY <1>1 DEF Holds, Holding
<1>3. CASE record[job[r].item].status = "completed" /\ Delivered(r, job[r])
  BY <1>0, <1>1, <1>3, DeliveredKeeps
<1>4. CASE job[r].commit = "sent" /\ Go(r, "orphan", job[r])
  <2>1. Sane("orphan", job[r]) /\ Fresh("orphan", job[r])
    BY <1>0, <1>4 DEF Sane, Fresh
  <2>2. \A u \in Users, x \in Rewards : ~Holding("orphan", job[r], u, x)
    BY <1>1 DEF Holding
  <2> QED  BY <1>0, <1>2, <1>4, <2>1, <2>2, Quiet
<1>5. CASE Quit(r)  BY <1>0, <1>2, <1>5, QuitKeeps
<1> QED  BY <1>3, <1>4, <1>5 DEF Reconcile

\* Whether all missions are done.
LEMMA AllMissionsKeeps ==
  ASSUME IInv, NEW r \in Workers, AllMissions(r)
  PROVE  IInv'
<1> DEFINE j == [job[r] EXCEPT !.item = Bonus]
<1>0. /\ at[r] = "bonus" /\ job[r] \in Jobs /\ Sane("bonus", job[r])
      /\ UNCHANGED <<fixed, wallets, consumed, progress, claimed, faults>>
      /\ faults' \in 0..MaxFaults /\ progress' \in [Users -> [Missions -> Nat]]
      /\ "claim" \in Labels /\ Bonus \in Rewards
  BY DEF AllMissions, IInv, TypeOK, Labels, Rewards
<1>1. \A u \in Users, x \in Rewards : ~Holds(r, u, x)  BY <1>0 DEF Holds, Holding, Sane
<1>2. CASE Quit(r)  BY <1>0, <1>1, <1>2, QuitKeeps
<1>3. CASE Go(r, "claim", j)
  <2>1. j \in Jobs  BY <1>0 DEF Jobs
  <2>2. /\ j.op = "reward" /\ j.user = job[r].user /\ j.item = Bonus
        /\ j.commit = "none" /\ ~j.stale /\ j.user \in Users
    BY <1>0 DEF Jobs, Sane
  <2> HIDE DEF j
  <2>3. Sane("claim", j) /\ Fresh("claim", j)  BY <1>0, <2>2 DEF Sane, Fresh, Asked
  <2>4. \A u \in Users, x \in Rewards : ~Holding("claim", j, u, x)  BY <2>2 DEF Holding
  <2> QED  BY <1>0, <1>1, <1>3, <2>1, <2>2, <2>3, <2>4, Quiet
<1> QED  BY <1>2, <1>3 DEF AllMissions

\* No answer to a commit.
LEMMA TimeoutKeeps ==
  ASSUME IInv, NEW r \in Workers, Timeout(r)
  PROVE  IInv'
<1>0. /\ at[r] = "sent" /\ job[r] \in Jobs /\ Sane("sent", job[r]) /\ Fresh("sent", job[r])
      /\ Fault /\ UNCHANGED <<fixed, wallets, consumed, progress, claimed>>
      /\ faults' \in 0..MaxFaults /\ faults' # 0 /\ progress' \in [Users -> [Missions -> Nat]]
      /\ "unheard" \in Labels
  BY DEF Timeout, Fault, IInv, TypeOK, Labels
<1>1. CASE Abandon(r) \/ Quit(r)  BY <1>0, <1>1, AbandonKeeps
<1>2. CASE job[r].op = "purchase" /\ Go(r, "unheard", job[r])
  <2>1. Sane("unheard", job[r]) /\ Fresh("unheard", job[r])
    BY <1>0, <1>2 DEF Sane, Fresh
  <2>2. \A u \in Users, x \in Rewards : ~Holding("unheard", job[r], u, x)
    BY <1>2 DEF Holding
  <2> QED  BY <1>0, <1>2, <2>1, <2>2, Quiet
<1>3. CASE job[r].op = "purchase" /\ Go(r, "unheard", [job[r] EXCEPT !.commit = "none"])
  <2> DEFINE j == [job[r] EXCEPT !.commit = "none"]
  <2>1. /\ j \in Jobs /\ j.op = "purchase" /\ j.user = job[r].user /\ j.item = job[r].item
        /\ j.commit = "none" /\ j.stale = job[r].stale
    BY <1>0, <1>3 DEF Jobs
  <2> HIDE DEF j
  <2>2. Go(r, "unheard", j)  BY <1>3 DEF j
  <2>3. Sane("unheard", j) /\ Fresh("unheard", j)
    BY <1>0, <1>3, <2>1 DEF Sane, Fresh, Asked
  <2>4. \A u \in Users, x \in Rewards : ~Holding("unheard", j, u, x)
    BY <2>1 DEF Holding
  <2> QED  BY <1>0, <2>1, <2>2, <2>3, <2>4, Quiet
<1> QED  BY <1>1, <1>2, <1>3 DEF Timeout

\* A commit is refused, and the callback run again.
LEMMA AbortKeeps ==
  ASSUME IInv, NEW r \in Workers, Abort(r)
  PROVE  IInv'
<1> DEFINE j == Settled([job[r] EXCEPT !.commit = "none"])
<1>0. /\ at[r] = "sent" /\ job[r] \in Jobs /\ Sane("sent", job[r]) /\ Fault
      /\ UNCHANGED <<fixed, wallets, consumed, progress, claimed>>
      /\ faults' \in 0..MaxFaults /\ faults' # 0
  BY DEF Abort, Fault, IInv, TypeOK
<1>1. CASE job[r].op = "reward"
  <2>1. Quit(r)  BY <1>1 DEF Abort
  <2> QED  BY <1>0, <2>1, AbandonKeeps
<1>2. CASE job[r].op # "reward"
  <2>1. Go(r, "begin", j)  BY <1>2 DEF Abort
  <2>2. [job[r] EXCEPT !.commit = "none"] \in Jobs  BY <1>0 DEF Jobs
  <2>3. j \in Jobs  BY <2>2, JobTypes
  <2>4. /\ j.op = job[r].op /\ j.user = job[r].user /\ j.item = job[r].item
        /\ j.commit = "none" /\ ~j.stale
    BY <1>0 DEF Settled, Jobs, Sane
  <2> HIDE DEF j
  <2> QED  BY <1>0, <1>2, <2>1, <2>3, <2>4, AgainKeeps
<1> QED  BY <1>1, <1>2

\* The database fails before the commit, or the server stops.
LEMMA FailKeeps ==
  ASSUME IInv, NEW r \in Workers, Fail(r) \/ Crash(r)
  PROVE  IInv'
<1>0. /\ Fault /\ UNCHANGED <<fixed, wallets, consumed, progress, claimed>>
      /\ faults' \in 0..MaxFaults /\ faults' # 0
  BY DEF Fail, Crash, Fault, IInv, TypeOK
<1>1. CASE Abandon(r) \/ Quit(r)  BY <1>0, <1>1, AbandonKeeps
<1>2. CASE job[r].op = "reward" /\ PutBackLater(r) /\ at[r] \in {"begin", "write"}
  BY <1>0, <1>2, PutBackLaterKeeps
<1> QED  BY <1>1, <1>2 DEF Fail, Crash
-----------------------------------------------------------------------------
(***************************************************************************)
(* Steps that write something.                                             *)
(***************************************************************************)
\* A flag is taken by one request; taken, it guards a reward that was not paid.
LEMMA ClaimKeeps ==
  ASSUME IInv, NEW r \in Workers, Claim(r)
  PROVE  IInv'
<1> USE DEF IInv
<1> DEFINE j == job[r]
           u == job[r].user
           x == job[r].item
<1>0. /\ at[r] = "claim" /\ j \in Jobs /\ Sane("claim", j)
      /\ UNCHANGED <<fixed, wallets, consumed, progress, faults>>
      /\ {"begin", "idle"} \subseteq Labels
  BY DEF Claim, TypeOK, Labels
<1>1. u \in Users /\ x \in Rewards /\ j.op = "reward" /\ j.commit = "none" /\ ~j.stale
  BY <1>0 DEF Sane, Asked, Jobs
<1>2. CASE x \in claimed[u]
  <2>1. Quit(r) /\ claimed' = claimed  BY <1>2 DEF Claim
  <2>2. \A v \in Users, y \in Rewards : ~Holds(r, v, y)  BY <1>0, <1>1 DEF Holds, Holding
  <2>3. faults' \in 0..MaxFaults  BY <1>0 DEF TypeOK
  <2> QED  BY <1>0, <2>1, <2>2, <2>3, QuitKeeps
<1>3. CASE x \notin claimed[u]
  <2>1. claimed' = [claimed EXCEPT ![u] = @ \cup {x}] /\ Go(r, "begin", j)
    BY <1>3 DEF Claim
  <2>2. /\ at' \in [Workers -> Labels] /\ job' \in [Workers -> Jobs]
        /\ at'[r] = "begin" /\ job'[r] = j
        /\ \A q \in Workers \ {r} : at'[q] = at[q] /\ job'[q] = job[q]
    BY <1>0, <2>1, GoType
  <2>3. /\ claimed'[u] = claimed[u] \cup {x}
        /\ \A v \in Users \ {u} : claimed'[v] = claimed[v]
        /\ claimed' \in [Users -> SUBSET Rewards]
    BY <1>1, <2>1 DEF TypeOK
  <2> HIDE DEF j, u, x
  <2>4. TypeOK'  BY <1>0, <2>2, <2>3 DEF TypeOK, fixed, wallets
  <2>5. ASSUME NEW q \in Workers PROVE Sane(at[q], job[q])' /\ Fresh(at[q], job[q])'
    <3>1. CASE q = r
      BY <1>0, <1>1, <2>2, <3>1 DEF Sane, Fresh, Asked
    <3>2. CASE q # r
      BY <1>0, <2>2, <3>2 DEF Sane, Fresh, Current, Asked, Owed, fixed, wallets
    <3> QED  BY <3>1, <3>2
  <2>6. Apart'  BY <2>2 DEF Apart, Clash, j
  <2>7. BooksSane'  BY <1>0 DEF BooksSane, fixed, wallets
  <2>8. ASSUME NEW v \in Users, NEW y \in Rewards PROVE ClaimsSane(v, y)'
    <3>1. ClaimsSane(v, y) /\ paid' = paid /\ faults' = faults  BY <1>0 DEF wallets
    <3>2. \A q \in Workers \ {r} : Holds(q, v, y)' <=> Holds(q, v, y)
      BY <2>2 DEF Holds, Holding
    <3>3. ~Holds(r, v, y) /\ (Holds(r, v, y)' <=> v = u /\ y = x)
      BY <1>0, <1>1, <2>2 DEF Holds, Holding, j, u, x
    <3>4. CASE v = u /\ y = x
      BY <1>3, <2>3, <3>1, <3>2, <3>3, <3>4 DEF ClaimsSane
    <3>5. CASE ~(v = u /\ y = x)
      <4>1. y \in claimed'[v] <=> y \in claimed[v]  BY <2>3, <3>5
      <4> QED  BY <3>1, <3>2, <3>3, <3>5, <4>1 DEF ClaimsSane
    <3> QED  BY <3>4, <3>5
  <2> QED  BY <2>4, <2>5, <2>6, <2>7, <2>8
<1> QED  BY <1>2, <1>3

\* A flag is put back by the request that holds it.
LEMMA PutBackKeeps ==
  ASSUME IInv, NEW r \in Workers, PutBack(r)
  PROVE  IInv'
<1> USE DEF IInv
<1> DEFINE u == job[r].user
           x == job[r].item
<1>0. /\ at[r] = "putback" /\ job[r] \in Jobs /\ Sane("putback", job[r])
      /\ UNCHANGED <<fixed, wallets, consumed, progress, faults>>
      /\ "idle" \in Labels /\ Go(r, "idle", NoJob)
      /\ claimed' = [claimed EXCEPT ![u] = @ \ {x}]
  BY DEF PutBack, Quit, TypeOK, Labels
<1>1. u \in Users /\ x \in Rewards /\ job[r].op = "reward"
  BY <1>0 DEF Sane, Asked
<1>2. /\ at' \in [Workers -> Labels] /\ job' \in [Workers -> Jobs]
      /\ at'[r] = "idle" /\ job'[r] = NoJob
      /\ \A q \in Workers \ {r} : at'[q] = at[q] /\ job'[q] = job[q]
  BY <1>0, GoType, JobTypes
<1>3. /\ claimed'[u] = claimed[u] \ {x}
      /\ \A v \in Users \ {u} : claimed'[v] = claimed[v]
      /\ claimed' \in [Users -> SUBSET Rewards]
  BY <1>0, <1>1 DEF TypeOK
<1>4. NoJob.op = "none" /\ NoJob.commit = "none" /\ ~NoJob.stale  BY DEF NoJob
<1>5. Holds(r, u, x)  BY <1>0, <1>1 DEF Holds, Holding
<1> HIDE DEF u, x
<1>6. TypeOK'  BY <1>0, <1>2, <1>3 DEF TypeOK, fixed, wallets
<1>7. ASSUME NEW q \in Workers PROVE Sane(at[q], job[q])' /\ Fresh(at[q], job[q])'
  <2>1. CASE q = r  BY <1>2, <1>4, <2>1 DEF Sane, Fresh
  <2>2. CASE q # r
    BY <1>0, <1>2, <2>2 DEF Sane, Fresh, Current, Asked, Owed, fixed, wallets
  <2> QED  BY <2>1, <2>2
<1>8. Apart'  BY <1>2, <1>4 DEF Apart, Clash
<1>9. BooksSane'  BY <1>0 DEF BooksSane, fixed, wallets
<1>10. ASSUME NEW v \in Users, NEW y \in Rewards PROVE ClaimsSane(v, y)'
  <2>1. ClaimsSane(v, y) /\ paid' = paid /\ faults' = faults  BY <1>0 DEF wallets
  <2>2. \A q \in Workers \ {r} : Holds(q, v, y)' <=> Holds(q, v, y)
    BY <1>2 DEF Holds, Holding
  <2>3. ~Holds(r, v, y)'  BY <1>2, <1>4 DEF Holds, Holding
  <2>4. CASE v = u /\ y = x
    <3>1. \A q \in Workers : Holds(q, v, y) => q = r  BY <1>5, <2>1, <2>4 DEF ClaimsSane
    <3>2. paid[v][y].entries = 0 /\ y \notin claimed'[v]
      BY <1>3, <1>5, <2>1, <2>4 DEF ClaimsSane
    <3> QED  BY <2>1, <2>2, <2>3, <3>1, <3>2 DEF ClaimsSane
  <2>5. CASE ~(v = u /\ y = x)
    <3>1. y \in claimed'[v] <=> y \in claimed[v]  BY <1>3, <2>5
    <3>2. ~Holds(r, v, y)  BY <2>5 DEF Holds, Holding, u, x
    <3> QED  BY <2>1, <2>2, <2>3, <3>1, <3>2 DEF ClaimsSane
  <2> QED  BY <2>4, <2>5
<1> QED  BY <1>6, <1>7, <1>8, <1>9, <1>10
\* Two requests write the same document in either order of speaking.
LEMMA ClashBothWays == \A j, k \in Jobs : Clash(j, k) => Clash(k, j)
  BY DEF Clash

\* A write finds its document free, and keeps others from it.
LEMMA WriteKeeps ==
  ASSUME IInv, NEW r \in Workers, Write(r)
  PROVE  IInv'
<1> USE DEF IInv
<1> DEFINE j == [job[r] EXCEPT !.commit = "sent"]
<1>0. /\ at[r] = "write" /\ job[r] \in Jobs /\ Sane("write", job[r]) /\ Fresh("write", job[r])
      /\ UNCHANGED <<fixed, wallets, consumed, progress, claimed, faults>>
      /\ "sent" \in Labels /\ Go(r, "sent", j) /\ ~job[r].stale
      /\ \A q \in Workers : job[q].commit = "sent" => ~Clash(job[r], job[q])
  BY DEF Write, Blocked, TypeOK, Labels
<1>1. /\ j \in Jobs /\ j.op = job[r].op /\ j.user = job[r].user /\ j.item = job[r].item
      /\ j.delta = job[r].delta /\ j.base = job[r].base /\ ~j.stale /\ j.commit = "sent"
  BY <1>0 DEF Jobs
<1> HIDE DEF j
<1>2. /\ at' \in [Workers -> Labels] /\ job' \in [Workers -> Jobs]
      /\ at'[r] = "sent" /\ job'[r] = j
      /\ \A q \in Workers \ {r} : at'[q] = at[q] /\ job'[q] = job[q]
  BY <1>0, <1>1, GoType
<1>3. TypeOK'  BY <1>0, <1>2 DEF TypeOK, fixed, wallets
<1>4. ASSUME NEW q \in Workers PROVE Sane(at[q], job[q])' /\ Fresh(at[q], job[q])'
  <2>1. CASE q = r
    <3>1. Sane("sent", j) /\ Fresh("sent", j)
      BY <1>0, <1>1 DEF Sane, Fresh, Current, Asked, Owed
    <3> QED
      BY <1>0, <1>2, <2>1, <3>1 DEF Sane, Fresh, Current, Asked, Owed, fixed, wallets
  <2>2. CASE q # r
    BY <1>0, <1>2, <2>2 DEF Sane, Fresh, Current, Asked, Owed, fixed, wallets
  <2> QED  BY <2>1, <2>2
<1>5. Apart'
  <2>1. ASSUME NEW q \in Workers \ {r}, job'[q].commit = "sent"
        PROVE  ~Clash(job'[r], job'[q]) /\ ~Clash(job'[q], job'[r])
    <3>1. job'[q] = job[q] /\ job[q] \in Jobs  BY <1>2 DEF TypeOK
    <3>2. ~Clash(job[r], job[q]) /\ ~Clash(job[q], job[r])
      BY <1>0, <2>1, <3>1, ClashBothWays
    <3> QED  BY <1>1, <1>2, <3>1, <3>2 DEF Clash
  <2>2. \A q, s \in Workers \ {r} :
          job'[q].commit = "sent" /\ job'[s].commit = "sent" /\ Clash(job'[q], job'[s]) => q = s
    BY <1>2 DEF Apart
  <2>3. ASSUME NEW q \in Workers, NEW s \in Workers, job'[q].commit = "sent",
               job'[s].commit = "sent", Clash(job'[q], job'[s])
        PROVE  q = s
    BY <2>1, <2>2, <2>3
  <2>4. Apart' <=> \A q, s \in Workers :
          job'[q].commit = "sent" /\ job'[s].commit = "sent" /\ Clash(job'[q], job'[s]) => q = s
    BY DEF Apart, Clash
  <2> QED  BY <2>3, <2>4
<1>6. BooksSane'  BY <1>0 DEF BooksSane, fixed, wallets
<1>7. ASSUME NEW v \in Users, NEW y \in Rewards PROVE ClaimsSane(v, y)'
  <2>1. ClaimsSane(v, y) /\ paid' = paid /\ faults' = faults /\ claimed' = claimed
    BY <1>0 DEF wallets
  <2>2. \A q \in Workers : Holds(q, v, y)' <=> Holds(q, v, y)
    BY <1>0, <1>1, <1>2 DEF Holds, Holding
  <2> QED  BY <2>1, <2>2 DEF ClaimsSane
<1> QED  BY <1>3, <1>4, <1>5, <1>6, <1>7

\* What is consumed at Google Play is complete.
LEMMA ConsumeKeeps ==
  ASSUME IInv, NEW r \in Workers, Consume(r)
  PROVE  IInv'
<1> USE DEF IInv
<1>0. /\ at[r] = "consume" /\ job[r] \in Jobs /\ Sane("consume", job[r])
      /\ UNCHANGED <<fixed, wallets, progress, claimed, faults>>
      /\ "idle" \in Labels /\ Go(r, "idle", NoJob) /\ consumed' = consumed \cup {job[r].item}
  BY DEF Consume, Quit, TypeOK, Labels
<1>2. /\ at' \in [Workers -> Labels] /\ job' \in [Workers -> Jobs]
      /\ at'[r] = "idle" /\ job'[r] = NoJob
      /\ \A q \in Workers \ {r} : at'[q] = at[q] /\ job'[q] = job[q]
  BY <1>0, GoType, JobTypes
<1>3. NoJob.op = "none" /\ NoJob.commit = "none" /\ ~NoJob.stale  BY DEF NoJob
<1>4. job[r].item \in Purchases /\ store[job[r].item] = "google"
      /\ record[job[r].item].status = "completed"
  BY <1>0 DEF Sane
<1>5. TypeOK'  BY <1>0, <1>2, <1>4 DEF TypeOK, fixed, wallets
<1>6. ASSUME NEW q \in Workers PROVE Sane(at[q], job[q])' /\ Fresh(at[q], job[q])'
  <2>1. CASE q = r  BY <1>2, <1>3, <2>1 DEF Sane, Fresh
  <2>2. CASE q # r
    BY <1>0, <1>2, <2>2 DEF Sane, Fresh, Current, Asked, Owed, fixed, wallets
  <2> QED  BY <2>1, <2>2
<1>7. Apart'  BY <1>2, <1>3 DEF Apart, Clash
<1>8. BooksSane'  BY <1>0, <1>4 DEF BooksSane, fixed, wallets
<1>9. ASSUME NEW v \in Users, NEW y \in Rewards PROVE ClaimsSane(v, y)'
  <2>1. ClaimsSane(v, y) /\ paid' = paid /\ faults' = faults /\ claimed' = claimed
    BY <1>0 DEF wallets
  <2>2. \A q \in Workers : Holds(q, v, y)' <=> Holds(q, v, y)
    BY <1>0, <1>2, <1>3 DEF Holds, Holding, Sane
  <2> QED  BY <2>1, <2>2 DEF ClaimsSane
<1> QED  BY <1>5, <1>6, <1>7, <1>8, <1>9
\* What a commit finds: what it was decided on.
LEMMA CommitFinds ==
  ASSUME IInv, NEW r \in Workers, Commit(r)
  PROVE  /\ TypeOK /\ job[r] \in Jobs /\ job[r].commit = "sent" /\ Asked(job[r]) /\ Current(job[r])
         /\ at[r] \in {"sent", "unheard", "orphan"} /\ ~job[r].stale
  BY DEF Commit, IInv, TypeOK, Fresh, Sane

\* What it does to the wallet, and to the books.
LEMMA CommitWrites ==
  ASSUME IInv, NEW r \in Workers, Commit(r)
  PROVE  /\ coins' = [coins EXCEPT ![job[r].user] = coins[job[r].user] + job[r].delta]
         /\ coins[job[r].user] + job[r].delta \in 0..Cap
         /\ job[r].op = "purchase" =>
              /\ RecordAfter(job[r].item, job[r].delta) \in Records
              /\ RecordAfter(job[r].item, job[r].delta).amount = record[job[r].item].amount + job[r].delta
              /\ record[job[r].item].amount + job[r].delta <= Price
              /\ RecordAfter(job[r].item, job[r].delta).status = "completed" /\ store[job[r].item] # "stripe"
                   => RecordAfter(job[r].item, job[r].delta).amount = Price
<1> DEFINE j == job[r]
<1>0. TypeOK /\ j \in Jobs /\ Asked(j) /\ Current(j)  BY CommitFinds
<1>1. j.user \in Users /\ coins[j.user] \in 0..Cap /\ j.delta \in Int /\ j.base \in 0..Cap
  BY <1>0 DEF TypeOK, Asked, Jobs
<1>2. ASSUME j.delta = 0
      PROVE  /\ coins' = [coins EXCEPT ![j.user] = coins[j.user] + j.delta]
             /\ coins[j.user] + j.delta \in 0..Cap
  <2>1. coins' = coins  BY <1>2 DEF Commit
  <2>2. coins[j.user] + j.delta = coins[j.user]  BY <1>1, <1>2
  <2>3. coins = [coins EXCEPT ![j.user] = coins[j.user]]  BY <1>0 DEF TypeOK
  <2> QED  BY <1>1, <2>1, <2>2, <2>3
<1>3. ASSUME j.delta # 0
      PROVE  /\ coins' = [coins EXCEPT ![j.user] = coins[j.user] + j.delta]
             /\ coins[j.user] + j.delta \in 0..Cap
  <2>1. coins' = [coins EXCEPT ![j.user] = j.base + j.delta]  BY <1>3 DEF Commit
  <2>2. j.base = coins[j.user] /\ j.base + j.delta \in 0..Cap  BY <1>0, <1>3 DEF Current
  <2> QED  BY <2>1, <2>2
<1>4. ASSUME j.op = "purchase"
      PROVE  /\ RecordAfter(j.item, j.delta) \in Records
             /\ RecordAfter(j.item, j.delta).amount = record[j.item].amount + j.delta
             /\ record[j.item].amount + j.delta <= Price
             /\ RecordAfter(j.item, j.delta).status = "completed" /\ store[j.item] # "stripe"
                  => RecordAfter(j.item, j.delta).amount = Price
  <2>1. j.item \in Purchases /\ j.delta \in 0..(Price - record[j.item].amount)
    BY <1>0, <1>4 DEF Asked, Current, Owed
  <2>2. record[j.item].amount \in 0..Price  BY <1>0, <2>1 DEF TypeOK, Records
  <2>3. record[j.item].amount + j.delta \in 0..Price  BY <1>1, <2>1, <2>2
  <2>4. RecordAfter(j.item, j.delta) =
          [status |-> IF store[j.item] = "stripe" \/ record[j.item].amount + j.delta >= Price
                      THEN "completed" ELSE "pending",
           amount |-> record[j.item].amount + j.delta]
    BY DEF RecordAfter
  <2>5. RecordAfter(j.item, j.delta) \in Records  BY <2>3, <2>4 DEF Records
  <2> QED  BY <2>3, <2>4, <2>5
<1> QED  BY <1>1, <1>2, <1>3, <1>4

\* What it does to the requests.
LEMMA CommitTells ==
  ASSUME IInv, NEW r \in Workers, Commit(r)
  PROVE  /\ at' \in [Workers -> Labels] /\ job' \in [Workers -> Jobs]
         /\ \/ at'[r] = "idle" /\ job'[r] = NoJob
            \/ /\ at[r] # "orphan" /\ at'[r] = at[r]
               /\ job'[r].op = job[r].op /\ job'[r].user = job[r].user
               /\ job'[r].item = job[r].item /\ job'[r].commit = "applied" /\ ~job'[r].stale
         /\ \A q \in Workers \ {r} :
              /\ at'[q] = at[q]
              /\ job'[q].op = job[q].op /\ job'[q].user = job[q].user
              /\ job'[q].item = job[q].item /\ job'[q].commit = job[q].commit
              /\ \/ job'[q] = job[q] /\ ~(at[q] = "write" /\ Clash(job[r], job[q]))
                 \/ at[q] = "write" /\ job'[q].stale
<1> DEFINE j == job[r]
           told == Settled([j EXCEPT !.commit = "applied"])
           late(q) == Settled([job[q] EXCEPT !.stale = TRUE])
<1>0. TypeOK /\ j \in Jobs /\ at[r] \in {"sent", "unheard", "orphan"} /\ ~j.stale  BY CommitFinds
<1>1. /\ at' = IF at[r] = "orphan" THEN Put(at, r, "idle") ELSE at
      /\ job' = [q \in Workers |->
                   IF q = r THEN IF at[r] = "orphan" THEN NoJob ELSE told
                   ELSE IF at[q] = "write" /\ Clash(j, job[q]) THEN late(q) ELSE job[q]]
  <2>1. job' = [q \in Workers |->
                  IF q # r THEN Overtaken(q, j)
                  ELSE IF at[r] = "orphan" THEN NoJob ELSE told]
    BY DEF Commit
  <2>2. \A q \in Workers :
          Overtaken(q, j) = IF at[q] = "write" /\ Clash(j, job[q]) THEN late(q) ELSE job[q]
    BY DEF Overtaken
  <2>3. at' = IF at[r] = "orphan" THEN Put(at, r, "idle") ELSE at  BY DEF Commit
  <2> QED  BY <2>1, <2>2, <2>3
<1>2. [j EXCEPT !.commit = "applied"] \in Jobs  BY <1>0 DEF Jobs
<1>3. /\ told \in Jobs /\ told.op = j.op /\ told.user = j.user /\ told.item = j.item
      /\ told.commit = "applied" /\ ~told.stale
  <2>1. told \in Jobs  BY <1>2, JobTypes
  <2>2. told = [j EXCEPT !.commit = "applied", !.base = 0, !.delta = 0]
    BY <1>0 DEF Settled, Jobs
  <2> HIDE DEF told
  <2>3. told.op = j.op /\ told.user = j.user /\ told.item = j.item /\ told.stale = j.stale
    BY <1>0, <2>2 DEF Jobs
  <2>4. told.commit = "applied"  BY <1>0, <2>2 DEF Jobs
  <2> QED  BY <1>0, <2>1, <2>3, <2>4
<1>4. ASSUME NEW q \in Workers
      PROVE  /\ late(q) \in Jobs /\ late(q).op = job[q].op /\ late(q).user = job[q].user
             /\ late(q).item = job[q].item /\ late(q).commit = job[q].commit /\ late(q).stale
  <2>1. job[q] \in Jobs  BY <1>0 DEF TypeOK
  <2>2. [job[q] EXCEPT !.stale = TRUE] \in Jobs  BY <2>1 DEF Jobs
  <2> QED  BY <2>1, <2>2, JobTypes DEF Settled, Jobs
<1> HIDE DEF told, late
<1>5. at' \in [Workers -> Labels]  BY <1>0, <1>1 DEF TypeOK, Put, Labels
<1>6. job' \in [Workers -> Jobs]  BY <1>0, <1>1, <1>3, <1>4, JobTypes DEF TypeOK
<1>7. \A q \in Workers \ {r} :
        /\ at'[q] = at[q]
        /\ job'[q].op = job[q].op /\ job'[q].user = job[q].user
        /\ job'[q].item = job[q].item /\ job'[q].commit = job[q].commit
        /\ \/ job'[q] = job[q] /\ ~(at[q] = "write" /\ Clash(j, job[q]))
           \/ at[q] = "write" /\ job'[q].stale
  BY <1>0, <1>1, <1>4 DEF TypeOK, Put
<1>8. CASE at[r] = "orphan"
  BY <1>0, <1>1, <1>5, <1>6, <1>7, <1>8 DEF TypeOK, Put
<1>9. CASE at[r] # "orphan"
  BY <1>0, <1>1, <1>3, <1>5, <1>6, <1>7, <1>9
<1> QED  BY <1>8, <1>9

\* A commit keeps everybody else's decisions, or makes them stale.
LEMMA CommitKeeps ==
  ASSUME IInv, NEW r \in Workers, Commit(r)
  PROVE  IInv'
<1> USE DEF IInv
<1> DEFINE j == job[r]
           u == job[r].user
           x == job[r].item
<1>0. /\ TypeOK /\ j \in Jobs /\ j.commit = "sent" /\ Asked(j) /\ Current(j)
      /\ at[r] \in {"sent", "unheard", "orphan"}
      /\ UNCHANGED <<fixed, consumed, progress, claimed, faults>>
  BY CommitFinds DEF Commit
<1>1. u \in Users  BY <1>0 DEF Asked
<1>2. /\ coins' \in [Users -> 0..Cap]
      /\ \A v \in Users : coins'[v] = IF v = u THEN coins[u] + j.delta ELSE coins[v]
  BY <1>0, <1>1, CommitWrites DEF TypeOK
<1>3. /\ record' \in [Purchases -> Records]
      /\ \A p \in Purchases :
           \/ record'[p] = record[p] /\ ~(j.op = "purchase" /\ p = x)
           \/ /\ j.op = "purchase" /\ p = x /\ record[p].status # "completed"
              /\ record'[p].status = "completed" /\ store[p] # "stripe" => record'[p].amount = Price
  <2>1. CASE j.op = "purchase"
    <3>1. record' = [record EXCEPT ![x] = RecordAfter(x, j.delta)]  BY <2>1 DEF Commit
    <3>2. x \in Purchases /\ record[x].status # "completed"
      BY <1>0, <2>1 DEF Asked, Current
    <3> QED  BY <1>0, <2>1, <3>1, <3>2, CommitWrites DEF TypeOK
  <2>2. CASE j.op # "purchase"
    <3>1. record' = record  BY <2>2 DEF Commit
    <3> QED  BY <1>0, <2>2, <3>1 DEF TypeOK
  <2> QED  BY <2>1, <2>2
<1>4. gifts' \in [Users -> Nat]
  BY <1>0, <1>1 DEF Commit, TypeOK
<1>5. /\ access' \in [Users -> SUBSET Paywalls]
      /\ \A v \in Users : access'[v] = IF j.op = "access" /\ v = u THEN access[v] \cup {x} ELSE access[v]
  BY <1>0, <1>1 DEF Commit, TypeOK, Asked
<1>6. /\ paid' \in [Users -> [Rewards -> [entries : Nat, amount : Nat]]]
      /\ \A v \in Users, y \in Rewards :
           paid'[v][y] = IF j.op = "reward" /\ v = u /\ y = x
                         THEN [entries |-> paid[v][y].entries + 1, amount |-> paid[v][y].amount + j.delta]
                         ELSE paid[v][y]
  <2>1. CASE j.op = "reward"
    <3>1. paid' = [paid EXCEPT ![u][x] = [entries |-> @.entries + 1, amount |-> @.amount + j.delta]]
      BY <2>1 DEF Commit
    <3>2. x \in Rewards /\ j.delta \in Nat
      BY <1>0, <2>1, Amounts DEF Asked, Current
    <3>3. [entries |-> paid[u][x].entries + 1, amount |-> paid[u][x].amount + j.delta]
            \in [entries : Nat, amount : Nat]
      BY <1>0, <1>1, <3>2 DEF TypeOK
    <3> QED  BY <1>0, <1>1, <2>1, <3>1, <3>2, <3>3 DEF TypeOK
  <2>2. CASE j.op # "reward"
    <3>1. paid' = paid  BY <2>2 DEF Commit
    <3> QED  BY <1>0, <2>2, <3>1 DEF TypeOK
  <2> QED  BY <2>1, <2>2
<1>7. /\ at' \in [Workers -> Labels] /\ job' \in [Workers -> Jobs]
      /\ \/ at'[r] = "idle" /\ job'[r] = NoJob
         \/ /\ at[r] # "orphan" /\ at'[r] = at[r]
            /\ job'[r].op = job[r].op /\ job'[r].user = job[r].user
            /\ job'[r].item = job[r].item /\ job'[r].commit = "applied" /\ ~job'[r].stale
      /\ \A q \in Workers \ {r} :
           /\ at'[q] = at[q]
           /\ job'[q].op = job[q].op /\ job'[q].user = job[q].user
           /\ job'[q].item = job[q].item /\ job'[q].commit = job[q].commit
           /\ \/ job'[q] = job[q] /\ ~(at[q] = "write" /\ Clash(job[r], job[q]))
              \/ at[q] = "write" /\ job'[q].stale
  BY CommitTells
<1>8. NoJob.op = "none" /\ NoJob.commit = "none" /\ ~NoJob.stale  BY DEF NoJob
<1>9. TypeOK'
  BY <1>0, <1>2, <1>3, <1>4, <1>5, <1>6, <1>7 DEF TypeOK, fixed
<1>10. ASSUME NEW q \in Workers PROVE Sane(at[q], job[q])'
  <2>0. Sane(at[q], job[q]) /\ store' = store  BY <1>0 DEF fixed
  <2>1. CASE q = r
    BY <1>0, <1>7, <1>8, <2>0, <2>1 DEF Sane, Asked
  <2>2. CASE q # r
    <3>1. at[q] = "consume" => record'[job[q].item].status = "completed"
      BY <1>3, <2>0 DEF Sane
    <3> QED  BY <1>7, <2>0, <2>2, <3>1 DEF Sane, Asked
  <2> QED  BY <2>1, <2>2
<1>11. ASSUME NEW q \in Workers PROVE Fresh(at[q], job[q])'
  <2>1. CASE q = r  BY <1>0, <1>7, <1>8, <2>1 DEF Fresh
  <2>2. CASE q # r /\ (job[q].commit = "sent" \/ (at[q] = "write" /\ ~job'[q].stale))
    <3>0. job[q] \in Jobs /\ Sane(at[q], job[q]) /\ Fresh(at[q], job[q])  BY <1>0 DEF TypeOK
    <3>1. job'[q] = job[q] /\ ~Clash(j, job[q])
      BY <1>0, <1>7, <2>2, <3>0 DEF Apart, Sane
    <3>2. Current(job[q]) /\ Asked(job[q])
      BY <2>2, <3>0, <3>1 DEF Fresh, Sane
    <3>3. job[q].delta # 0 => coins'[job[q].user] = coins[job[q].user]
      <4>1. job[q].user \in Users /\ j.delta \in Int  BY <1>0, <3>2 DEF Asked, Jobs
      <4>2. coins[u] \in Int  BY <1>0, <1>1 DEF TypeOK
      <4> QED  BY <1>2, <3>1, <4>1, <4>2 DEF Clash
    <3>4. job[q].op = "purchase" => record'[job[q].item] = record[job[q].item]
      BY <1>3, <3>1, <3>2 DEF Clash, Asked
    <3>5. job[q].op = "access" => job[q].item \notin access'[job[q].user]
      BY <1>5, <3>1, <3>2 DEF Clash, Asked, Current
    <3>6. /\ job[q].delta # 0 => job[q].base = coins'[job[q].user]
          /\ job[q].op = "purchase" => /\ record'[job[q].item].status # "completed"
                                       /\ job[q].delta \in 0..(Price - record'[job[q].item].amount)
      BY <3>2, <3>3, <3>4 DEF Current, Owed
    <3> QED  BY <3>1, <3>2, <3>5, <3>6 DEF Fresh, Current, Owed
  <2> QED  BY <1>7, <2>1, <2>2 DEF Fresh
<1>12. Apart'
  <2>1. job'[r].commit # "sent"  BY <1>7, <1>8
  <2>2. \A q \in Workers : job'[q].commit = "sent" => job'[q] = job[q]
    <3>1. \A q \in Workers : at[q] = "write" => job[q].commit # "sent"  BY DEF Sane
    <3> QED  BY <1>7, <2>1, <3>1
  <2> QED  BY <2>2 DEF Apart, Clash
<1>13. BooksSane'
  <2>1. ASSUME NEW v \in Users PROVE IsFiniteSet(access'[v])
    <3>1. IsFiniteSet(access[v])  BY DEF BooksSane
    <3>2. IsFiniteSet(access[v] \cup {x})  BY <3>1, FS_AddElement
    <3>3. access'[v] = access[v] \/ access'[v] = access[v] \cup {x}  BY <1>5
    <3> QED  BY <3>1, <3>2, <3>3
  <2>2. \A p \in consumed : store[p] = "google" /\ record[p].status = "completed" /\ p \in Purchases
    BY <1>0 DEF BooksSane, TypeOK
  <2>3. \A p \in consumed : record'[p] = record[p]  BY <1>3, <2>2
  <2>4. \A p \in Purchases :
          record'[p].status = "completed" /\ store[p] # "stripe" => record'[p].amount = Price
    BY <1>3 DEF BooksSane
  <2> QED  BY <1>0, <2>1, <2>2, <2>3, <2>4 DEF BooksSane, fixed
<1>14. ASSUME NEW v \in Users, NEW y \in Rewards PROVE ClaimsSane(v, y)'
  <2>0. ClaimsSane(v, y) /\ claimed' = claimed /\ faults' = faults  BY <1>0
  <2>1. \A q \in Workers \ {r} : Holds(q, v, y)' <=> Holds(q, v, y)
    BY <1>7 DEF Holds, Holding
  <2>2. ~Holds(r, v, y)'  BY <1>0, <1>7, <1>8 DEF Holds, Holding
  <2>3. Holds(r, v, y) <=> j.op = "reward" /\ v = u /\ y = x
    BY <1>0 DEF Holds, Holding
  <2>4. CASE j.op = "reward" /\ v = u /\ y = x
    <3>1. paid[v][y].entries = 0 /\ y \in claimed[v] /\ \A q \in Workers : Holds(q, v, y) => q = r
      BY <2>0, <2>3, <2>4 DEF ClaimsSane
    <3>2. paid'[v][y].entries = 1
      <4>1. paid'[v][y] = [entries |-> paid[v][y].entries + 1, amount |-> paid[v][y].amount + j.delta]
        BY <1>6, <2>4
      <4>2. paid'[v][y].entries = paid[v][y].entries + 1  BY <4>1
      <4> QED  BY <3>1, <4>2
    <3>3. \A q \in Workers : ~Holds(q, v, y)'  BY <2>1, <2>2, <3>1
    <3> QED  BY <2>0, <3>1, <3>2, <3>3 DEF ClaimsSane
  <2>5. CASE ~(j.op = "reward" /\ v = u /\ y = x)
    <3>1. paid'[v][y] = paid[v][y]  BY <1>6, <2>5
    <3>2. \A q \in Workers : Holds(q, v, y)' <=> Holds(q, v, y)
      BY <2>1, <2>2, <2>3, <2>5
    <3> QED  BY <2>0, <3>1, <3>2 DEF ClaimsSane
  <2> QED  BY <2>4, <2>5
<1> QED  BY <1>9, <1>10, <1>11, <1>12, <1>13, <1>14

\* A write of something else only makes decisions stale.
LEMMA WriteElsewhereKeeps ==
  ASSUME IInv, NEW u \in Users, WriteElsewhere(u)
  PROVE  IInv'
<1> USE DEF IInv
<1> DEFINE late(q) == Settled([job[q] EXCEPT !.stale = TRUE])
<1>0. UNCHANGED <<fixed, wallets, consumed, progress, claimed, at, faults>>
  BY DEF WriteElsewhere
<1>1. job' \in [Workers -> Jobs]
      /\ \A q \in Workers : job'[q] = job[q] \/ (at[q] = "write" /\ job'[q] = late(q))
  <2>1. \A q \in Workers : late(q) \in Jobs
    <3>1. \A k \in Jobs : [k EXCEPT !.stale = TRUE] \in Jobs  BY DEF Jobs
    <3> QED  BY <3>1, JobTypes DEF TypeOK
  <2>2. PICK k : job' = [q \in Workers |-> Overtaken(q, k)]  BY DEF WriteElsewhere
  <2>3. \A q \in Workers : Overtaken(q, k) = job[q] \/ (at[q] = "write" /\ Overtaken(q, k) = late(q))
    BY DEF Overtaken
  <2> HIDE DEF late
  <2>4. \A q \in Workers : job[q] \in Jobs  BY DEF TypeOK
  <2>5. \A q \in Workers : Overtaken(q, k) \in Jobs  BY <2>1, <2>3, <2>4
  <2>6. \A q \in Workers : job'[q] = Overtaken(q, k)  BY <2>2
  <2>7. job' \in [Workers -> Jobs]  BY <2>2, <2>5
  <2> QED  BY <2>3, <2>6, <2>7
<1>2. \A q \in Workers :
        /\ late(q).op = job[q].op /\ late(q).user = job[q].user /\ late(q).item = job[q].item
        /\ late(q).commit = job[q].commit /\ late(q).stale
  BY DEF TypeOK, Settled, Jobs
<1> HIDE DEF late
<1>3. \A q \in Workers :
        /\ at'[q] = at[q]
        /\ job'[q].op = job[q].op /\ job'[q].user = job[q].user /\ job'[q].item = job[q].item
        /\ job'[q].commit = job[q].commit
        /\ job'[q] = job[q] \/ (at[q] = "write" /\ job'[q].stale)
  BY <1>0, <1>1, <1>2
<1>4. TypeOK'  BY <1>0, <1>1 DEF TypeOK, fixed, wallets
<1>5. ASSUME NEW q \in Workers PROVE Sane(at[q], job[q])' /\ Fresh(at[q], job[q])'
  <2>1. Sane(at[q], job[q]) /\ Fresh(at[q], job[q])  OBVIOUS
  <2>2. CASE job'[q] = job[q]
    BY <1>0, <2>1, <2>2 DEF Sane, Fresh, Current, Asked, Owed, fixed, wallets
  <2>3. CASE at[q] = "write" /\ job'[q].stale
    BY <1>0, <1>3, <2>1, <2>3 DEF Sane, Fresh, Asked, fixed, wallets
  <2> QED  BY <1>3, <2>2, <2>3
<1>6. Apart'
  <2>1. \A q \in Workers : job'[q].commit = "sent" => job'[q] = job[q]
    <3>1. \A q \in Workers : at[q] = "write" => job[q].commit # "sent"  BY DEF Sane
    <3> QED  BY <1>3, <3>1
  <2> QED  BY <2>1 DEF Apart, Clash
<1>7. BooksSane'  BY <1>0 DEF BooksSane, fixed, wallets
<1>8. ASSUME NEW v \in Users, NEW y \in Rewards PROVE ClaimsSane(v, y)'
  <2>1. ClaimsSane(v, y) /\ paid' = paid /\ faults' = faults /\ claimed' = claimed
    BY <1>0 DEF wallets
  <2>2. \A q \in Workers : Holds(q, v, y)' <=> Holds(q, v, y)  BY <1>3 DEF Holds, Holding
  <2> QED  BY <2>1, <2>2 DEF ClaimsSane
<1> QED  BY <1>4, <1>5, <1>6, <1>7, <1>8
-----------------------------------------------------------------------------
(***************************************************************************)
(* The invariant, and what it shows.                                       *)
(***************************************************************************)
\* Initially nobody is at work, and nothing was bought, given or paid.
LEMMA InvInit == Init => IInv
<1> SUFFICES ASSUME Init PROVE IInv  OBVIOUS
<1>1. /\ \A r \in Workers : at[r] = "idle" /\ job[r] = NoJob
      /\ \A p \in Purchases : record[p] = [status |-> "none", amount |-> 0]
      /\ consumed = {} /\ \A u \in Users : access[u] = {} /\ claimed[u] = {}
      /\ \A u \in Users, x \in Rewards : paid[u][x] = [entries |-> 0, amount |-> 0]
  BY DEF Init
<1>2. NoJob.op = "none" /\ NoJob.commit = "none" /\ ~NoJob.stale  BY DEF NoJob
<1>3. TypeOK
  <2>1. coins \in [Users -> 0..Cap] /\ opening \in [Users -> 0..Cap] /\ store \in [Purchases -> Stores]
    BY DEF Init
  <2>2. record \in [Purchases -> Records]
    <3>1. 0 \in 0..Price  OBVIOUS
    <3> QED  BY <3>1 DEF Init, Records
  <2>3. /\ consumed \subseteq Purchases /\ gifts \in [Users -> Nat]
        /\ access \in [Users -> SUBSET Paywalls] /\ claimed \in [Users -> SUBSET Rewards]
        /\ progress \in [Users -> [Missions -> Nat]] /\ faults \in 0..MaxFaults
    BY DEF Init
  <2>4. paid \in [Users -> [Rewards -> [entries : Nat, amount : Nat]]]  BY DEF Init
  <2>5. at \in [Workers -> Labels] /\ job \in [Workers -> Jobs]
    BY JobTypes DEF Init, Labels
  <2> QED  BY <2>1, <2>2, <2>3, <2>4, <2>5 DEF TypeOK
<1>4. ASSUME NEW r \in Workers PROVE Sane(at[r], job[r]) /\ Fresh(at[r], job[r])
  BY <1>1, <1>2 DEF Sane, Fresh
<1>5. Apart  BY <1>1, <1>2 DEF Apart
<1>6. BooksSane
  <2>1. IsFiniteSet({})  BY FS_EmptySet
  <2>2. ASSUME NEW p \in Purchases PROVE record[p].status # "completed"
    BY <1>1
  <2>3. ASSUME NEW u \in Users PROVE IsFiniteSet(access[u])
    <3>1. access[u] = {}  BY <1>1
    <3> QED  BY <2>1, <3>1
  <2>4. consumed = {}  BY <1>1
  <2> QED  BY <2>2, <2>3, <2>4 DEF BooksSane
<1>7. ASSUME NEW u \in Users, NEW x \in Rewards PROVE ClaimsSane(u, x)
  BY <1>1, <1>2 DEF ClaimsSane, Holds, Holding
<1> QED  BY <1>3, <1>4, <1>5, <1>6, <1>7 DEF IInv

\* Nothing changes when nothing happens.
LEMMA StutterKeeps == IInv /\ UNCHANGED vars => IInv'
<1> SUFFICES ASSUME IInv, UNCHANGED vars PROVE IInv'  OBVIOUS
<1> USE DEF IInv, vars
<1>1. TypeOK'  BY DEF TypeOK
<1>2. \A q \in Workers : Sane(at[q], job[q])' /\ Fresh(at[q], job[q])'
  BY DEF Sane, Fresh, Current, Asked, Owed
<1>3. Apart' /\ BooksSane'  BY DEF Apart, Clash, BooksSane
<1>4. \A v \in Users, y \in Rewards : ClaimsSane(v, y)'
  BY DEF ClaimsSane, Holds, Holding
<1> QED  BY <1>1, <1>2, <1>3, <1>4

\* Every step keeps the invariant.
LEMMA InvNext == IInv /\ [Next]_vars => IInv'
<1> SUFFICES ASSUME IInv, [Next]_vars PROVE IInv'  OBVIOUS
<1>1. CASE UNCHANGED vars  BY <1>1, StutterKeeps
<1>2. ASSUME NEW r \in Workers, Step(r) PROVE IInv'
  BY <1>2, ClaimKeeps, BeginKeeps, WriteKeeps, ConflictKeeps, CommitKeeps, CommittedKeeps,
     ReconcileKeeps, ConsumeKeeps, PutBackKeeps, AllMissionsKeeps DEF Step
<1>3. ASSUME NEW r \in Workers, Timeout(r) \/ Abort(r) \/ Fail(r) \/ Crash(r) PROVE IInv'
  BY <1>3, TimeoutKeeps, AbortKeeps, FailKeeps
<1>4. ASSUME NEW u \in Users, WriteElsewhere(u) PROVE IInv'
  BY <1>4, WriteElsewhereKeeps
<1> QED  BY <1>1, <1>2, <1>3, <1>4, ArriveKeeps DEF Next

\* The inductive invariant of the coins.
THEOREM Invariant == Spec => []IInv
  BY InvInit, InvNext, PTL DEF Spec

\* Every variable keeps its type, and no wallet is ever overdrawn or above the cap,
\* whatever commits between a request's read of it and its write.
THEOREM WalletsStayInBounds == Spec => []TypeOK
  BY Invariant, PTL DEF IInv

\* A purchase that was consumed at Google Play was credited in full, even when the
\* answer to its commit was lost and the record had to be asked.
THEOREM ConsumedIsDelivered == Spec => []ConsumedMeansDelivered
<1>1. IInv => ConsumedMeansDelivered
  <2> SUFFICES ASSUME IInv, NEW p \in consumed
               PROVE  record[p] = [status |-> "completed", amount |-> Price]
    BY DEF ConsumedMeansDelivered
  <2>1. p \in Purchases /\ record[p] \in Records  BY DEF IInv, TypeOK
  <2>2. store[p] = "google" /\ record[p].status = "completed"  BY DEF IInv, BooksSane
  <2>3. record[p].amount = Price  BY <2>1, <2>2 DEF IInv, BooksSane
  <2> QED  BY <2>1, <2>2, <2>3 DEF Records
<1> QED  BY <1>1, Invariant, PTL

\* A mission's reward and the bonus are paid once at most, though their flags are
\* put back when a payment fails.
THEOREM RewardsArePaidOnce == Spec => []RewardPaidOnce
<1>1. IInv => RewardPaidOnce  BY DEF IInv, ClaimsSane, RewardPaidOnce
<1> QED  BY <1>1, Invariant, PTL

\* Where nothing fails, a flag that no request is working on is set exactly when the
\* reward was paid: no conflict leaves it set without the payment, or unset after it.
\* (That a flag put back is tried again is not said; the bonus is not.)
THEOREM FlagsTellOfPayment == Spec => []FlagMeansPaid
<1>1. IInv => FlagMeansPaid
  <2> SUFFICES ASSUME IInv, faults = 0, NEW u \in Users, NEW x \in Rewards,
                      \A r \in Workers : ~(job[r].op = "reward" /\ job[r].user = u /\ job[r].item = x)
               PROVE  x \in claimed[u] <=> paid[u][x].entries = 1
    BY DEF FlagMeansPaid
  <2>1. ClaimsSane(u, x)  BY DEF IInv
  <2>2. \A r \in Workers : ~Holds(r, u, x)  BY DEF Holds, Holding
  <2> QED  BY <2>1, <2>2 DEF ClaimsSane
<1> QED  BY <1>1, Invariant, PTL

-----------------------------------------------------------------------------
(***************************************************************************)
(* The wallets are a CoinVault.                                            *)
(***************************************************************************)
vault == <<coins, Credited, Spent>>

\* What the wallets held at first stays written.
LEMMA OpeningStays == [Next]_vars => opening' = opening
<1>1. UNCHANGED vars => opening' = opening  BY DEF vars
<1>2. ASSUME NEW r \in Workers, Step(r) PROVE opening' = opening
  BY <1>2 DEF Step, Claim, Begin, Write, Conflict, Commit, Committed, Reconcile, Consume, PutBack,
              AllMissions, fixed
<1>3. ASSUME NEW r \in Workers, Timeout(r) \/ Abort(r) \/ Fail(r) \/ Crash(r)
      PROVE  opening' = opening
  BY <1>3 DEF Timeout, Abort, Fail, Crash, fixed
<1>4. ASSUME NEW r \in Workers,
             \/ \E p \in Purchases : Deliver(r, p)
             \/ \E u \in Users : SendGift(r, u)
             \/ \E u \in Users, a \in Paywalls : Unlock(r, u, a)
             \/ \E u \in Players, m \in Missions : TrackEvent(r, u, m)
      PROVE  opening' = opening
  BY <1>4 DEF Deliver, SendGift, Unlock, TrackEvent, fixed
<1>5. ASSUME NEW u \in Users, WriteElsewhere(u) PROVE opening' = opening
  BY <1>5 DEF WriteElsewhere, fixed
<1> QED  BY <1>1, <1>2, <1>3, <1>4, <1>5 DEF Next

\* Only a commit moves coins.
LEMMA OnlyCommitsMoveCoins ==
  ASSUME [Next]_vars, \A r \in Workers : ~Commit(r)
  PROVE  UNCHANGED <<wallets, store>>
<1>1. CASE UNCHANGED vars  BY <1>1 DEF vars, wallets
<1>2. ASSUME NEW r \in Workers, Step(r) PROVE UNCHANGED <<wallets, store>>
  BY <1>2 DEF Step, Claim, Begin, Write, Conflict, Committed, Reconcile, Consume, PutBack,
              AllMissions, fixed
<1>3. ASSUME NEW r \in Workers, Timeout(r) \/ Abort(r) \/ Fail(r) \/ Crash(r)
      PROVE  UNCHANGED <<wallets, store>>
  BY <1>3 DEF Timeout, Abort, Fail, Crash, fixed
<1>4. ASSUME NEW r \in Workers,
             \/ \E p \in Purchases : Deliver(r, p)
             \/ \E u \in Users : SendGift(r, u)
             \/ \E u \in Users, a \in Paywalls : Unlock(r, u, a)
             \/ \E u \in Players, m \in Missions : TrackEvent(r, u, m)
      PROVE  UNCHANGED <<wallets, store>>
  BY <1>4 DEF Deliver, SendGift, Unlock, TrackEvent, fixed
<1>5. ASSUME NEW u \in Users, WriteElsewhere(u) PROVE UNCHANGED <<wallets, store>>
  BY <1>5 DEF WriteElsewhere, fixed
<1> QED  BY <1>1, <1>2, <1>3, <1>4, <1>5 DEF Next

\* A credit, from a purchase or a reward, is one of the vault, or of nothing.
LEMMA CreditStep ==
  ASSUME TypeOK, NEW s \in Sources, NEW n \in Nat, SourceHolder[s] \in Users,
         coins[SourceHolder[s]] + n \in 0..Cap,
         coins' = [coins EXCEPT ![SourceHolder[s]] = coins[SourceHolder[s]] + n],
         Credited[s] \in Nat, Credited[s] + n <= SourceWorth[s],
         Credited' = [Credited EXCEPT ![s] = Credited[s] + n],
         Spent' = Spent
  PROVE  [Vault!Next]_vault
<1>0. coins[SourceHolder[s]] \in 0..Cap  BY DEF TypeOK
<1>1. CASE n = 0
  <2>1. coins' = coins
    <3>1. coins[SourceHolder[s]] + n = coins[SourceHolder[s]]  BY <1>0, <1>1
    <3> QED  BY <3>1 DEF TypeOK
  <2>2. Credited' = Credited
    <3>1. Credited[s] + n = Credited[s]  BY <1>1
    <3> QED  BY <3>1 DEF Credited
  <2> QED  BY <2>1, <2>2 DEF vault
<1>2. CASE n # 0
  <2>1. n \in 1..Cap  BY <1>0, <1>2
  <2>2. Vault!Credit(s, n)  BY DEF Vault!Credit
  <2> QED  BY <2>1, <2>2 DEF Vault!Next
<1> QED  BY <1>1, <1>2

\* Spending, on a gift or on a paywall, is spending from the vault.
LEMMA SpendStep ==
  ASSUME TypeOK, NEW u \in Users, NEW n \in 1..Cap, n <= coins[u],
         coins' = [coins EXCEPT ![u] = coins[u] - n],
         Spent' = [Spent EXCEPT ![u] = Spent[u] + n], Credited' = Credited
  PROVE  Vault!Next
<1>1. Vault!Spend(u, n)  BY DEF Vault!Spend
<1> QED  BY <1>1 DEF Vault!Next

\* A fee more for one more room or content.
LEMMA OneMoreFee ==
  ASSUME NEW n \in Nat, NEW g \in Nat
  PROVE  g + Fee * (n + 1) = (g + Fee * n) + Fee
  OBVIOUS
\* A source is a purchase or a reward of a user, never both.
LEMMA SourcesApart ==
  /\ \A p \in Purchases : /\ p \in Sources /\ Credited[p] = record[p].amount
                          /\ SourceWorth[p] = Price /\ SourceHolder[p] = Owner[p]
  /\ \A u \in Users, x \in Rewards :
       /\ <<u, x>> \in Sources /\ <<u, x>> \notin Purchases
       /\ Credited[<<u, x>>] = paid[u][x].amount
       /\ SourceWorth[<<u, x>>] = RewardCoins(x) /\ SourceHolder[<<u, x>>] = u
<1>1. \A u \in Users, x \in Rewards : <<u, x>> \notin Purchases  BY DEF Rewards, Bonus
<1> QED  BY <1>1 DEF Sources, Credited, SourceWorth, SourceHolder

\* A purchase's commit adds to the record of that purchase only.
LEMMA RecordAmounts ==
  ASSUME IInv, NEW r \in Workers, Commit(r), job[r].op = "purchase"
  PROVE  \A q \in Purchases :
           record'[q].amount = IF q = job[r].item THEN record[job[r].item].amount + job[r].delta
                               ELSE record[q].amount
<1> DEFINE p == job[r].item
<1>0. TypeOK /\ p \in Purchases  BY CommitFinds DEF Asked
<1>1. record' = [record EXCEPT ![p] = RecordAfter(p, job[r].delta)]  BY DEF Commit
<1>2. record'[p] = RecordAfter(p, job[r].delta)  BY <1>0, <1>1 DEF TypeOK
<1>3. record'[p].amount = record[p].amount + job[r].delta  BY <1>2, CommitWrites
<1>4. \A q \in Purchases \ {p} : record'[q] = record[q]  BY <1>0, <1>1 DEF TypeOK
<1> QED  BY <1>3, <1>4

\* A purchase's commit credits that purchase.
LEMMA PurchaseCredits ==
  ASSUME IInv, NEW r \in Workers, Commit(r), job[r].op = "purchase"
  PROVE  [Vault!Next]_vault
<1> DEFINE j == job[r]
           p == job[r].item
<1>0. TypeOK /\ j \in Jobs /\ p \in Purchases /\ j.user = Owner[p] /\ Owner[p] \in Users
      /\ j.delta \in 0..Owed(p)
  BY CommitFinds DEF Asked, Current
<1>1. record[p].amount \in 0..Price /\ j.delta \in Nat
  BY <1>0 DEF TypeOK, Records, Owed
<1>2. record' = [record EXCEPT ![p] = RecordAfter(p, j.delta)]
      /\ gifts' = gifts /\ access' = access /\ paid' = paid
  BY DEF Commit
<1>3. Credited' = [Credited EXCEPT ![p] = Credited[p] + j.delta]
  <2>1. \A q \in Purchases : record'[q].amount = IF q = p THEN record[p].amount + j.delta ELSE record[q].amount
    BY RecordAmounts
  <2>2. Credited' = [s \in Sources |-> IF s \in Purchases THEN record'[s].amount
                                       ELSE paid[s[1]][s[2]].amount]
    BY <1>2 DEF Credited
  <2>3. [Credited EXCEPT ![p] = Credited[p] + j.delta] =
          [s \in Sources |-> IF s = p THEN record[p].amount + j.delta
                             ELSE IF s \in Purchases THEN record[s].amount ELSE paid[s[1]][s[2]].amount]
    BY <1>0, SourcesApart DEF Credited
  <2> QED  BY <1>0, <2>1, <2>2, <2>3
<1>4. Spent' = Spent  BY <1>2 DEF Spent
<1>5. /\ coins' = [coins EXCEPT ![Owner[p]] = coins[Owner[p]] + j.delta]
      /\ coins[Owner[p]] + j.delta \in 0..Cap /\ record[p].amount + j.delta <= Price
  BY <1>0, CommitWrites
<1>6. /\ p \in Sources /\ SourceHolder[p] = Owner[p]
      /\ Credited[p] \in Nat /\ Credited[p] + j.delta <= SourceWorth[p]
  BY <1>0, <1>1, <1>5, SourcesApart
<1>7. /\ SourceHolder[p] \in Users /\ coins[SourceHolder[p]] + j.delta \in 0..Cap
      /\ coins' = [coins EXCEPT ![SourceHolder[p]] = coins[SourceHolder[p]] + j.delta]
  BY <1>0, <1>5, <1>6
<1> QED  BY <1>0, <1>1, <1>3, <1>4, <1>6, <1>7, CreditStep

\* A reward's commit adds to the entries of that user's reward only.
LEMMA PaidAmounts ==
  ASSUME IInv, NEW r \in Workers, Commit(r), job[r].op = "reward"
  PROVE  /\ paid'[job[r].user][job[r].item].amount =
              paid[job[r].user][job[r].item].amount + job[r].delta
         /\ \A v \in Users, y \in Rewards :
              v # job[r].user \/ y # job[r].item => paid'[v][y] = paid[v][y]
<1> DEFINE u == job[r].user
           x == job[r].item
<1>0. TypeOK /\ u \in Users /\ x \in Rewards  BY CommitFinds DEF Asked
<1>1. paid' = [paid EXCEPT ![u][x] = [entries |-> @.entries + 1, amount |-> @.amount + job[r].delta]]
  BY DEF Commit
<1>2. paid'[u][x] = [entries |-> paid[u][x].entries + 1, amount |-> paid[u][x].amount + job[r].delta]
  BY <1>0, <1>1 DEF TypeOK
<1>3. \A v \in Users, y \in Rewards : v # u \/ y # x => paid'[v][y] = paid[v][y]
  BY <1>0, <1>1 DEF TypeOK
<1> QED  BY <1>2, <1>3

\* A reward's commit credits that reward, which had credited nothing.
LEMMA RewardCredits ==
  ASSUME IInv, NEW r \in Workers, Commit(r), job[r].op = "reward"
  PROVE  [Vault!Next]_vault
<1> DEFINE j == job[r]
           u == job[r].user
           x == job[r].item
           s == <<job[r].user, job[r].item>>
<1>0. TypeOK /\ j \in Jobs /\ u \in Users /\ x \in Rewards /\ j.delta \in 0..RewardCoins(x)
      /\ j.commit = "sent"
  BY CommitFinds DEF Asked, Current
<1>1. j.delta \in Nat /\ j.delta <= RewardCoins(x)  BY <1>0, Amounts
<1>2. paid[u][x].amount = 0
  <2>1. Holds(r, u, x)  BY <1>0 DEF Holds, Holding
  <2>2. ClaimsSane(u, x)  BY <1>0 DEF IInv
  <2> QED  BY <2>1, <2>2 DEF ClaimsSane
<1>3. /\ paid' = [paid EXCEPT ![u][x] = [entries |-> @.entries + 1, amount |-> @.amount + j.delta]]
      /\ gifts' = gifts /\ access' = access /\ record' = record
  BY DEF Commit
<1>4. Credited' = [Credited EXCEPT ![s] = Credited[s] + j.delta]
  <2>2. /\ paid'[u][x].amount = paid[u][x].amount + j.delta
        /\ \A v \in Users, y \in Rewards : v # u \/ y # x => paid'[v][y] = paid[v][y]
    BY PaidAmounts
  <2>4. Credited' = [t \in Sources |-> IF t \in Purchases THEN record[t].amount
                                       ELSE paid'[t[1]][t[2]].amount]
    BY <1>3 DEF Credited
  <2>5. [Credited EXCEPT ![s] = Credited[s] + j.delta] =
          [t \in Sources |-> IF t = s THEN paid[u][x].amount + j.delta
                             ELSE IF t \in Purchases THEN record[t].amount ELSE paid[t[1]][t[2]].amount]
    BY <1>0, SourcesApart DEF Credited
  <2>6. ASSUME NEW t \in Sources
        PROVE  (IF t \in Purchases THEN record[t].amount ELSE paid'[t[1]][t[2]].amount) =
               (IF t = s THEN paid[u][x].amount + j.delta
                ELSE IF t \in Purchases THEN record[t].amount ELSE paid[t[1]][t[2]].amount)
    <3>1. s \notin Purchases  BY <1>0, SourcesApart
    <3>2. CASE t \in Purchases  BY <3>1, <3>2
    <3>3. CASE t \notin Purchases
      <4>1. PICK v \in Users, y \in Rewards : t = <<v, y>>  BY <3>3 DEF Sources
      <4>2. t = s <=> v = u /\ y = x  BY <4>1
      <4> QED  BY <2>2, <3>3, <4>1, <4>2
    <3> QED  BY <3>2, <3>3
  <2> HIDE DEF s
  <2> QED  BY <2>4, <2>5, <2>6
<1>5. Spent' = Spent  BY <1>3 DEF Spent
<1>6. coins' = [coins EXCEPT ![u] = coins[u] + j.delta] /\ coins[u] + j.delta \in 0..Cap
  BY CommitWrites
<1>7. s \in Sources /\ SourceHolder[s] = u /\ SourceWorth[s] = RewardCoins(x) /\ Credited[s] = 0
  BY <1>0, <1>2, SourcesApart
<1>8. Credited[s] + j.delta <= SourceWorth[s]
  BY <1>1, <1>7, Amounts
<1>9. /\ SourceHolder[s] \in Users /\ Credited[s] \in Nat
      /\ coins[SourceHolder[s]] + j.delta \in 0..Cap
      /\ coins' = [coins EXCEPT ![SourceHolder[s]] = coins[SourceHolder[s]] + j.delta]
  BY <1>0, <1>6, <1>7
<1> HIDE DEF s
<1> QED  BY <1>0, <1>1, <1>4, <1>5, <1>7, <1>8, <1>9, CreditStep
\* A gift's commit, and that of an entry, spend coins that are there, and say so.
LEMMA PaymentWrites ==
  ASSUME IInv, NEW r \in Workers, Commit(r), job[r].op \in {"gift", "access"}
  PROVE  \E n \in 1..Cap : /\ job[r].delta = 0 - n /\ n <= coins[job[r].user]
                           /\ Spent' = [Spent EXCEPT ![job[r].user] = Spent[job[r].user] + n]
<1> DEFINE j == job[r]
           u == job[r].user
           a == job[r].item
<1>0. TypeOK /\ j \in Jobs /\ u \in Users /\ Current(j) /\ Asked(j)
      /\ coins[u] \in 0..Cap /\ gifts[u] \in Nat
  BY CommitFinds DEF Asked, TypeOK
<1>3. coins[u] + j.delta \in 0..Cap
  BY CommitWrites
<1>4. CASE j.op = "gift"
  <2>1. j.delta = 0 - GiftCost  BY <1>0, <1>4 DEF Current
  <2>2. GiftCost \in 1..Cap /\ GiftCost <= coins[u]
    BY <1>0, <1>3, <2>1
  <2>3. gifts' = [gifts EXCEPT ![u] = gifts[u] + GiftCost] /\ access' = access
    BY <1>4 DEF Commit
  <2>4. Spent' = [Spent EXCEPT ![u] = Spent[u] + GiftCost]
    <3> DEFINE fees(v) == Fee * Cardinality(access[v])
    <3>1. fees(u) \in Nat
      <4>1. Cardinality(access[u]) \in Nat
        BY <1>0, FS_CardinalityType DEF IInv, BooksSane
      <4> QED  BY <4>1
    <3>2. Spent = [v \in Users |-> gifts[v] + fees(v)] /\ Spent' = [v \in Users |-> gifts'[v] + fees(v)]
      BY <2>3 DEF Spent
    <3> HIDE DEF fees
    <3>3. (gifts[u] + GiftCost) + fees(u) = (gifts[u] + fees(u)) + GiftCost  BY <1>0, <3>1
    <3>4. \A v \in Users : gifts'[v] = IF v = u THEN gifts[u] + GiftCost ELSE gifts[v]
      BY <1>0, <2>3 DEF TypeOK
    <3> QED  BY <1>0, <3>2, <3>3, <3>4
  <2> QED  BY <2>1, <2>2, <2>4
<1>5. CASE j.op = "access"
  <2>1. j.delta = 0 - Fee /\ a \notin access[u]  BY <1>0, <1>5 DEF Current
  <2>2. Fee \in 1..Cap /\ Fee <= coins[u]
    BY <1>0, <1>3, <2>1
  <2>3. access' = [access EXCEPT ![u] = @ \cup {a}] /\ gifts' = gifts
    BY <1>5 DEF Commit
  <2>4. Cardinality(access[u]) \in Nat
        /\ Cardinality(access[u] \cup {a}) = Cardinality(access[u]) + 1
    BY <1>0, <2>1, FS_CardinalityType, FS_AddElement DEF IInv, BooksSane
  <2>5. Spent' = [Spent EXCEPT ![u] = Spent[u] + Fee]
    <3>1. \A v \in Users : access'[v] = IF v = u THEN access[u] \cup {a} ELSE access[v]
      BY <1>0, <2>3 DEF TypeOK
    <3>2. gifts[u] + Fee * Cardinality(access[u] \cup {a}) = (gifts[u] + Fee * Cardinality(access[u])) + Fee
      BY <1>0, <2>4, OneMoreFee
    <3>3. Spent' = [v \in Users |-> gifts[v] + Fee * Cardinality(access'[v])]
      BY <2>3 DEF Spent
    <3> QED  BY <1>0, <3>1, <3>2, <3>3 DEF Spent
  <2> QED  BY <2>1, <2>2, <2>5
<1> QED  BY <1>4, <1>5

\* So it is a payment from the vault.
LEMMA PaymentSpends ==
  ASSUME IInv, NEW r \in Workers, Commit(r), job[r].op \in {"gift", "access"}
  PROVE  Vault!Next
<1> DEFINE j == job[r]
           u == job[r].user
<1>0. TypeOK /\ u \in Users /\ coins[u] \in 0..Cap
  BY CommitFinds DEF Asked, TypeOK
<1>1. record' = record /\ paid' = paid  BY DEF Commit
<1>2. Credited' = Credited  BY <1>1 DEF Credited
<1>3. coins' = [coins EXCEPT ![u] = coins[u] + j.delta]
  BY CommitWrites
<1>4. PICK n \in 1..Cap : /\ j.delta = 0 - n /\ n <= coins[u]
                         /\ Spent' = [Spent EXCEPT ![u] = Spent[u] + n]
  BY PaymentWrites
<1>5. coins[u] + j.delta = coins[u] - n  BY <1>0, <1>4
<1> QED  BY <1>0, <1>2, <1>3, <1>4, <1>5, SpendStep

\* Every step is a step of the vault, or leaves it alone.
LEMMA VaultStep == IInv /\ [Next]_vars => [Vault!Next]_vault
<1> SUFFICES ASSUME IInv, [Next]_vars PROVE [Vault!Next]_vault  OBVIOUS
<1>1. ASSUME NEW r \in Workers, Commit(r) PROVE [Vault!Next]_vault
  <2>1. job[r].op \in {"purchase", "gift", "access", "reward"}
    BY <1>1, CommitFinds DEF Asked
  <2> QED  BY <1>1, <2>1, PurchaseCredits, RewardCredits, PaymentSpends
<1>2. CASE \A r \in Workers : ~Commit(r)
  <2>1. UNCHANGED <<wallets, store>>  BY <1>2, OnlyCommitsMoveCoins
  <2>2. coins' = coins /\ record' = record /\ gifts' = gifts /\ access' = access /\ paid' = paid
    BY <2>1 DEF wallets
  <2>3. Credited' = Credited /\ Spent' = Spent  BY <2>2 DEF Credited, Spent
  <2> QED  BY <2>2, <2>3 DEF vault
<1> QED  BY <1>1, <1>2

\* However often a purchase is delivered and a reward is claimed, whatever conflicts,
\* times out or crashes, the wallets change as a CoinVault's do: a source credits at
\* most its worth, to its holder, under the cap, and only coins that are there are spent.
THEOREM VaultImplemented == Spec => ImplementsVault
<1>1. Init => Vault!Init
  <2> SUFFICES ASSUME Init PROVE Vault!Init  OBVIOUS
  <2>1. coins \in [Users -> 0..Cap]  BY DEF Init
  <2>2. Credited = [s \in Sources |-> 0]
    <3>1. \A s \in Sources \ Purchases : paid[s[1]][s[2]].amount = 0
      BY DEF Init, Sources
    <3>2. \A s \in Purchases : record[s].amount = 0  BY DEF Init
    <3> QED  BY <3>1, <3>2 DEF Credited
  <2>3. Spent = [u \in Users |-> 0]
    <3>1. \A u \in Users : gifts[u] = 0 /\ access[u] = {}  BY DEF Init
    <3>2. Cardinality({}) = 0 /\ 0 + Fee * 0 = 0  BY FS_EmptySet
    <3> QED  BY <3>1, <3>2 DEF Spent
  <2> QED  BY <2>1, <2>2, <2>3 DEF Vault!Init
<1>2. IInv /\ [Next]_vars => [Vault!Next]_(Vault!vaultVars)
  BY VaultStep DEF vault, Vault!vaultVars
<1> QED
  BY <1>1, <1>2, Invariant, PTL DEF Spec, ImplementsVault, Vault!Spec
-----------------------------------------------------------------------------
(***************************************************************************)
(* The wallets match the records of purchases, rewards, gifts and entries. *)
(***************************************************************************)
\* There are finitely many purchases of a user, and rewards.
LEMMA FiniteBooks ==
  IsFiniteSet(Rewards) /\ \A u \in Users : IsFiniteSet(PurchasesOf(u))
<1>1. IsFiniteSet(Rewards)  BY FiniteAssumption, FS_AddElement DEF Rewards
<1>2. \A u \in Users : IsFiniteSet(PurchasesOf(u))
  BY FiniteAssumption, FS_Subset DEF PurchasesOf
<1> QED  BY <1>1, <1>2

\* A step that adds n to the record of one purchase adds n to what its owner bought.
LEMMA BoughtAfter ==
  ASSUME TypeOK, NEW p \in Purchases, NEW n \in Int,
         \A q \in Purchases :
           record'[q].amount = IF q = p THEN record[p].amount + n ELSE record[q].amount,
         NEW u \in Users
  PROVE  Bought(u) \in Int /\ Bought(u)' = Bought(u) + (IF u = Owner[p] THEN n ELSE 0)
<1> DEFINE S == PurchasesOf(u)
           f == [q \in S |-> record[q].amount]
           h == [q \in S |-> record'[q].amount]
<1>1. IsFiniteSet(S)  BY FiniteBooks
<1>2. Bought(u) = SumFunction(f) /\ Bought(u)' = SumFunction(h)  BY DEF Bought, PurchasesOf
<1>3. \A q \in Purchases : record[q].amount \in Int  BY DEF TypeOK, Records
<1>4. S \subseteq Purchases /\ (p \in S <=> u = Owner[p])  BY DEF PurchasesOf
<1> HIDE DEF S
<1>5. f \in [S -> Int] /\ h \in [S -> Int]  BY <1>3, <1>4
<1>6. CASE u = Owner[p]
  <2>1. p \in S /\ f[p] = record[p].amount /\ h[p] = record[p].amount + n  BY <1>4, <1>6
  <2>2. \A q \in S \ {p} : h[q] = f[q]  BY <1>4
  <2> HIDE DEF f, h
  <2>3. SumFunction(f) \in Int /\ SumFunction(h) = SumFunction(f) - f[p] + h[p]
    BY <1>1, <1>5, <2>1, <2>2, SumChanges
  <2>4. f[p] \in Int /\ h[p] = f[p] + n  BY <1>3, <2>1
  <2> QED  BY <1>2, <1>6, <2>3, <2>4
<1>7. CASE u # Owner[p]
  <2>1. h = f  BY <1>4, <1>7
  <2>2. SumFunction(f) \in Int  BY <1>1, <1>5, SumType
  <2> QED  BY <1>2, <1>7, <2>1, <2>2
<1> QED  BY <1>6, <1>7

\* A step that adds n to one user's entries of a reward adds n to that user's rewards.
LEMMA RewardedAfter ==
  ASSUME TypeOK, NEW v \in Users, NEW x \in Rewards, NEW n \in Int,
         paid'[v][x].amount = paid[v][x].amount + n,
         \A w \in Users, y \in Rewards : w # v \/ y # x => paid'[w][y] = paid[w][y],
         NEW u \in Users
  PROVE  Rewarded(u) \in Int /\ Rewarded(u)' = Rewarded(u) + (IF u = v THEN n ELSE 0)
<1> DEFINE f == [y \in Rewards |-> paid[u][y].amount]
           h == [y \in Rewards |-> paid'[u][y].amount]
<1>1. IsFiniteSet(Rewards)  BY FiniteBooks
<1>2. Rewarded(u) = SumFunction(f) /\ Rewarded(u)' = SumFunction(h)  BY DEF Rewarded
<1>3. \A y \in Rewards : paid[u][y].amount \in Int  BY DEF TypeOK
<1>4. CASE u = v
  <2>1. f[x] = paid[u][x].amount /\ h[x] = paid[u][x].amount + n  BY <1>4
  <2>2. \A y \in Rewards \ {x} : h[y] = f[y]  BY <1>4
  <2>3. f \in [Rewards -> Int] /\ h \in [Rewards -> Int]
    <3>1. \A y \in Rewards : paid'[u][y].amount \in Int  BY <1>3, <1>4
    <3> QED  BY <1>3, <3>1
  <2> HIDE DEF f, h
  <2>4. SumFunction(f) \in Int /\ SumFunction(h) = SumFunction(f) - f[x] + h[x]
    BY <1>1, <2>2, <2>3, SumChanges
  <2>5. f[x] \in Int /\ h[x] = f[x] + n  BY <1>3, <2>1
  <2> QED  BY <1>2, <1>4, <2>4, <2>5
<1>5. CASE u # v
  <2>1. h = f /\ f \in [Rewards -> Int]  BY <1>3, <1>5
  <2>2. SumFunction(f) \in Int  BY <1>1, <2>1, SumType
  <2> QED  BY <1>2, <1>5, <2>1, <2>2
<1> QED  BY <1>4, <1>5

\* What a user's purchases and rewards add up to, and what was spent, are integers.
LEMMA SumsAreIntegers ==
  ASSUME IInv, NEW u \in Users
  PROVE  /\ Bought(u) \in Int /\ Rewarded(u) \in Int /\ Spent[u] \in Int
         /\ coins[u] \in Int /\ opening[u] \in Int
<1>1. Bought(u) \in Int
  <2> DEFINE f == [p \in PurchasesOf(u) |-> record[p].amount]
  <2>1. f \in [PurchasesOf(u) -> Int]  BY DEF IInv, TypeOK, Records, PurchasesOf
  <2> HIDE DEF f
  <2>2. SumFunction(f) \in Int  BY <2>1, FiniteBooks, SumType
  <2> QED  BY <2>2 DEF Bought, f
<1>2. Rewarded(u) \in Int
  <2> DEFINE f == [x \in Rewards |-> paid[u][x].amount]
  <2>1. f \in [Rewards -> Int]  BY DEF IInv, TypeOK
  <2> HIDE DEF f
  <2>2. SumFunction(f) \in Int  BY <2>1, FiniteBooks, SumType
  <2> QED  BY <2>2 DEF Rewarded, f
<1>3. Spent[u] \in Int
  <2>1. Cardinality(access[u]) \in Nat /\ gifts[u] \in Nat
    BY FS_CardinalityType DEF IInv, BooksSane, TypeOK
  <2> QED  BY <2>1 DEF Spent
<1>4. coins[u] \in Int /\ opening[u] \in Int  BY DEF IInv, TypeOK
<1> QED  BY <1>1, <1>2, <1>3, <1>4
\* A commit changes a wallet and what the books say of it by the same amount.
LEMMA CommitBalances ==
  ASSUME IInv, NEW r \in Workers, Commit(r), opening' = opening, NEW u \in Users,
         coins[u] + Spent[u] = opening[u] + Bought(u) + Rewarded(u)
  PROVE  (coins[u] + Spent[u] = opening[u] + Bought(u) + Rewarded(u))'
<1> DEFINE j == job[r]
           own == IF u = job[r].user THEN job[r].delta ELSE 0
<1>0. TypeOK /\ j \in Jobs /\ j.user \in Users /\ Asked(j) /\ j.delta \in Int
  <2>1. TypeOK /\ j \in Jobs /\ Asked(j)  BY CommitFinds
  <2>2. j.delta \in (0 - Cap)..Cap  BY <2>1 DEF Jobs
  <2> QED  BY <2>1, <2>2 DEF Asked
<1>1. coins'[u] = coins[u] + own
  <2>1. coins' = [coins EXCEPT ![j.user] = coins[j.user] + j.delta]  BY CommitWrites
  <2>2. coins[u] \in 0..Cap  BY <1>0 DEF TypeOK
  <2> QED  BY <1>0, <2>1, <2>2 DEF TypeOK
<1>2. /\ Bought(u) \in Int /\ Rewarded(u) \in Int /\ Spent[u] \in Int
      /\ coins[u] \in Int /\ opening[u] \in Int
  BY SumsAreIntegers
<1>3. CASE j.op = "purchase"
  <2>1. paid' = paid /\ gifts' = gifts /\ access' = access  BY <1>3 DEF Commit
  <2>2. Rewarded(u)' = Rewarded(u) /\ Spent' = Spent  BY <2>1 DEF Rewarded, Spent
  <2>3. j.item \in Purchases /\ j.user = Owner[j.item]  BY <1>0, <1>3 DEF Asked
  <2>4. Bought(u)' = Bought(u) + own  BY <1>0, <1>3, <2>3, RecordAmounts, BoughtAfter
  <2> HIDE DEF own
  <2>5. own \in Int  BY <1>0 DEF own
  <2> QED  BY <1>1, <1>2, <2>2, <2>4, <2>5
<1>4. CASE j.op = "reward"
  <2>1. record' = record /\ gifts' = gifts /\ access' = access  BY <1>4 DEF Commit
  <2>2. Bought(u)' = Bought(u) /\ Spent' = Spent  BY <2>1 DEF Bought, Spent
  <2>3. j.item \in Rewards  BY <1>0, <1>4 DEF Asked
  <2>4. Rewarded(u)' = Rewarded(u) + own  BY <1>0, <1>4, <2>3, PaidAmounts, RewardedAfter
  <2> HIDE DEF own
  <2>5. own \in Int  BY <1>0 DEF own
  <2> QED  BY <1>1, <1>2, <2>2, <2>4, <2>5
<1>5. CASE j.op \in {"gift", "access"}
  <2>1. record' = record /\ paid' = paid  BY <1>5 DEF Commit
  <2>2. Bought(u)' = Bought(u) /\ Rewarded(u)' = Rewarded(u)  BY <2>1 DEF Bought, Rewarded
  <2>3. PICK n \in 1..Cap : j.delta = 0 - n /\ Spent' = [Spent EXCEPT ![j.user] = Spent[j.user] + n]
    BY <1>5, PaymentWrites
  <2>4. Spent'[u] = Spent[u] - own
    <3>1. DOMAIN Spent = Users  BY DEF Spent
    <3>2. Spent'[u] = IF u = j.user THEN Spent[u] + n ELSE Spent[u]  BY <2>3, <3>1
    <3> QED  BY <1>2, <2>3, <3>2
  <2> HIDE DEF own
  <2>5. own \in Int  BY <1>0 DEF own
  <2> QED  BY <1>1, <1>2, <2>2, <2>4, <2>5
<1> QED  BY <1>0, <1>3, <1>4, <1>5 DEF Asked

\* Every step keeps the books.
LEMMA BalanceStep == IInv /\ [Next]_vars /\ WalletMatchesLedger => WalletMatchesLedger'
<1> SUFFICES ASSUME IInv, [Next]_vars, WalletMatchesLedger PROVE WalletMatchesLedger'  OBVIOUS
<1>0. opening' = opening  BY OpeningStays
<1>1. ASSUME NEW r \in Workers, Commit(r) PROVE WalletMatchesLedger'
  BY <1>0, <1>1, CommitBalances DEF WalletMatchesLedger
<1>2. CASE \A r \in Workers : ~Commit(r)
  <2>1. UNCHANGED <<wallets, store>>  BY <1>2, OnlyCommitsMoveCoins
  <2>2. coins' = coins /\ record' = record /\ gifts' = gifts /\ access' = access /\ paid' = paid
    BY <2>1 DEF wallets
  <2> QED  BY <1>0, <2>2 DEF WalletMatchesLedger, Spent, Bought, Rewarded
<1> QED  BY <1>1, <1>2

\* At first there are no records, and the wallets hold what they hold.
LEMMA BalanceInit == Init => WalletMatchesLedger
<1> SUFFICES ASSUME Init, NEW u \in Users
             PROVE  coins[u] + Spent[u] = opening[u] + Bought(u) + Rewarded(u)
  BY DEF WalletMatchesLedger
<1>1. Bought(u) = 0
  <2> DEFINE f == [p \in PurchasesOf(u) |-> record[p].amount]
  <2>1. \A p \in PurchasesOf(u) : f[p] = 0  BY DEF Init, PurchasesOf
  <2>2. DOMAIN f = PurchasesOf(u)  OBVIOUS
  <2> HIDE DEF f
  <2>3. SumFunction(f) = 0  BY <2>1, <2>2, FiniteBooks, SumOfZeros
  <2> QED  BY <2>3 DEF Bought, f
<1>2. Rewarded(u) = 0
  <2> DEFINE f == [x \in Rewards |-> paid[u][x].amount]
  <2>1. \A x \in Rewards : f[x] = 0  BY DEF Init
  <2>2. DOMAIN f = Rewards  OBVIOUS
  <2> HIDE DEF f
  <2>3. SumFunction(f) = 0  BY <2>1, <2>2, FiniteBooks, SumOfZeros
  <2> QED  BY <2>3 DEF Rewarded, f
<1>3. Spent[u] = 0
  <2>1. gifts[u] = 0 /\ Cardinality(access[u]) = 0  BY FS_EmptySet DEF Init
  <2>2. Fee * 0 = 0  OBVIOUS
  <2> QED  BY <2>1, <2>2 DEF Spent
<1>4. coins[u] \in 0..Cap /\ opening[u] = coins[u]  BY DEF Init
<1> QED  BY <1>1, <1>2, <1>3, <1>4

\* Whatever is delivered twice, conflicts, times out or crashes, every wallet holds what
\* it held at first and the records of its purchases and rewards say, less its gifts and
\* the entries it paid for: no coin is made, lost or counted twice.
THEOREM WalletsMatchTheBooks == Spec => []WalletMatchesLedger
BY Invariant, BalanceInit, BalanceStep, PTL DEF Spec
=============================================================================
