---------------------------- MODULE CoinEconomy -----------------------------
(***************************************************************************)
(* The coins in the users' wallets: purchases from Stripe's webhook, from  *)
(* Google Play and from the App Store (payment.controller.js,              *)
(* googlePlayPurchase.controller.js, applePurchase.controller.js), gifts   *)
(* (gift.controller.js), the entry to a private live room and to exclusive *)
(* content (live.controller.js, exclusiveContent.controller.js), and the   *)
(* rewards of the daily missions (missions.service.js).  Credits go        *)
(* through creditCoinsWithCap (coins.service.js).                          *)
(*                                                                         *)
(* Each worker runs one request at a time.  Every change of a wallet is a  *)
(* transaction: Begin takes its snapshot and makes its decisions, Write    *)
(* locks the documents or finds that another transaction was there first,  *)
(* Commit is the server's.  The answer to a commit may not arrive; a       *)
(* commit on its way can then still be applied later.                      *)
(*                                                                         *)
(* What a creator earns of it is part of CreatorPayouts; what a gift shows *)
(* in its live room is not modelled.                                       *)
(***************************************************************************)
EXTENDS Integers, FiniteSets, FiniteSetsExt

CONSTANTS
  Users,      \* senders of gifts and owners of wallets
  Purchases,  \* purchases that were paid, each of Price coins
  Stores,     \* where they were made: "stripe", "google", "apple"
  Owner,      \* the user of each purchase
  Paywalls,   \* private live rooms and exclusive contents, each for Fee coins
  Missions,   \* today's missions
  Players,    \* users with events that count for them
  Workers,    \* requests that may run at the same time
  Cap,        \* MAX_USER_COINS_BALANCE
  Price, GiftCost, Fee, MissionCoins, BonusCoins,
  Target,     \* events that complete a mission
  Openings,   \* what a wallet may hold at first
  MaxGifts,   \* bound on the coins given as gifts
  MaxEvents,  \* bound on the events of the missions
  MaxFaults   \* bound on crashes, timeouts and failures

ASSUME PriceAssumption ==
  /\ {Cap, Price, GiftCost, Fee, MissionCoins, BonusCoins, Target} \subseteq Nat \ {0}
  /\ Openings \subseteq 0..Cap /\ {MaxGifts, MaxEvents, MaxFaults} \subseteq Nat
ASSUME UserAssumption == Owner \in [Purchases -> Users] /\ Players \subseteq Users
ASSUME NameAssumption ==
  /\ Stores \subseteq {"stripe", "google", "apple"}
  /\ "bonus" \notin Missions /\ "nobody" \notin Users
  /\ "nothing" \notin Purchases \cup Paywalls \cup Missions
  /\ Purchases \cap (Users \X (Missions \cup {"bonus"})) = {}
ASSUME FiniteAssumption == IsFiniteSet(Purchases) /\ IsFiniteSet(Missions)

VARIABLES
  coins,     \* the wallets
  opening,   \* what they held at first
  store,     \* where each purchase was made
  record,    \* its CoinTransaction
  consumed,  \* purchases consumed at Google Play
  gifts,     \* coins in the Gift documents of each sender
  access,    \* what each user has access to: paidViewers, ExclusiveUnlock
  progress,  \* the mission counters, and
  claimed,   \* the rewarded flags of UserMissions
  paid,      \* the mission_reward entries of CoinTransaction
  at,        \* what each worker does next
  job,       \* and its request
  faults

vars == <<coins, opening, store, record, consumed, gifts, access, progress, claimed, paid, at, job, faults>>
wallets == <<coins, record, gifts, access, paid>>
fixed == <<opening, store>>

Bonus == "bonus"
Rewards == Missions \cup {Bonus}
RewardCoins(x) == IF x = Bonus THEN BonusCoins ELSE MissionCoins
Records == [status : {"none", "pending", "completed"}, amount : 0..Price]
Labels == {"idle", "claim", "begin", "write", "sent", "unheard", "orphan", "consume", "putback",
           "bonus"}
Jobs == [op : {"none", "purchase", "gift", "access", "reward"}, user : Users \cup {"nobody"},
         item : Purchases \cup Paywalls \cup Rewards \cup {"nothing"}, consumed : BOOLEAN,
         base : 0..Cap, delta : (0 - Cap)..Cap, stale : BOOLEAN,
         commit : {"none", "sent", "applied"}]
NoJob == [op |-> "none", user |-> "nobody", item |-> "nothing", consumed |-> FALSE,
          base |-> 0, delta |-> 0, stale |-> FALSE, commit |-> "none"]

Put(f, k, v) == [f EXCEPT ![k] = v]
Go(r, label, j) == at' = Put(at, r, label) /\ job' = Put(job, r, j)
Quit(r) == Go(r, "idle", NoJob)
Fault == faults < MaxFaults /\ faults' = faults + 1

\* The amounts of a transaction that is over or void matter no more.
Settled(j) == [j EXCEPT !.base = 0, !.delta = 0]

\* For the bounds only.
Given == MapThenSumSet(LAMBDA u : gifts[u], Users)
Events == MapThenSumSet(LAMBDA u : MapThenSumSet(LAMBDA m : progress[u][m], Missions), Users)

\* (Mutant: the cap is forgotten.)
FitsAlways(balance, amount) == amount

\* creditCoinsWithCap: what of an amount fits under the cap.
Fits(balance, amount) ==
  LET room == IF balance < Cap THEN Cap - balance ELSE 0 IN IF amount <= room THEN amount ELSE room
-----------------------------------------------------------------------------
Init ==
  /\ coins \in [Users -> Openings] /\ opening = coins
  /\ store \in [Purchases -> Stores]
  /\ record = [p \in Purchases |-> [status |-> "none", amount |-> 0]]
  /\ consumed = {}
  /\ gifts = [u \in Users |-> 0] /\ access = [u \in Users |-> {}]
  /\ progress = [u \in Users |-> [m \in Missions |-> 0]]
  /\ claimed = [u \in Users |-> {}]
  /\ paid = [u \in Users |-> [x \in Rewards |-> [entries |-> 0, amount |-> 0]]]
  /\ at = [r \in Workers |-> "idle"]
  /\ job = [r \in Workers |-> NoJob]
  /\ faults = 0
-----------------------------------------------------------------------------
(***************************************************************************)
(* The requests.  A purchase may be delivered any number of times: by      *)
(* Stripe's webhook, or by the client, at once and at every later start.   *)
(* What Google says of its consumption is asked before the transaction.    *)
(***************************************************************************)
Deliver(r, p) ==
  /\ at[r] = "idle"
  /\ Go(r, "begin", [NoJob EXCEPT !.op = "purchase", !.user = Owner[p], !.item = p,
                                  !.consumed = p \in consumed])
  /\ UNCHANGED <<fixed, wallets, consumed, progress, claimed, faults>>

SendGift(r, u) ==
  /\ at[r] = "idle" /\ Given < MaxGifts
  /\ Go(r, "begin", [NoJob EXCEPT !.op = "gift", !.user = u])
  /\ UNCHANGED <<fixed, wallets, consumed, progress, claimed, faults>>

Unlock(r, u, a) ==
  /\ at[r] = "idle"
  /\ Go(r, "begin", [NoJob EXCEPT !.op = "access", !.user = u, !.item = a])
  /\ UNCHANGED <<fixed, wallets, consumed, progress, claimed, faults>>

\* trackEvent: the counter and the flag come back from the same update.
TrackEvent(r, u, m) ==
  /\ at[r] = "idle" /\ Events < MaxEvents
  /\ progress' = [progress EXCEPT ![u][m] = @ + 1]
  /\ IF m \notin claimed[u] /\ progress'[u][m] >= Target
     THEN Go(r, "claim", [NoJob EXCEPT !.op = "reward", !.user = u, !.item = m])
     ELSE UNCHANGED <<at, job>>
  /\ UNCHANGED <<fixed, wallets, consumed, claimed, faults>>

\* The flag first, by itself; only then the transaction.
Claim(r) ==
  /\ at[r] = "claim"
  /\ IF job[r].item \in claimed[job[r].user] THEN Quit(r) /\ UNCHANGED claimed
     ELSE /\ claimed' = [claimed EXCEPT ![job[r].user] = @ \cup {job[r].item}]
          /\ Go(r, "begin", job[r])
  /\ UNCHANGED <<fixed, wallets, consumed, progress, faults>>
-----------------------------------------------------------------------------
(***************************************************************************)
(* The transactions.                                                       *)
(***************************************************************************)
\* A delivered purchase is consumed, at Google Play; elsewhere that is all.
Delivered(r, j) ==
  IF store[j.item] = "google" THEN Go(r, "consume", [NoJob EXCEPT !.item = j.item]) ELSE Quit(r)

\* (Mutant: what was credited before is not taken off.)
OwedAgain(p) == Price

\* Stripe's purchase is credited once, as far as it fits; the others owe
\* the rest until it fits.
Owed(p) == Price - record[p].amount

Snapshot(r, delta) ==
  Go(r, "write", [job[r] EXCEPT !.base = coins[job[r].user], !.delta = delta, !.stale = FALSE])

\* Stripe's webhook credits a session once.
CreditOnce(r, j) ==
  IF record[j.item].status = "completed" THEN Quit(r)
  ELSE Snapshot(r, Fits(coins[j.user], Owed(j.item)))

\* A store's purchase is credited until it is complete; not if it was consumed.
CreditRest(r, j) ==
  IF record[j.item].status = "completed" THEN Delivered(r, j)
  ELSE IF store[j.item] = "google" /\ j.consumed THEN Quit(r)
  ELSE Snapshot(r, Fits(coins[j.user], Owed(j.item)))

\* joinLive, unlockContent: whoever has access does not pay again.
Enter(r, j) ==
  IF j.item \in access[j.user] \/ coins[j.user] < Fee THEN Quit(r) ELSE Snapshot(r, 0 - Fee)

Begin(r) ==
  /\ at[r] = "begin"
  /\ LET j == job[r]
     IN CASE j.op = "purchase" ->
               IF store[j.item] = "stripe" THEN CreditOnce(r, j) ELSE CreditRest(r, j)
          [] j.op = "gift" ->
               IF coins[j.user] < GiftCost THEN Quit(r) ELSE Snapshot(r, 0 - GiftCost)
          [] j.op = "access" -> Enter(r, j)
          [] j.op = "reward" -> Snapshot(r, Fits(coins[j.user], RewardCoins(j.item)))
  /\ UNCHANGED <<fixed, wallets, consumed, progress, claimed, faults>>

\* (Mutant: the wallet is read in the transaction but written outside it.)
ClashOnRecords(j, k) == j.op = "purchase" /\ j.op = k.op /\ j.item = k.item

\* Two transactions write the same user's document, the same purchase's record or
\* the same paywall's document.  An update that leaves a wallet as it is does not
\* write it.
Clash(j, k) ==
  \/ j.op \in {"purchase", "access"} /\ j.op = k.op /\ j.item = k.item
  \/ j.user = k.user /\ j.delta # 0 /\ k.delta # 0

Blocked(r) == job[r].stale \/ \E q \in Workers : job[q].commit = "sent" /\ Clash(job[r], job[q])

Write(r) ==
  /\ at[r] = "write" /\ ~Blocked(r)
  /\ Go(r, "sent", [job[r] EXCEPT !.commit = "sent"])
  /\ UNCHANGED <<fixed, wallets, consumed, progress, claimed, faults>>

\* Request q once j was committed: its snapshot is void if it is to write the same.
Overtaken(q, j) ==
  IF at[q] = "write" /\ Clash(j, job[q]) THEN Settled([job[q] EXCEPT !.stale = TRUE]) ELSE job[q]

\* The rest of the platform writes something else in the user's document: XP, which
\* a mission's own reward sets off without waiting for it, earnings, statistics.
\* It waits for a commit on its way, and outdates whoever is to write the wallet
\* (if that is nobody, nothing changes here).
WriteElsewhere(u) ==
  LET elsewhere == [NoJob EXCEPT !.user = u, !.delta = 1]
  IN /\ \E q \in Workers : at[q] = "write" /\ Clash(elsewhere, job[q])
     /\ \A q \in Workers : ~(job[q].commit = "sent" /\ Clash(elsewhere, job[q]))
     /\ job' = [q \in Workers |-> Overtaken(q, elsewhere)]
     /\ UNCHANGED <<fixed, wallets, consumed, progress, claimed, at, faults>>

PutBackLater(r) ==
  Go(r, "putback", [NoJob EXCEPT !.op = "reward", !.user = job[r].user, !.item = job[r].item])

\* (Mutant: a mission's conflict loses the reward.)
ConflictForgetting(r) ==
  /\ at[r] = "write" /\ Blocked(r)
  /\ Quit(r) \/ (job[r].op # "reward" /\ Go(r, "begin", Settled([job[r] EXCEPT !.stale = FALSE])))
  /\ UNCHANGED <<fixed, wallets, consumed, progress, claimed, faults>>

\* withTransaction and the loop around it run the callback again, or give up;
\* a mission's transaction is not run again: its flag is put back.
Conflict(r) ==
  /\ at[r] = "write" /\ Blocked(r)
  /\ IF job[r].op = "reward" THEN PutBackLater(r)
     ELSE Go(r, "begin", Settled([job[r] EXCEPT !.stale = FALSE])) \/ Quit(r)
  /\ UNCHANGED <<fixed, wallets, consumed, progress, claimed, faults>>

\* (Mutant: a purchase is complete with its first part.)
RecordAfterFirstPart(p, delta) == [status |-> "completed", amount |-> record[p].amount + delta]

\* (Mutant: a purchase stays pending until it is credited in full, Stripe's too.)
RecordAfterAlike(p, delta) ==
  LET amount == record[p].amount + delta
  IN [status |-> IF amount >= Price THEN "completed" ELSE "pending", amount |-> amount]

RecordAfter(p, delta) ==
  LET amount == record[p].amount + delta
  IN [status |-> IF store[p] = "stripe" \/ amount >= Price THEN "completed" ELSE "pending",
      amount |-> amount]

Commit(r) ==
  /\ job[r].commit = "sent"
  /\ LET j == job[r]
     IN /\ coins' = IF j.delta = 0 THEN coins ELSE [coins EXCEPT ![j.user] = j.base + j.delta]
        /\ record' = IF j.op = "purchase" THEN [record EXCEPT ![j.item] = RecordAfter(j.item, j.delta)]
                     ELSE record
        /\ gifts' = IF j.op = "gift" THEN [gifts EXCEPT ![j.user] = @ + GiftCost] ELSE gifts
        /\ access' = IF j.op = "access" THEN [access EXCEPT ![j.user] = @ \cup {j.item}] ELSE access
        /\ paid' = IF j.op = "reward"
                   THEN [paid EXCEPT ![j.user][j.item] =
                           [entries |-> @.entries + 1, amount |-> @.amount + j.delta]]
                   ELSE paid
        /\ at' = IF at[r] = "orphan" THEN Put(at, r, "idle") ELSE at
        /\ job' = [q \in Workers |->
                     IF q # r THEN Overtaken(q, j)
                     ELSE IF at[r] = "orphan" THEN NoJob ELSE Settled([j EXCEPT !.commit = "applied"])]
  /\ UNCHANGED <<fixed, consumed, progress, claimed, faults>>

Committed(r) ==
  /\ at[r] = "sent" /\ job[r].commit = "applied"
  /\ LET j == job[r]
     IN CASE j.op = "purchase" ->
               IF record[j.item].status = "completed" THEN Delivered(r, j) ELSE Quit(r)
          [] j.op \in {"gift", "access"} -> Quit(r)
          [] j.op = "reward" ->
               IF j.item = Bonus THEN Quit(r)
               ELSE Go(r, "bonus", [NoJob EXCEPT !.op = "reward", !.user = j.user])
  /\ UNCHANGED <<fixed, wallets, consumed, progress, claimed, faults>>
-----------------------------------------------------------------------------
\* reconcileUnknownCommitResult: the record decides, and nothing is credited.
Reconcile(r) ==
  /\ at[r] = "unheard"
  /\ IF record[job[r].item].status = "completed" THEN Delivered(r, job[r])
     ELSE IF job[r].commit = "sent" THEN Go(r, "orphan", job[r])
     ELSE Quit(r)
  /\ UNCHANGED <<fixed, wallets, consumed, progress, claimed, faults>>

Consume(r) ==
  /\ at[r] = "consume"
  /\ consumed' = consumed \cup {job[r].item}
  /\ Quit(r)
  /\ UNCHANGED <<fixed, wallets, progress, claimed, faults>>

\* Once put back, a mission's flag is taken again at the mission's next event.  The
\* bonus is tried only after a mission was paid (Committed), and by nothing else.
PutBack(r) ==
  /\ at[r] = "putback"
  /\ claimed' = [claimed EXCEPT ![job[r].user] = @ \ {job[r].item}]
  /\ Quit(r)
  /\ UNCHANGED <<fixed, wallets, consumed, progress, faults>>

\* tryAwardAllMissionsBonus
AllMissions(r) ==
  /\ at[r] = "bonus"
  /\ LET u == job[r].user
     IN IF Bonus \notin claimed[u] /\ \A m \in Missions : progress[u][m] >= Target
        THEN Go(r, "claim", [job[r] EXCEPT !.item = Bonus])
        ELSE Quit(r)
  /\ UNCHANGED <<fixed, wallets, consumed, progress, claimed, faults>>
-----------------------------------------------------------------------------
(***************************************************************************)
(* What goes wrong.  The driver refuses to abort a transaction once its    *)
(* commit was sent: the catch of tryAwardMissionReward ends there, and the *)
(* flag stays.                                                             *)
(***************************************************************************)
\* The request ends without knowing what becomes of its commit.
Abandon(r) == IF job[r].commit = "sent" THEN Go(r, "orphan", job[r]) ELSE Quit(r)

\* (Mutant: the flag is put back whatever became of the commit.)
TimeoutPuttingBack(r) ==
  /\ at[r] = "sent"
  /\ Fault
  /\ IF job[r].op = "reward" THEN PutBackLater(r) ELSE Abandon(r)
  /\ UNCHANGED <<fixed, wallets, consumed, progress, claimed>>

\* No answer to the commit.  If the commit itself is lost, it takes no effect.
Timeout(r) ==
  /\ at[r] = "sent"
  /\ Fault
  /\ LET reconciled == job[r].op = "purchase" /\ store[job[r].item] # "stripe"
     IN IF reconciled
        THEN \/ Go(r, "unheard", job[r])
             \/ job[r].commit = "sent" /\ Go(r, "unheard", [job[r] EXCEPT !.commit = "none"])
        ELSE Abandon(r) \/ Quit(r)
  /\ UNCHANGED <<fixed, wallets, consumed, progress, claimed>>

\* The server aborts and says so: withTransaction runs the callback again.
Abort(r) ==
  /\ at[r] = "sent" /\ job[r].commit = "sent"
  /\ Fault
  /\ IF job[r].op = "reward" THEN Quit(r)
     ELSE Go(r, "begin", Settled([job[r] EXCEPT !.commit = "none"]))
  /\ UNCHANGED <<fixed, wallets, consumed, progress, claimed>>

\* The database fails before the commit; later failures end the request as a
\* crash does.
Fail(r) ==
  /\ at[r] \in {"begin", "write"}
  /\ Fault
  /\ IF job[r].op = "reward" THEN PutBackLater(r) ELSE Quit(r)
  /\ UNCHANGED <<fixed, wallets, consumed, progress, claimed>>

Crash(r) ==
  /\ at[r] \notin {"idle", "orphan"}
  /\ Fault
  /\ Abandon(r)
  /\ UNCHANGED <<fixed, wallets, consumed, progress, claimed>>
-----------------------------------------------------------------------------
Step(r) ==
  \/ Claim(r) \/ Begin(r) \/ Write(r) \/ Conflict(r) \/ Commit(r) \/ Committed(r)
  \/ Reconcile(r) \/ Consume(r) \/ PutBack(r) \/ AllMissions(r)

Redeliver(p) == record[p].status # "completed" /\ \E r \in Workers : Deliver(r, p)

Next ==
  \/ \E u \in Users : WriteElsewhere(u)
  \/ \E r \in Workers :
       \/ \E p \in Purchases : Deliver(r, p)
       \/ \E u \in Users : SendGift(r, u) \/ \E a \in Paywalls : Unlock(r, u, a)
       \/ \E u \in Players, m \in Missions : TrackEvent(r, u, m)
       \/ Step(r)
       \/ Timeout(r) \/ Abort(r) \/ Fail(r) \/ Crash(r)

(***************************************************************************)
(* A request that has begun goes on; the rest of the platform does not     *)
(* come between the read and the write of every single run of all of them; *)
(* a purchase whose delivery was not confirmed is delivered again, by      *)
(* Stripe or by the client's next start.                                   *)
(***************************************************************************)
Fairness ==
  /\ \A r \in Workers : WF_vars(Step(r))
  /\ SF_vars(\E r \in Workers : Write(r))
  /\ \A p \in Purchases : SF_vars(Redeliver(p))

Spec == Init /\ [][Next]_vars /\ Fairness
-----------------------------------------------------------------------------
\* The variables have their types; in particular no wallet is overdrawn or
\* above MAX_USER_COINS_BALANCE, whatever commits between a request's read
\* and its write (creditCoinsWithCap, transferCoins).
TypeOK ==
  /\ coins \in [Users -> 0..Cap] /\ opening \in [Users -> 0..Cap]
  /\ store \in [Purchases -> Stores]
  /\ record \in [Purchases -> Records]
  /\ consumed \subseteq Purchases
  /\ gifts \in [Users -> Nat]
  /\ access \in [Users -> SUBSET Paywalls]
  /\ progress \in [Users -> [Missions -> Nat]]
  /\ claimed \in [Users -> SUBSET Rewards]
  /\ paid \in [Users -> [Rewards -> [entries : Nat, amount : Nat]]]
  /\ at \in [Workers -> Labels]
  /\ job \in [Workers -> Jobs]
  /\ faults \in 0..MaxFaults

\* Every coin in a wallet is in the books: the balance is what it held at
\* first, plus the CoinTransactions of purchases and rewards, minus the Gifts and
\* one fee for each room or content that the user may enter, however often and
\* from however many requests it was asked for.
Spent == [u \in Users |-> gifts[u] + Fee * Cardinality(access[u])]
PurchasesOf(u) == {p \in Purchases : Owner[p] = u}
Bought(u) == SumFunction([p \in PurchasesOf(u) |-> record[p].amount])
Rewarded(u) == SumFunction([x \in Rewards |-> paid[u][x].amount])
WalletMatchesLedger ==
  \A u \in Users : coins[u] + Spent[u] = opening[u] + Bought(u) + Rewarded(u)

\* A purchase is consumed at Google Play, after which nobody can claim it any
\* more, only when all its coins were credited; a lost answer to the commit
\* changes nothing of this (verifyCoinsPurchase, reconcileUnknownCommitResult).
ConsumedMeansDelivered ==
  \A p \in consumed : record[p] = [status |-> "completed", amount |-> Price]

\* A reward is paid once at most, though the flag that guards it is put back
\* when the payment fails (tryAwardMissionReward, tryAwardAllMissionsBonus).
RewardPaidOnce == \A u \in Users, x \in Rewards : paid[u][x].entries <= 1

\* Where nothing failed and no request is at work on it, a reward's flag is set
\* exactly when the reward was paid.  A conflict never leaves it set without a
\* payment, after which no event could bring the reward, nor unset after one.
\* That is all: a mission whose flag was put back is tried again at its next event,
\* but nothing tries the bonus again, and one that met a conflict is lost.
FlagMeansPaid ==
  faults = 0 =>
    \A u \in Users, x \in Rewards :
      \/ \E r \in Workers : job[r].op = "reward" /\ job[r].user = u /\ job[r].item = x
      \/ x \in claimed[u] <=> paid[u][x].entries = 1

\* Whatever fails, a purchase that was paid does not stay open for ever: Stripe's
\* is credited as far as it fits, the others in full once there is room for it.
PurchasesDelivered ==
  \A p \in Purchases :
    []<>(record[p].status = "completed" \/ (store[p] # "stripe" /\ coins[Owner[p]] = Cap))
-----------------------------------------------------------------------------
Sources == Purchases \cup (Users \X Rewards)
SourceWorth == [s \in Sources |-> IF s \in Purchases THEN Price ELSE RewardCoins(s[2])]
SourceHolder == [s \in Sources |-> IF s \in Purchases THEN Owner[s] ELSE s[1]]
Credited == [s \in Sources |-> IF s \in Purchases THEN record[s].amount ELSE paid[s[1]][s[2]].amount]

Vault == INSTANCE CoinVault WITH Worth <- SourceWorth, Holder <- SourceHolder,
                                 credited <- Credited, spent <- Spent

\* However often a purchase is delivered and a reward claimed, each credits its
\* worth at most once, and only what fits: the wallets are a CoinVault.
ImplementsVault == Vault!Spec
=============================================================================
