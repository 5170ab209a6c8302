# MeetYouLive: a TLA+ verification project

TLA+ models of the parts of MeetYouLive in which money moves or people meet, the
TLC runs that check them and the proofs TLAPS checks. Everything is translated
from the source under `src/`; `PROJECT.json` maps each definition to the lines it
stands for.

The backend (`src/backend/src`) is a set of stateless Express processes over one
MongoDB. Nothing locks across requests: what keeps two requests apart is a
conditional update, a unique index, or a multi-document transaction under
snapshot isolation. The models are therefore models of handlers that interleave
at every database call, on any number of processes.

## Inventory

| Component | State | Operations | Hard because | Must hold |
|---|---|---|---|---|
| Creator withdrawals (`creator.controller.js`, `admin.controller.js`, `Payout`) | `User.earningsCoins`, `Payout` documents | request, approve, reject (refund), mark paid, audit | retries, client replays, unknown commits, staff racing each other, gifts credited meanwhile | one withdrawal at a time, no coin lost, replays answered alike, statuses monotone |
| Account deletion (`accountDeletion.service.js`, `hardDeleteUser`) | all collections of a user | delete, hard delete | crosses every other component | nobody is paid for, or shown, another user's records |
| Random 1:1 (`random.service.js`) | queue, sessions | join, next, leave | matching on several processes, rerun transactions, unawaited deletions | one session per user, no compatible pair forgotten |
| Video calls (`videoCall.controller.js`, expiration job) | `VideoCall`, coin and earnings balances | invite, accept, reject, cancel, end, tick, expire | both clients tick and hang up at once, transactions rerun, expiration races answers | one live call per user, each minute billed once, coins conserved |
| Subscription lifecycle | a fence per user, the local `Subscription`, Stripe's objects | checkout, cancel, webhook, delete, manual review | Stripe's answers lost, workers that die, webhooks late and repeated | one customer, one payable page, no call outside the fence, no deletion over an unknown mutation |
| Coin purchases (Stripe, Google Play, App Store) | `CoinTransaction`, `User.coins`, consumption at Google | webhook, verify, restore | delivered many times, cap on the balance, commits unheard | credited once, consumed only when delivered, not left open |
| Gifts, combos, top supporter | `Gift`, `Live.userCombos`, `Live.topSupporter` | send gift and its unawaited follow-ups | read-modify-write on one document | the top supporter is the top supporter |
| Live rooms, guests, VS battles | `Live` documents, process timers | join, approve, challenge, accept, end | two documents saved apart, timers lost on restart | both sides agree on the battle |
| Sockets and social rooms | in-memory presence | join, leave, switch, disconnect | awaited lookups between events | nobody present without a socket |
| Legacy withdrawals | `WithdrawalRequest` | request, approve, reject, mark paid | reads followed by saves | one payment per request |
| Agencies | `AgencyRelationship`, snapshots, counters | request, approve by three parties, remove | approvals at once | counters match relationships |
| Missions and daily rewards | `UserMissions`, `User` | track, award | flag and coins in two documents | a reward is paid once |
| Face references, chat, feed, notifications, reports, authentication, clients | - | - | external services, text, read-only queries | see "Not modelled" |

Components meet in the user document: gifts and calls credit `earningsCoins` while
a withdrawal empties it; staff suspends or deletes a user in the middle of a
withdrawal or of a match; account deletion takes the subscription's fence; gifts,
calls, purchases and rewards meet in `User.coins`. Sockets only carry notifications
after the database has decided.

The hazards, each at its line and with the properties that would catch it, are in
`PROJECT.json` under `hazards`.

## Modules

| Module | What it is |
|---|---|
| `CreatorPayouts` | the withdrawal handlers over MongoDB |
| `PayoutLedger` | the abstract account they implement |
| `MCCreatorPayouts` | its instances for TLC |
| `CreatorPayoutsProofs` | theorems about its transactions, balances and coins |
| `CreatorPayoutsAnswers` | theorems about its answers, records and audit, and the refinement of `PayoutLedger` |
| `RandomMatch`, `MCRandomMatch` | the matchmaker and its instances |
| `RandomMatchProofs` | theorems about `RandomMatch` |
| `PrivateCalls`, `MCPrivateCalls` | video calls, their billing and expiration, and the instances |
| `PrivateCallsProofs` | theorems about its balances and its live calls |
| `PrivateCallsBilling` | theorems about its minutes, its refunds and its books |
| `SubscriptionLifecycle` | the Stripe subscription of one account, and Stripe |
| `ProviderFence` | the abstract fence around calls to a provider that it implements |
| `MCSubscriptionLifecycle` | its instances for TLC |
| `SubscriptionLifecycleProofs` | theorems about it, and the refinement of `ProviderFence` |
| `CoinEconomy` | purchases, gifts, paid entries and mission rewards over one wallet per user |
| `CoinVault` | the abstract wallets it implements |
| `MCCoinEconomy` | its instance for TLC |
| `CoinEconomyProofs` | theorems about it, and the refinement of `CoinVault` |
| `FiniteSums` | lemmas about sums over finite sets, for the books of the last two |

### CreatorPayouts

State: one balance per creator, the payout collection, and for each HTTP call its
program counter, its attempt number, what it last read (`seen`) and its
transaction as the server sees it (`txn`). A MongoDB transaction is modelled as
the server runs it. The first statement takes the snapshot (`Begin`). A write
(`Reserve`, `Insert`, `CompareAndSwap`, `Refund`) meets a newer version
(`stale`) or another open write (`HoldsUser`, `HoldsPayout`) as a write
conflict. The commit is a message: the server applies it (`ApplyRequest`,
`ApplyAdmin`) or aborts it, and independently the driver reports success, a
transient error, or nothing it can be sure of (`RequestCommitUnknown`). That
separation is what the interesting paths of `requestPayout` are about.

`Start`, `Replay`, `Precheck`, `Begin`, `Reserve`, `Insert`, `Duplicate`, `Verify`
follow `requestPayout` in order; `Submit` to `Audit` follow `updatePayout`;
`Rerun` and `NextAttempt` are `withTransaction` and the handlers' own retry loop;
`DbError` and `Crash` may strike anywhere. `Credit`, `HardDeleteUser` and
`DeleteUserAccount` are the rest of the platform. `earned`, `paidOut` and
`replayOf` are history variables: no action reads them.

Abstracted: text validation, formatting, the payout profile (complete or not is a
free choice at `Precheck`), and approval of the creator (a free choice at `Start`).

### PayoutLedger

What a creator is promised, with no handlers: earnings come in, the whole balance
is set aside when nothing is, and what is set aside is returned or settled.
`CreatorPayouts` implements it with `balance <- earnings`, `held <-` the amount of
the active payout, `settled <- paidOut`.

### RandomMatch

State: the queue (oldest first), the sessions, and for each call its position in
`join`, `next` or `leave`, the candidates it scanned, the entries it holds locked
and `matchedSession` (`made`). `ClaimOther`, `ClaimSelf`, `Create` and the commit
actions are the callback of the transaction, which may run again with its closure
as the earlier run left it; `Drop` and `DropLost` are the deletions that
`attemptMatch` does not await.

### PrivateCalls

State: the `VideoCall` documents (status and `lastBilledAt`; an invitation names the
call it creates), the set `due` of live calls whose deadline has passed, the wallets
and earnings, and the `CoinTransaction` records of each call. `List` to `Create` are
`inviteCall` with `findBlockingCall`; `Start`, `Read`, `Conclude`, `Hangup`, `Accept`
are `respondCall`, `endCall` and the reads that expire a call; `TickBegin`,
`TickApplied`, `TickReruns`, `TickFails` are `tickCall`; `Job` is the expiration job.

`finalizePendingCall` and the acceptance are transactions that write every document
they decide on, so each is one step, at its commit (a failed or rerun one shows
nothing). `tickCall` is not: it ends a call because of a balance it only reads, and
its answer lives in variables that a rerun does not reset. Its snapshot and commit
are apart, and a commit needs the written documents as the snapshot had them. The
documents are compared by value where MongoDB compares versions: a wallet debited
and topped up again in between lets the model commit where the server would rerun,
to the same result. `funds` is a history variable: what a user gets from, and
spends on, everything else.

Abstracted: permission checks are the free choice of a refusal; deadlines are the
free choice of `Deadline`; the agency relationship does not change during a run.
`calculateSplit` multiplies floating point numbers, which for some percentages loses
a coin of the agency's share to the creator (29 % of 100 gives 28): `Splits` allows
both.

`Other` is everything else that changes the caller's wallet, credits and spending alike.
`Sift` asks whether a call's deadline has passed when it comes to it, where the code
compares the age of the document it listed; no property tells the two apart.

What the model says without a property about it: an accepted paid call has no
deadline, so both users stay busy until one of them ends it; `lastBilledAt` is empty
after the acceptance, so the first tick bills a second minute whenever it comes; a
call debited while pending is debited again when accepted.

### SubscriptionLifecycle

State: the user, its `Subscription` (`local`) and `StripeSubscriptionLifecycle`
(`fence`) documents, what Stripe keeps (`customers`, `checkout`), the calls sent to
Stripe and not yet carried out or lost (`flight`), the events it still delivers
(`pending`), and for each request its position and the variables of its handler.
Accounts share no document, so the model has one.

`Arrive`, `Acquire`, `GiveUp`, `Mutate`, `Confirm`, `Distrust` and `Release` are
`withSubscriptionLifecycle` and `runLifecycle`; the actions between them are the
callbacks in the order of their awaits: `ChooseCustomer` to `OpenCheckout` the two
Checkout endpoints, `SettleHistory` to `ListPages` `assertDeletionSafe`, `Cancel` to
`Revoke` the cancellation, `Erase` the deletion's transaction, `Purge` and `Bury` the
administrators' deletion, which removes the user and buries the fence in two steps,
`TrackCustomer` to `Grant` the webhooks. A request draws a fresh owner token; when
its process dies the token belongs to nobody (`Gone`), and only `Review` may open
that fence again.

A call to Stripe is a message: it may be carried out long after its sender timed out
or died. A webhook whose answer was lost stays in `pending`. "paid" stands for
`checkout.session.completed` and `invoice.payment_succeeded`, which both ask Stripe
again and write the same. `Review` trusts what the code cannot check either: that the
owner was stopped, that the customer inventory is complete, and that the outcome is
what the provider's log says.

Abstracted: ids are numbers and always well formed; customers name their account in
their metadata; tiers, period ends and schedules are left out; a page lists all there
is; the 25 tries for the fence are a free choice to give up while it is shut.

### ProviderFence

A door that is open, shut or gone, and calls that fly: a call starts behind the shut
door, one at a time, the door does not open while it flies, and once gone no call
starts. `SubscriptionLifecycle` implements it with `door <- Door` (the fence's phase)
and `flying <- flight`.

### CoinEconomy

State: the wallets, a `CoinTransaction` for each purchase, what Google says of its
consumption, the coins given as gifts, the access each user has (`paidViewers`,
`ExclusiveUnlock`), the mission counters, flags and payments, and for each request
its transaction. All operations share one transaction machinery: `Begin` takes the
snapshot and decides, `Write` meets a conflicting transaction (`Clash`) or goes on,
`Commit` is the server's step, `Timeout`, `Abort`, `Fail` and `Crash` are what can
happen instead. They differ in what they do about it, and that is what the module is
about: `withTransaction` runs a callback again, the stores' handlers ask the record
after an unheard commit (`Reconcile`), missions put a flag back that was set outside
the transaction (`PutBack`) unless the driver refuses the abort because the commit
was sent.

A wallet is one field of the user's document, and MongoDB's conflicts are between
documents. `WriteElsewhere` is every other write of that document: the XP that a paid
mission sets off without waiting for it (`addXP`), earnings, statistics. It waits for a
commit on its way and makes stale every transaction that has read the document and has
still to write it.

`Deliver` is a delivery of a purchase by Stripe's webhook or by a client, which
repeats it as often as it likes; `Begin` with `Fits` and `RecordAfter` is the partial
credit under the cap. Stripe's purchase is complete with whatever fits; the stores'
purchases stay pending until all was credited, and Google's is consumed then and only
then (`Consume`). `CreditOnce` and `CreditRest` are the two, `Enter` is the paid
entry. `SendGift`, `Unlock` and `TrackEvent` are the other operations.

Abstracted: prices are constants; what creators and agencies earn is in
`CreatorPayouts` and `PrivateCalls`; verification of a purchase with its store is
assumed done; one day, so that counters never reset. A transaction whose amount is 0 is taken not to
write the wallet, so it meets no conflict there.

### CoinVault

Wallets that change only by a credit from a source that still owes, by no more than
it owes and not past the cap, or by spending coins that are there. `CoinEconomy`
implements it with one source for each purchase and reward, `credited` what its
records say, `spent` the gifts and one fee for each access.

## Runs

| Run | Instance | What it shows |
|---|---|---|
| `payouts_race` | one creator, two requests (one with a client key), two staff calls, credits | isolation, one withdrawal at a time, conservation, no false audit entry, lifecycle, implementation of `PayoutLedger` |
| `payouts_replay` | one key sent twice for two destinations, two attempts each, one staff call | one payout per key, no payout behind a refusal, replays answered with the same payout |
| `payouts_collide` | two creators with the same key, one of whom may be deleted | a success names one's own payout, stored with the amount reserved, as long as the account exists; every request is answered |
| `random_match` | three users, one pair blocked, three calls, one user suspended and reinstated | one session per user, both entries consumed, no compatible pair left waiting |
| `random_leave` | the same, no suspension | refuted: a leave that is overtaken by a match leaves its user in a session |
| `random_phantom` | the same | refuted: a rerun transaction answers with a session that was never created |
| `calls_billing` | one paid call, three concurrent requests, a wallet that changes elsewhere | wallets never negative, books balance, minutes apart, a tick answered as billed is billed, none after the end |
| `calls_invites` | a pending call paid in advance, an invitation the other way, one by a third user, one request | one live call per user, the advance earned or refunded once, lifecycle, social calls end |
| `calls_cancel` | as `calls_billing` | refuted: a cancellation overtaken by the acceptance is answered as an ended call |
| `subscription_fence` | two requests at a time, two customers and two pages possible, one fault | one customer, one payable page, every call under way recorded by the shut fence, no document for a deleted user, deletions verified, implementation of `ProviderFence` |
| `subscription_deletion` | one request at a time, one page, no fault | refuted: an account is deleted with a live subscription |
| `economy` | one purchase, one gift, one paid room, two missions and their bonus, two requests at a time, one fault | the books match the wallet, no coin past the cap, consumption after delivery, rewards paid once, without a fault their flags set exactly when paid, purchases not left open, implementation of `CoinVault` |

Deadlock is not checked: the calls of an instance are finitely many, and when all
are answered nothing is left to do.

Bounds. Two calls of a kind are enough for every race between them, since each
conflict in the code is between two transactions; the third call of `random_match`
is the one that can pair a user between two steps of another. `MaxRetries` is 1 in
`payouts_race`, where reruns by the driver (which do not count) already repeat
the transaction without bound, and 2 in `payouts_replay`, where the handler's own
loop matters. `MaxEarned` bounds the coins credited (two credits of the minimum:
one before the reservation and one racing it). In `RandomMatch` a call creates one
session, and a user is suspended and reinstated once. In `PrivateCalls` three requests
are an acceptance and two ticks, or one tick and whatever races it; `MaxClock` equals
`Interval`, so the second minute may be billed exactly at the limit; `MaxFunds` pays
for three minutes, and in `calls_invites` the cap leaves room for half a refund.

In `SubscriptionLifecycle` requests are reused: two at a time, any number in all. A
second customer and a second page can exist, so their absence means something; one
fault is enough to leave a call unanswered or the fence shut, after which the review
brings the account back into use. In `CoinEconomy` too requests are reused. The
wallet is empty at first; once a mission has paid 1, the cap of 2 makes the purchase of
2 fit in part, and a gift or the room makes the rest fit; two missions let two requests reach the bonus at once; the one
fault is a crash, a timeout, an abort or a failure at any place. `Stores` leaves the
App Store out of the instance: its path is Google's without the consumption.

Fairness (`FairSpec` of `CreatorPayouts`): a handler that can take a step takes it,
since an Express handler is never parked by the program; the server settles every
commit it received; and the driver does not rerun a callback for ever (its limit
is 120 seconds), stated as strong fairness of `NextAttempt`.

`FairSpec` of `PrivateCalls` asks for less: deadlines pass, and the job, which runs
every ten seconds, looks at every call. No handler is promised to take a step.

`SubscriptionLifecycle` asks for no fairness: a shut fence waits for people. `Spec` of
`CoinEconomy` says that a request which can take a step takes it, and that a purchase
whose delivery was not confirmed is delivered again (Stripe repeats its webhook; the
client sends pending purchases at every start), stated as strong fairness because a
free request is not always there. Nothing in the code keeps other writes of the user
document from overtaking a transaction every time it runs; that this does not go on for
ever, whoever runs, is the strong fairness of "some request writes". It is about all
requests together: a single one may be overtaken always, and `Conflict` lets it give up.

Symmetry is used only in runs without liveness properties, and only over calls that
the instance treats alike.

## What is proved

`CreatorPayoutsProofs`, for any sets of creators, requests, staff calls, keys and
destinations and any number of retries, from the assumptions named in
`CreatorPayouts` (calls of the two kinds are distinct, a key is shared only by
requests whose client chose it, the minimum is positive):

- `TypesHold`: `TypeOK` is an invariant.
- `CommitsAreCurrent`: `CommitsActOnCurrentState` is an invariant.
- `OneWithdrawalAtATime`, `CoinsAreConserved`: so are `AtMostOneActivePayout` and
  `EarningsConserved`.

Neither of the last two is inductive. A request at `insert` is about to write 0 to
the balance and to insert a payout; this keeps both invariants only if no payout
is active and the balance is still what the request read. That is what
`CommitsActOnCurrentState` says of every transaction that can still commit, and it
is inductive together with the types: it says who holds which document, and that a
holder's knowledge is current because every commit by somebody else either waits
for it or makes it stale. The proof goes action by action; the two commits are the
only steps that move coins.

`CreatorPayoutsAnswers`, from the same assumptions, proves every other safety property
of the three runs: `KeysAreUsedOnce`, `RefusalsAreTrue`, `SuccessesLast`,
`ReplaysAreRecognised`, `AuditIsTrue`, and of steps `PayoutsFollowTheirLifecycle`.
What a handler answers depends on where its commit stands, so the invariant `Records`
pairs the two: a commit that was sent or applied belongs to a handler that has nothing
left to do but learn of it, and who answered a failure has none (`Flow`); a request
leaves at most the payout of its one applied attempt, gone only with its creator's
account (`OwnPayout`); a key being committed is nobody else's (`KeyAlone`); no payout is
moved by two staff calls (`StaffFlow`, `StaffOnce`). `OnePayoutPerKey` needs `KeyAlone`,
`SuccessIsDurable` needs `OwnPayout`, the audit needs `StaffOnce`.

Two of them say less than their names might suggest. `SuccessIsDurable` holds as long as
the creator's account exists; then the payout of the answer is stored with the creator,
key and operation of the request that was answered and with the amount which that
request read and reserved. `AuditTellsTheTruth` is about the entries there are: each
names an applied decision that the payout still shows, and two entries about one payout
are its approval and its payment. It does not exclude that an entry is missing, and one
is missing when the answer to the commit was lost: `updatePayout` then answers 500 and
logs nothing. Nor does it say what status the decision found.
`LedgerImplemented` maps each step to one of `PayoutLedger` or to a stutter.

`PrivateCallsProofs`, for any finite sets of users and invitations and any requests,
price, percentage and cap, assuming that the calls debited in advance share no user (the
index again), that the percentage is none or 5 to 30, and that the cap is at least the
price:

- `WalletsWithinBounds`: `TypeOK`, so no balance is negative or over the cap. The
  inductive invariant adds the types of the handlers' local variables and of the
  records. The one debit that does not test the balance in its own step is the
  tick's: its lemma (`BillTyped`) needs `~Conflict`, which makes the balance it read
  the current one. `SplitShares` shows that no share of `calculateSplit` is negative.
- `OneCallAtATime`: `OneLiveCallPerUser`. Every step but `Create` is shown to make no
  call live (`NoneRevived`), and `Create` succeeds only for users in no live call.

`PrivateCallsBilling` goes on from there: `MinutesStayApart`, `BilledIsCharged`,
`AdvanceIsEarnedOrRefunded`, `CallsMoveOn`, `NoMinuteAfterTheEnd`. Its invariant
`Billing` says that a tick about to commit has seen an accepted call whose interval has
passed (`HandlerSane`), that no minute is later than `lastBilledAt` (`MinutesSane`), that
each tick answered as billed has its own minute (`BilledSane`), and that the first minute
of a call is earned or refunded exactly when it is no longer pending (`EarnedOnce`).
`BooksStayBalanced` needs no more than the types: each step is shown to change the coins
in all pockets by the same amount as the books (`MoneyMoves`).

`SubscriptionLifecycleProofs`, for any number of requests, customers, Checkout sessions
and faults, from the assumption that owner tokens are not the two reserved names, proves
every property of `subscription_fence`: `ShapesHold`, `CallsAreFenced`,
`CustomersAreNotDuplicated`, `CustomersAreKnown`, `OnePageAtATime`, `GoneStaysGone`,
`DeletionsAreVerified`, `FenceImplemented`. None of the invariants is inductive: that a
customer is not created twice depends on the list its creator read before, on the fence
staying shut while the answer is unknown, and on what the owner remembers of both. The
inductive invariant says that only the owner of the fence is inside it, and what the
owner found out that is still true at each label (`WorkerSane`); that a call in flight is
the one the shut fence records, sent when it could do no harm (`FlightSane`); that a
customer the fence does not know is the one being created (`KnownSane`); and what Stripe
can hold (`ProviderSane`).

`CoinEconomyProofs`, for any users, rewards and requests, finitely many purchases and
missions and any positive prices, from the assumption that the names of purchases,
missions and rooms are distinct from each other where one variable holds them, proves
every safety property of `economy`: `WalletsStayInBounds`, `ConsumedIsDelivered`,
`RewardsArePaidOnce`, `FlagsTellOfPayment`, `WalletsMatchTheBooks`, and
`VaultImplemented`. A commit writes what its snapshot decided, so the invariant says that
a transaction that can still commit has decided on what is there (`Fresh`), and that no
two of them write the same document (`Apart`): `Write` goes on only where nobody who
clashes is on the way, and a commit makes those it clashes with stale. A reward is paid
once because one request at most holds its flag unpaid (`ClaimsSane`), through the
unheard commits and the flags that are put back. `FlagsTellOfPayment` says that a flag
is set exactly when its reward was paid, where nothing failed and no request is at work
on it; it does not say that a flag which was put back is tried again.

`RandomMatchProofs`, for any users, calls, blocks and scan limit, and any queue of
users who block each other to start with:

- `MatchTypes`, `NobodyIsInTwoSessions`, `MatchesConsumeBoth`: from what the locks of an
  open transaction mean. They name queued users, no two transactions lock the same
  entry, and at the commit neither user is in a live session.
- `NoPairIsForgotten`, and with few users `FewUsersAreNeverForgotten`:
  `NoPairLeftWaiting`, by the invariant that of any two queued users who are not
  blocked one has a call which has still to try the other, or has met an error, or is
  about to be dropped (`Paired`). It holds as long as no more users wait than a call
  scans (`ShortQueue`), and not otherwise: see "Met while reading".

`FiniteSums` holds what the two theorems about books say of sums. The sum is the fold of
the community modules, a recursive function; its existence and uniqueness are shown
with the fact that a collection of finite sets has a smallest member, since the
library's induction theorems cannot be instantiated, and from them that a sum is taken
apart at any element and changes with one term.

Every safety and step property of a passing run is stated by a theorem.

## Hazards that no property covers

Three of the hazards in PROJECT.json are in a model and still without a property. The
removal of an ineligible queue entry that is not awaited (`random.service.js:94`) is
`Drop` and `DropLost`, but the properties about waiting except dropped users, to whom
the code promises nothing. The acceptance of a call is one MongoDB transaction and one
step of the model, so `BooksBalance` and `EarnedOrRefunded` cannot see a part of it. The
lost bonus is described under "Met while reading". A tick's stale 402 is covered by
`EndedMeansOver`, the refutation of `calls_cancel`, and not by `BilledMeansCharged`,
which looks at answers of billed only.

## Only model-checked

Liveness: `EveryRequestAnswered` of `payouts_collide`, `SocialCallsEnd` of
`calls_invites`, `PurchasesDelivered` of `economy`. They rest on fairness, that is on
`ENABLED`, which the prover does not handle. The four refutations are counterexamples
of their instances and need no proof.

## Findings

- `random_leave`: `leave` looks for a session once and then deletes its queue entry.
  If a match commits in between it answers `idle` and its user is in a session.
- `random_phantom`: `matchedSession` survives a rerun of the transaction.
- `calls_cancel`: `endCall` answers 200 and emits `CALL_ENDED` for a cancellation that
  came after the acceptance. The call goes on, its first minute is paid. (A tick whose
  commit was rolled back after it found too few coins can answer 402 in the same way.)
- `subscription_deletion`: `assertDeletionSafe` lists the subscriptions and then the
  open pages. A page that is paid between the two is in neither list, and the account
  is deleted while its subscription goes on. `DeletionVerified` shows that this is the
  only gap: what is live when the user goes was an open page when the subscriptions
  were listed.

Met while reading, outside what the runs check:

- `attemptMatch` reads the 25 oldest entries and never looks further
  (`random.service.js:73-75`). When the 25 who wait longest all block the caller, or the
  caller them, a compatible user behind them is not tried, and two who could be matched
  stay in the queue until one of them calls again. (With a limit of 1 and two pairs
  blocked among three users TLC finds it in the model.) So `NoPairIsForgotten` has a
  hypothesis about the queue.
- A late `customer.subscription.deleted` of an old subscription overwrites the local
  document of a newer one and revokes its VIP (`subscription.controller.js:411-423`;
  `Upsert` and `Grant` do the same).
- `Live.topSupporter` defaults to `null` (`Live.js:118`) and `gift.controller.js:621`
  sets fields below it, which MongoDB refuses below a null.
- The all-missions bonus is lost after one write conflict. Its catch puts the flag back
  (`missions.service.js:221-225`), but `tryAwardAllMissionsBonus` runs only after a
  mission was just awarded (`missions.service.js:94-99`), and by then all are. For a
  mission's own reward the comment of line 160, "Roll back the rewarded flag so a retry
  can succeed", is true: its next event is the retry. The conflict is likely, since the
  `addXP` of line 169 is not awaited and writes the same user document just when the
  bonus begins. The model does the same (`PutBack`, `AllMissions`, `WriteElsewhere`)
  with no fault at all; `FlagMeansPaid` holds, for the flag is unset and nothing paid.
- A mission whose commit was not answered stays flagged whether or not it was applied:
  the driver does not abort after a commit, so the flag is not put back. Never paid
  twice, it may be lost; `FlagMeansPaid` is stated for runs without such a fault.
- `passes.controller.js:69-78` checks, debits and creates in three steps; sparks can go
  below the `min: 0` of the schema.
- Two agency invitations sent before either is active can make a chain, which the
  invitation's own checks would refuse later (`agency.controller.js`).

## Plan

1. Proofs: done for the safety and step properties of every passing run. What is left is
   to state more of them: that `leave` takes a user out when no match overtakes it, and
   that what `endCall` answers is true of the call it read.
2. Models: social rooms (two sockets of one user, two rooms); legacy withdrawals
   beside `CreatorPayouts`; the agency relationship.

## Not modelled

Chat moderation, feed, discovery and rankings: their behaviour is in text and
scores. Notifications and e-mail: output only. Reports, analytics and
reconciliation: they read. Authentication and onboarding: the models start from an
authenticated user. Face references: a client of an external recognition service.
VS battles, guests, combos and the top supporter: documents read, changed and saved
without a condition, or in memory timers; nothing of several steps holds of them, and
the hazards say so. Presence in social rooms: memory of one process, advisory. Daily
and referral rewards, boosts and likes: one transaction each, of a shape that
`CoinEconomy` has. Legacy withdrawals and the agency's approval: not modelled, see the
plan. Sparks, passes, videos and refunds by the stores: not modelled. Web and mobile clients are the environment of the models: any call,
at any time, any number of times.
