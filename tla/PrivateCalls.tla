---------------------------- MODULE PrivateCalls ----------------------------
(***************************************************************************)
(* Video calls between two users (videoCall.controller.js) and the job     *)
(* that expires social calls.  A paid call is charged for its first minute *)
(* when the creator accepts it and for every further one when the caller's *)
(* client sends a tick.                                                    *)
(*                                                                         *)
(* A transaction whose reads are of the documents it writes is atomic, at  *)
(* the moment it commits: finalizePendingCall and the acceptance are one   *)
(* step.  The tick is not such a transaction (it ends a call because of a  *)
(* balance that it only reads, and keeps its answer in variables that a    *)
(* rerun does not reset): its snapshot and its commit are two steps.       *)
(* A handler that dies takes no further step; nothing it has not committed *)
(* is visible.                                                             *)
(***************************************************************************)
EXTENDS Integers, FiniteSets, Sequences, Functions

CONSTANTS
  Users,
  Invites,     \* POST /api/calls; a VideoCall is named by its invitation
  From, To,    \* its caller and recipient
  Paid,        \* the invitations of type paid_creator, the others are social
  Debited,     \* older pending calls whose first minute was paid in advance
  Requests,    \* respond, end, tick and get calls
  Price,       \* callCoins = pricePerMinute of the creator
  Percent,     \* the agency's percentage, 0 without one
  Cap,         \* MAX_USER_COINS_BALANCE
  Interval,    \* BILLING_TICK_MIN_INTERVAL_MS, in units of the clock
  MaxClock,    \* bound on the clock
  MaxFunds     \* bound on the coins a user gets from elsewhere

ASSUME CallAssumption ==
  /\ From \in [Invites -> Users] /\ To \in [Invites -> Users]
  /\ \A i \in Invites : From[i] # To[i]
  /\ Paid \subseteq Invites /\ Debited \subseteq Paid
  /\ \A c, d \in Debited : c # d => {From[c], To[c]} \cap {From[d], To[d]} = {}
  /\ Invites \cap Requests = {} /\ Invites # {}

ASSUME NumberAssumption ==
  /\ Price \in Nat \ {0} /\ Interval \in Nat \ {0}
  /\ Percent \in {0} \cup 5..30
  /\ Cap \in Nat /\ MaxClock \in Nat /\ MaxFunds \in Price..Cap

ASSUME FiniteAssumption == IsFiniteSet(Users) /\ IsFiniteSet(Invites)

VARIABLES
  clock,    \* the time of Date.now()
  calls,    \* VideoCall documents
  due,      \* live calls whose timeout or maximum duration has passed
  coins,    \* User.coins
  earned,   \* earningsCoins that calls have credited
  agency,   \* agencyEarningsCoins of the creators' agency
  ledger,   \* CoinTransaction records of each call
  at,       \* what each handler does next
  local,    \* and its local variables
  answer,   \* the HTTP answer
  funds     \* history: net coins that a user got from elsewhere

vars == <<clock, calls, due, coins, earned, agency, ledger, at, local, answer, funds>>
money == <<coins, earned, agency, ledger, funds>>

Handlers == Invites \cup Requests
Never == -1
NoCall == [status |-> "none", lastBilled |-> Never]
Over == {"rejected", "cancelled", "ended", "missed", "timeout"}
Docs == [status : {"none", "pending", "accepted"} \cup Over, lastBilled : {Never} \cup 0..MaxClock]
Labels == {"idle", "sift", "afford", "replace", "drop", "create", "read", "finalize", "expire",
           "hangup", "accept", "begin", "commit", "done"}
Codes == {"none", "ok", "refused", "busy", "broke", "gone", "over", "ended", "billed", "unbilled",
          "error"}
Goals == {"accept", "reject", "end", "tick", "get"}
NoLocal == [goal |-> "get", call |-> CHOOSE i \in Invites : TRUE, final |-> "none",
            now |-> 0, seen |-> NoCall, purse |-> 0, broke |-> FALSE, found |-> {}]
NoEntries == [first |-> 0, minutes |-> <<>>, refunds |-> 0, back |-> 0]

Status(c) == calls[c].status
Live(c) == Status(c) \in {"pending", "accepted"}
Of(c) == {From[c], To[c]}
Payers == {From[c] : c \in Paid}
Put(f, k, v) == [f EXCEPT ![k] = v]

(***************************************************************************)
(* calculateSplit.  The products are floating point: where the agency's    *)
(* share is exact, the floor may come out one coin lower (29 % of 100).    *)
(***************************************************************************)
Splits ==
  LET platform == (Price * 2) \div 5
      side == Price - platform
      Split(a) == [platform |-> platform, creator |-> side - a, agency |-> a]
      exact == Percent > 0 /\ (side * Percent) % 100 = 0
      cut == (side * Percent) \div 100
  IN {Split(cut)} \cup IF exact /\ cut > 0 THEN {Split(cut - 1)} ELSE {}

Goto(h, label) == at' = Put(at, h, label) /\ UNCHANGED answer
Reply(h, code) == at' = Put(at, h, "done") /\ answer' = Put(answer, h, code)
-----------------------------------------------------------------------------
Init ==
  /\ clock = 0
  /\ calls = [i \in Invites |->
                IF i \in Debited THEN [NoCall EXCEPT !.status = "pending"] ELSE NoCall]
  /\ due = {}
  /\ funds \in {f \in [Users -> {0, Price}] : \A u \in Users \ Payers : f[u] = 0}
  /\ coins = funds
  /\ earned = [u \in Users |-> 0]
  /\ agency = 0
  /\ ledger = [i \in Invites |-> NoEntries]
  /\ at = [h \in Handlers |-> IF h \in Debited THEN "done" ELSE "idle"]
  /\ local = [h \in Handlers |-> NoLocal]
  /\ answer = [h \in Handlers |-> "none"]

(***************************************************************************)
(* finalizePendingCall: the change of a pending call to its final status,  *)
(* with the refund of a charge made in advance, as far as the cap allows.  *)
(***************************************************************************)
Refund(c) ==
  LET room == Cap - coins[From[c]] back == IF room < Price THEN room ELSE Price IN
  IF c \in Debited /\ ledger[c].first = 0 /\ ledger[c].refunds = 0
  THEN /\ coins' = [coins EXCEPT ![From[c]] = @ + back]
       /\ ledger' = [ledger EXCEPT ![c].refunds = @ + 1, ![c].back = @ + back]
       /\ UNCHANGED <<earned, agency, funds>>
  ELSE UNCHANGED money

\* (Mutant: the update is by _id alone.)
FinalizeAnyway(c, final) ==
  calls' = [calls EXCEPT ![c].status = final] /\ due' = due \ {c} /\ Refund(c)

Finalize(c, final) ==
  \/ Status(c) # "pending" /\ UNCHANGED <<calls, due, money>>
  \/ /\ Status(c) = "pending"
     /\ calls' = [calls EXCEPT ![c].status = final] /\ due' = due \ {c} /\ Refund(c)

\* One findOneAndUpdate({status: "accepted"}).
End(c) ==
  /\ calls' = [calls EXCEPT ![c].status = "ended"] /\ due' = due \ {c}
  /\ UNCHANGED money
-----------------------------------------------------------------------------
(***************************************************************************)
(* inviteCall                                                              *)
(***************************************************************************)
\* findBlockingCall reads the live calls of both users ...
List(i) ==
  /\ at[i] = "idle" /\ i \in Invites
  /\ local' = [local EXCEPT ![i].found =
       {<<c, Status(c)>> : c \in {d \in Invites : Live(d) /\ Of(d) \cap Of(i) # {}}}]
  /\ Goto(i, "sift") \/ Reply(i, "refused")
  /\ UNCHANGED <<clock, calls, due, money>>

\* ... and goes through them: an expired one is finalized, one that is pending
\* between the same users is passed over, any other blocks.  (The deadline is asked
\* of the call's age now; the code compares the age of the document it listed.)
Sift(i) ==
  /\ at[i] = "sift"
  /\ \/ /\ local[i].found = {} /\ Goto(i, "afford")
        /\ UNCHANGED <<calls, due, money, local>>
     \/ \E f \in local[i].found :
          LET c == f[1] expired == f[2] = "pending" /\ c \in due IN
          \/ /\ expired /\ Finalize(c, "timeout")
             /\ local' = [local EXCEPT ![i].found = @ \ {f}] /\ UNCHANGED <<at, answer>>
          \/ /\ ~expired /\ f[2] = "pending" /\ Of(c) = Of(i)
             /\ local' = [local EXCEPT ![i].found = @ \ {f}]
             /\ UNCHANGED <<calls, due, money, at, answer>>
          \/ /\ ~expired /\ (f[2] = "accepted" \/ Of(c) # Of(i))
             /\ Reply(i, "busy") /\ UNCHANGED <<calls, due, money, local>>
  /\ UNCHANGED clock

\* The creator may not take private calls (403); the caller must afford a minute.
Afford(i) ==
  /\ at[i] = "afford"
  /\ \/ (i \notin Paid \/ coins[From[i]] >= Price) /\ Goto(i, "replace")
     \/ i \in Paid /\ coins[From[i]] < Price /\ Reply(i, "broke")
     \/ i \in Paid /\ Reply(i, "refused")
  /\ UNCHANGED <<clock, calls, due, money, local>>

\* The pending calls between the two users are read, then finalized as missed.
Replace(i) ==
  /\ at[i] = "replace"
  /\ local' = [local EXCEPT ![i].found =
       {<<c, "pending">> : c \in {d \in Invites : Status(d) = "pending" /\ Of(d) = Of(i)}}]
  /\ Goto(i, "drop")
  /\ UNCHANGED <<clock, calls, due, money>>

Drop(i) ==
  /\ at[i] = "drop"
  /\ \/ /\ local[i].found = {} /\ Goto(i, "create")
        /\ UNCHANGED <<calls, due, money, local>>
     \/ \E f \in local[i].found :
          /\ Finalize(f[1], "missed")
          /\ local' = [local EXCEPT ![i].found = @ \ {f}] /\ UNCHANGED <<at, answer>>
  /\ UNCHANGED clock

\* (Mutant: no unique index over the participants of live calls.)
CreateUnindexed(i) ==
  /\ at[i] = "create"
  /\ calls' = [calls EXCEPT ![i].status = "pending"] /\ Reply(i, "ok")
  /\ UNCHANGED <<clock, due, money, local>>

\* VideoCall.create under the partial unique index on activeParticipantIds.
Create(i) ==
  /\ at[i] = "create"
  /\ \/ /\ \A c \in Invites : Live(c) => Of(c) \cap Of(i) = {}
        /\ calls' = [calls EXCEPT ![i].status = "pending"] /\ Reply(i, "ok")
     \/ /\ \E c \in Invites : Live(c) /\ Of(c) \cap Of(i) # {}
        /\ UNCHANGED calls /\ Reply(i, "busy")
  /\ UNCHANGED <<clock, due, money, local>>
-----------------------------------------------------------------------------
(***************************************************************************)
(* respondCall, endCall, tickCall and the reads that expire a call.  A     *)
(* request by somebody whose role does not allow it is refused.            *)
(***************************************************************************)
Start(r) ==
  /\ at[r] = "idle" /\ r \in Requests
  /\ \E goal \in Goals, c \in Invites :
       /\ Status(c) # "none"
       /\ local' = [local EXCEPT ![r].goal = goal, ![r].call = c,
                                 ![r].now = IF goal = "tick" THEN clock ELSE 0]
       /\ Goto(r, IF goal = "tick" THEN "begin" ELSE "read")
  /\ UNCHANGED <<clock, calls, due, money>>

\* The VideoCall as findById returns it decides what is attempted.
Read(r) ==
  LET c == local[r].call goal == local[r].goal
      expired == /\ c \in due
                 /\ \/ Status(c) = "pending" /\ goal # "end"
                    \/ Status(c) = "accepted" /\ goal \in {"get", "end"}
      Attempt(label, final) ==
        local' = [local EXCEPT ![r].final = final] /\ Goto(r, label) IN
  /\ at[r] = "read"
  /\ \/ expired /\ Attempt(IF Status(c) = "pending" THEN "finalize" ELSE "expire", "timeout")
     \/ ~expired /\ goal = "get" /\ Reply(r, "ok") /\ UNCHANGED local
     \/ ~expired /\ goal = "accept" /\ Status(c) = "pending" /\ Attempt("accept", "none")
     \/ ~expired /\ goal = "reject" /\ Status(c) = "pending" /\ Attempt("finalize", "rejected")
     \/ ~expired /\ goal = "end" /\ Status(c) = "pending" /\ Attempt("finalize", "cancelled")
     \/ ~expired /\ goal = "end" /\ Status(c) = "accepted" /\ Attempt("hangup", "none")
     \/ ~expired /\ goal # "get" /\ Reply(r, "refused") /\ UNCHANGED local
  /\ UNCHANGED <<clock, calls, due, money>>

\* endCall answers 200 and announces CALL_ENDED whatever the call has become.
Conclude(r) ==
  LET c == local[r].call goal == local[r].goal IN
  /\ at[r] = "finalize"
  /\ \/ /\ Finalize(c, local[r].final)
        /\ Reply(r, CASE goal = "end" -> "ended" [] goal = "accept" -> "gone"
                      [] goal = "reject" /\ local[r].final = "timeout" -> "gone" [] OTHER -> "ok")
     \/ Finalize(c, local[r].final) /\ Reply(r, "error")
     \/ Reply(r, "error") /\ UNCHANGED <<calls, due, money>>
  /\ UNCHANGED <<clock, local>>

\* expireAcceptedSocialCall, and the hang-up of an accepted call.
Hangup(r) ==
  LET c == local[r].call IN
  /\ at[r] \in {"expire", "hangup"}
  /\ \/ Status(c) = "accepted" /\ End(c) /\ Reply(r, IF local[r].goal = "end" THEN "ended" ELSE "ok")
     \/ /\ Status(c) # "accepted" /\ UNCHANGED <<calls, due, money>>
        /\ Reply(r, CASE at[r] = "hangup" -> "over" [] local[r].goal = "end" -> "ended" [] OTHER -> "ok")
  /\ UNCHANGED <<clock, local>>

\* The caller pays; the creator, and the agency if there is one, earn.
Charge(c) ==
  \E s \in Splits :
    /\ coins' = [coins EXCEPT ![From[c]] = @ - Price]
    /\ earned' = [earned EXCEPT ![To[c]] = @ + s.creator]
    /\ agency' = agency + s.agency
    /\ UNCHANGED funds

Activate(c) ==
  /\ calls' = [calls EXCEPT ![c].status = "accepted"] /\ due' = due \ {c}
  /\ \/ c \notin Paid /\ UNCHANGED money
     \/ /\ c \in Paid /\ coins[From[c]] >= Price /\ Charge(c)
        /\ ledger' = [ledger EXCEPT ![c].first = @ + 1]

\* (Mutant: only the read before the transaction looks at the status.)
AcceptUnclaimed(r) ==
  /\ at[r] = "accept"
  /\ Activate(local[r].call) /\ Reply(r, "ok")
  /\ UNCHANGED <<clock, local>>

\* The transaction of an acceptance; "error" is also the answer when its commit
\* is applied and not heard of.
Accept(r) ==
  LET c == local[r].call IN
  /\ at[r] = "accept"
  /\ \/ Status(c) = "pending" /\ Activate(c) /\ (Reply(r, "ok") \/ Reply(r, "error"))
     \/ /\ UNCHANGED <<calls, due, money>>
        /\ \/ Reply(r, "refused")         \* answered before, or a block between the two
           \/ c \in Paid /\ Status(c) = "pending" /\ coins[From[c]] < Price /\ Reply(r, "broke")
           \/ Reply(r, "error")
  /\ UNCHANGED <<clock, local>>
-----------------------------------------------------------------------------
(***************************************************************************)
(* The transaction of tickCall.                                            *)
(***************************************************************************)
Billable(c, now) == calls[c].lastBilled = Never \/ calls[c].lastBilled <= now - Interval

TickBegin(r) ==
  LET c == local[r].call IN
  /\ at[r] = "begin"
  /\ \/ /\ Status(c) # "accepted" \/ c \notin Paid
        /\ Reply(r, "refused") /\ UNCHANGED local
     \/ /\ Status(c) = "accepted" /\ c \in Paid /\ ~Billable(c, local[r].now)
        /\ Reply(r, IF local[r].broke THEN "ended" ELSE "unbilled") /\ UNCHANGED local
     \/ /\ Status(c) = "accepted" /\ c \in Paid /\ Billable(c, local[r].now)
        /\ local' = [local EXCEPT ![r].seen = calls[c], ![r].purse = coins[From[c]]]
        /\ Goto(r, "commit")
  /\ UNCHANGED <<clock, calls, due, money>>

Paying(r) == local[r].purse >= Price

\* (Mutants: the claim of the minute looks at lastBilledAt alone; the minute is
\* claimed outside of the transaction; the caller is debited outside of it.)
ConflictOnBilling(r) ==
  LET c == local[r].call IN
  \/ calls[c].lastBilled # local[r].seen.lastBilled
  \/ Paying(r) /\ coins[From[c]] # local[r].purse
ConflictOnPurse(r) == Paying(r) /\ coins[From[local[r].call]] # local[r].purse
ConflictOnCall(r) == calls[local[r].call] # local[r].seen

\* The transaction writes the call, and the caller if it debits one.
Conflict(r) ==
  LET c == local[r].call IN
  \/ calls[c] # local[r].seen
  \/ Paying(r) /\ coins[From[c]] # local[r].purse

Bill(r) ==
  LET c == local[r].call IN
  /\ calls' = [calls EXCEPT ![c].lastBilled = local[r].now]
  /\ Charge(c)
  /\ ledger' = [ledger EXCEPT ![c].minutes = Append(@, local[r].now)]
  /\ UNCHANGED due

EndUnpaid(r) ==
  LET c == local[r].call IN
  /\ calls' = [calls EXCEPT ![c].status = "ended", ![c].lastBilled = local[r].now]
  /\ due' = due \ {c} /\ UNCHANGED money

\* responseStatus keeps the 402 of an earlier run of the callback.
TickApplied(r) ==
  /\ at[r] = "commit" /\ ~Conflict(r)
  /\ \/ Paying(r) /\ Bill(r) /\ Reply(r, IF local[r].broke THEN "ended" ELSE "billed")
     \/ ~Paying(r) /\ EndUnpaid(r) /\ Reply(r, "ended")
     \/ (IF Paying(r) THEN Bill(r) ELSE EndUnpaid(r)) /\ Reply(r, "error")
  /\ UNCHANGED <<clock, local>>

\* A conflict stops the run at its first write, an aborted commit after its last.
TickReruns(r) ==
  /\ at[r] = "commit"
  /\ \/ Conflict(r) /\ UNCHANGED local
     \/ ~Conflict(r) /\ local' = [local EXCEPT ![r].broke = @ \/ ~Paying(r)]
  /\ Goto(r, "begin")
  /\ UNCHANGED <<clock, calls, due, money>>

\* (Mutant: a failure of the transaction is logged and the answer sent.)
TickFailsSilently(r) ==
  /\ at[r] = "commit" /\ Reply(r, IF Paying(r) THEN "billed" ELSE "error")
  /\ UNCHANGED <<clock, calls, due, money, local>>

\* (Mutant: the debit is not part of the transaction that fails.)
TickFailsDebited(r) ==
  /\ at[r] = "commit" /\ Paying(r) /\ coins[From[local[r].call]] >= Price /\ Reply(r, "error")
  /\ coins' = [coins EXCEPT ![From[local[r].call]] = @ - Price]
  /\ UNCHANGED <<clock, calls, due, earned, agency, ledger, funds, local>>

TickFails(r) ==
  /\ at[r] = "commit" /\ Reply(r, "error")
  /\ UNCHANGED <<clock, calls, due, money, local>>
-----------------------------------------------------------------------------
(***************************************************************************)
(* Time, the expiration job (socialCallExpiration.job.js) and the coins    *)
(* that the rest of the platform gives and takes.                          *)
(***************************************************************************)
Tock == clock < MaxClock /\ clock' = clock + 1 /\ UNCHANGED <<calls, due, money, at, local, answer>>

Deadline(c) ==
  /\ c \notin due
  /\ \/ Status(c) = "pending"
     \/ Status(c) = "accepted" /\ c \notin Paid
  /\ due' = due \cup {c}
  /\ UNCHANGED <<clock, calls, money, at, local, answer>>

\* (Mutant: expirePendingSocialCalls alone.)
JobForPending(c) ==
  /\ c \in due \ Paid /\ Status(c) = "pending" /\ Finalize(c, "timeout")
  /\ UNCHANGED <<clock, at, local, answer>>

Job(c) ==
  /\ c \in due \ Paid
  /\ \/ Status(c) = "pending" /\ Finalize(c, "timeout")
     \/ Status(c) = "accepted" /\ End(c)
  /\ UNCHANGED <<clock, at, local, answer>>

\* The caller's wallet changes elsewhere: a credit (creditCoinsWithCap), or spending
\* on a gift, a room or content, which is a transaction of its own.
Other(u) ==
  /\ \E d \in {Price, -Price} :
       /\ coins[u] + d \in 0..Cap /\ funds[u] + d <= MaxFunds
       /\ coins' = [coins EXCEPT ![u] = @ + d] /\ funds' = [funds EXCEPT ![u] = @ + d]
  /\ UNCHANGED <<clock, calls, due, earned, agency, ledger, at, local, answer>>

Invite(i) == List(i) \/ Sift(i) \/ Afford(i) \/ Replace(i) \/ Drop(i) \/ Create(i)
Tick(r) == TickBegin(r) \/ TickApplied(r) \/ TickReruns(r) \/ TickFails(r)
Request(r) == Start(r) \/ Read(r) \/ Conclude(r) \/ Hangup(r) \/ Accept(r) \/ Tick(r)

Next ==
  \/ \E i \in Invites : Invite(i)
  \/ \E r \in Requests : Request(r)
  \/ \E c \in Invites : Deadline(c) \/ Job(c)
  \/ \E u \in Payers : Other(u)
  \/ Tock

Spec == Init /\ [][Next]_vars

\* Time passes, and the job runs every ten seconds.  Nothing else is promised.
FairSpec == Spec /\ \A c \in Invites : WF_vars(Deadline(c)) /\ WF_vars(Job(c))
-----------------------------------------------------------------------------
Charges(c) == ledger[c].first + Len(ledger[c].minutes)

\* Every variable has its type; in particular no wallet ever goes negative or
\* over the cap, though a tick debits the balance another handler may have spent.
TypeOK ==
  /\ clock \in 0..MaxClock
  /\ calls \in [Invites -> Docs]
  /\ due \subseteq {c \in Invites : Live(c)}
  /\ coins \in [Users -> 0..Cap] /\ earned \in [Users -> Nat] /\ agency \in Nat
  /\ \A u \in Users : funds[u] <= MaxFunds
  /\ at \in [Handlers -> Labels] /\ answer \in [Handlers -> Codes]

\* No user is in two calls at once: the invitations and acceptances that race
\* each other are settled by the index over the participants of live calls.
OneLiveCallPerUser ==
  \A c, d \in Invites : Live(c) /\ Live(d) /\ c # d => Of(c) \cap Of(d) = {}

\* Every coin of every minute charged is in exactly one pocket: wallets, creators'
\* earnings, agency and platform shares agree with the CoinTransaction records.
CallsFrom(u) == {c \in Invites : From[c] = u}
Net(c) == ledger[c].back - Price * Charges(c)
Shared == Price - (Price * 2) \div 5
BooksBalance ==
  /\ \A u \in Users : coins[u] = funds[u] + SumFunction([c \in CallsFrom(u) |-> Net(c)])
  /\ SumFunction(earned) + agency = Shared * SumFunction([c \in Invites |-> Charges(c)])

\* Ticks of the same call that race or are retried never bill two minutes less
\* than the minimum interval apart.
MinutesApart ==
  \A c \in Invites : LET m == ledger[c].minutes IN
    \A j, k \in DOMAIN m : j < k => m[k] - m[j] >= Interval

\* A tick answered as billed has charged a minute of its own: no other tick with
\* this answer shares its entry in the ledger.
BilledMeansCharged ==
  \A c \in Invites :
    LET billed == {r \in Requests : answer[r] = "billed" /\ local[r].call = c} IN
    /\ \A r \in billed : \E k \in DOMAIN ledger[c].minutes : ledger[c].minutes[k] = local[r].now
    /\ Cardinality(billed) <= Len(ledger[c].minutes)

\* A first minute that was paid in advance is either earned, when the call is
\* accepted, or refunded once, when it is not: never both and never neither.
EarnedOrRefunded ==
  \A c \in Debited :
    ledger[c].first + ledger[c].refunds = IF Status(c) = "pending" THEN 0 ELSE 1

\* An answer that says the call has ended - 200 to a cancellation or hang-up,
\* 402 to a tick - means that it is over.
EndedMeansOver ==
  \A r \in Requests : answer[r] = "ended" => Status(local[r].call) \in Over

\* A call goes from pending to accepted or to its end, and from accepted to
\* ended; no handler that read it earlier brings it back or renames its end.
CallLifecycle ==
  [][\A c \in Invites : Status(c) # Status(c)' =>
       <<Status(c), Status(c)'>> \in {<<"none", "pending">>, <<"pending", "accepted">>, <<"accepted", "ended">>}
                                     \cup {"pending"} \X (Over \ {"ended"})]_vars

\* No minute is charged for a call that is not, at that moment, going on.
NoChargeAfterEnd ==
  [][\A c \in Invites : Len(ledger'[c].minutes) > Len(ledger[c].minutes) => Status(c) = "accepted"]_vars

\* A social call that is answered by nobody, or ended by nobody, is ended by the job.
SocialCallsEnd == \A c \in Invites \ Paid : Live(c) ~> ~Live(c)
=============================================================================
