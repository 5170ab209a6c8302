--------------------------- MODULE CreatorPayouts ---------------------------
(***************************************************************************)
(* Creator withdrawals: requestPayout (creator.controller.js), the staff   *)
(* decision updatePayout (admin.controller.js) and the Payout collection.  *)
(*                                                                         *)
(* An element of Requests is one HTTP POST by a creator, an element of     *)
(* AdminOps one HTTP PATCH by a staff member; a client that retries is     *)
(* another element of Requests with the same Key.  Each handler runs its   *)
(* writes in a MongoDB transaction, which is modelled as the database runs *)
(* it: the first statement takes the snapshot, a write to a document that  *)
(* was committed after the snapshot or that another open transaction has   *)
(* written fails with a write conflict, and the commit is a message: it is *)
(* applied or not independently of what the handler learns about it.       *)
(***************************************************************************)
EXTENDS Integers, FiniteSets

CONSTANTS
  Creators,      \* users with role creator/subCreator
  Requests,      \* POST /api/creator/request-payout calls
  AdminOps,      \* PATCH /api/admin/payouts/:id calls
  Owner,         \* the authenticated creator of a request
  Key,           \* its Payout.requestId: Idempotency-Key or crypto.randomUUID()
  Destinations,  \* the (method, paymentDetails) pairs a request may name
  ClientKeyed,   \* the requests whose key came from the client
  MinPayout,     \* MIN_PAYOUT_COINS
  MaxRetries,    \* PAYOUT_TX_MAX_RETRIES = PAYOUT_UPDATE_MAX_RETRIES
  Credits,       \* sizes of the earnings credits that are explored
  MaxEarned,     \* bound on the coins a creator ever earns
  Leavers        \* the creators whose account may be deleted

ASSUME RequestAssumption ==
  /\ Requests \cap AdminOps = {}
  /\ Owner \in [Requests -> Creators]
  /\ ClientKeyed \subseteq Requests
  /\ Leavers \subseteq Creators
  /\ Destinations # {}
  /\ \A r, s \in Requests : Key[r] = Key[s] => r = s \/ {r, s} \subseteq ClientKeyed

ASSUME BoundAssumption ==
  /\ MinPayout \in Nat \ {0}
  /\ MaxRetries \in Nat \ {0}
  /\ Credits \subseteq Nat \ {0}
  /\ MaxEarned \in Nat

VARIABLES
  earnings,   \* User.earningsCoins
  exists,     \* the User document has not been deleted
  payouts,    \* the Payout collection
  pc,         \* where each handler stands
  attempt,    \* the handler's retry counter
  txn,        \* the handler's transaction, as the server sees it
  stale,      \* open transactions whose snapshot of the user is out of date
  details,    \* the (method, paymentDetails) of a request
  seen,       \* earningsCoins as a request last read it
  op,         \* the action and payout of a staff call
  resp,       \* the HTTP answer
  audited,    \* staff calls recorded in StaffAuditLog
  earned,     \* history: every coin ever credited to a creator
  paidOut,    \* history: coins of payouts that were marked paid
  replayOf    \* history: the payout a request repeats, if there was one

userVars == <<earnings, exists, earned>>
flowVars == <<attempt, stale, details, seen, op, audited, replayOf>>
vars == <<earnings, exists, payouts, pc, attempt, txn, stale, details, seen, op,
          resp, audited, earned, paidOut, replayOf>>

Txns == Requests \cup AdminOps
\* A Payout is named by the request and the attempt that inserted it.
PayoutIds == Requests \X (1..MaxRetries)
NoPayout == [amount |-> 0, status |-> "none"]
NoId == <<>>

CreatorOf(id) == Owner[id[1]]
Stored(id) == payouts[id].status # "none"
\* Payout.find({creator, status: {$in: ["pending", "approved"]}})
ActiveIds(c) ==
  {id \in PayoutIds : CreatorOf(id) = c /\ payouts[id].status \in {"pending", "approved"}}
\* (Mutant: a lookup by requestId alone.)
TaggedByKeyAlone(r) == {id \in PayoutIds : Stored(id) /\ Key[id[1]] = Key[r]}
\* findPayoutForRequestId(requestId, creatorId)
Tagged(r) ==
  {id \in PayoutIds : Stored(id) /\ CreatorOf(id) = Owner[r] /\ Key[id[1]] = Key[r]}
\* payoutMatchesRequestParams
SameOperation(id, r) == details[id[1]] = details[r]

NoAnswer == [code |-> "none", payout |-> NoId]
NoOp == [action |-> "none", payout |-> NoId]
Actions == {"approve", "reject", "mark_paid"}
ExpectedStatus == [approve |-> "pending", reject |-> "pending", mark_paid |-> "approved"]
NextStatus == [approve |-> "approved", reject |-> "rejected", mark_paid |-> "paid"]

(***************************************************************************)
(* The database: which uncommitted writes block others, which snapshots    *)
(* a commit makes stale.                                                   *)
(***************************************************************************)
Target(t) == IF t \in Requests THEN Owner[t] ELSE CreatorOf(op[t].payout)

\* Transaction t has an uncommitted write on the user document of c.
HoldsUser(t, c) ==
  \/ t \in Requests /\ txn[t] \in {"wrote", "committing"} /\ Owner[t] = c
  \/ /\ t \in AdminOps /\ txn[t] = "committing"
     /\ op[t].action = "reject" /\ CreatorOf(op[t].payout) = c
UserFree(c) == \A t \in Txns : ~HoldsUser(t, c)

HoldsPayout(a, id) == op[a].payout = id /\ txn[a] \in {"wrote", "committing"}
PayoutFree(id) == \A a \in AdminOps : ~HoldsPayout(a, id)

\* A commit on the user document of c outdates every open snapshot of it.
StaleAfterWrite(c) == stale \cup {t \in Txns : txn[t] \in {"open", "wrote"} /\ Target(t) = c}

\* The 4xx answers share the code "refused", except the 403 of Start.
Answer(t, code, id) ==
  /\ pc' = [pc EXCEPT ![t] = "done"]
  /\ resp' = [resp EXCEPT ![t] = [code |-> code, payout |-> id]]

Goto(t, label) == pc' = [pc EXCEPT ![t] = label] /\ UNCHANGED resp
SetTxn(t, s) == txn' = [txn EXCEPT ![t] = s]
-----------------------------------------------------------------------------
Init ==
  /\ earnings = [c \in Creators |-> 0]
  /\ exists = [c \in Creators |-> TRUE]
  /\ payouts = [id \in PayoutIds |-> NoPayout]
  /\ pc = [t \in Txns |-> "idle"]
  /\ attempt = [t \in Txns |-> 1]
  /\ txn = [t \in Txns |-> "none"]
  /\ stale = {}
  /\ details = [r \in Requests |-> CHOOSE d \in Destinations : TRUE]
  /\ seen = [r \in Requests |-> 0]
  /\ op = [a \in AdminOps |-> NoOp]
  /\ resp = [t \in Txns |-> NoAnswer]
  /\ audited = {}
  /\ earned = [c \in Creators |-> 0]
  /\ paidOut = [c \in Creators |-> 0]
  /\ replayOf = [r \in Requests |-> NoId]

(***************************************************************************)
(* The rest of the platform credits earnings ($inc by gifts, calls, ...)   *)
(* and deletes users.  hardDeleteUser filters Payouts by a field they do   *)
(* not have (userId) and leaves them; deleteUserAccount removes them in    *)
(* the transaction that removes the user.                                  *)
(***************************************************************************)
Credit(c, n) ==
  /\ exists[c] /\ UserFree(c) /\ earned[c] + n <= MaxEarned
  /\ earnings' = [earnings EXCEPT ![c] = @ + n]
  /\ earned' = [earned EXCEPT ![c] = @ + n]
  /\ stale' = StaleAfterWrite(c)
  /\ UNCHANGED <<exists, payouts, pc, attempt, txn, details, seen, op, resp, audited,
                 paidOut, replayOf>>

DropUser(c) ==
  /\ c \in Leavers /\ exists[c] /\ UserFree(c)
  /\ exists' = [exists EXCEPT ![c] = FALSE]
  /\ earnings' = [earnings EXCEPT ![c] = 0]
  /\ stale' = StaleAfterWrite(c)
  /\ UNCHANGED <<pc, attempt, txn, details, seen, op, resp, audited, earned, paidOut, replayOf>>

HardDeleteUser(c) == DropUser(c) /\ UNCHANGED payouts

DeleteUserAccount(c) ==
  /\ DropUser(c)
  /\ \A id \in PayoutIds : CreatorOf(id) = c => PayoutFree(id)
  /\ payouts' = [id \in PayoutIds |-> IF CreatorOf(id) = c THEN NoPayout ELSE payouts[id]]
-----------------------------------------------------------------------------
(***************************************************************************)
(* requestPayout                                                           *)
(***************************************************************************)
\* requireApprovedCreatorHelper reads the user; its earningsCoins may be old
\* by the time it is used.  The creator need not be approved (403).
Start(r) ==
  /\ pc[r] = "idle"
  /\ \E d \in Destinations :
       /\ details' = [details EXCEPT ![r] = d]
       /\ replayOf' = [replayOf EXCEPT ![r] =
            IF \E id \in Tagged(r) : details[id[1]] = d
            THEN CHOOSE id \in Tagged(r) : details[id[1]] = d ELSE NoId]
  /\ \/ /\ exists[Owner[r]]
        /\ seen' = [seen EXCEPT ![r] = earnings[Owner[r]]]
        /\ Goto(r, IF r \in ClientKeyed THEN "replay" ELSE "precheck")
     \/ Answer(r, "forbidden", NoId) /\ UNCHANGED seen
  /\ UNCHANGED <<userVars, payouts, attempt, txn, stale, op, audited, paidOut>>

\* resolveIdempotentPayout: what the payout already stored under the request's
\* key makes of it.  `missing' says what follows when there is none.
Resolve(r, missing) ==
  \/ \E id \in Tagged(r) :
       \/ SameOperation(id, r) /\ Answer(r, "ok", id)
       \/ ~SameOperation(id, r) /\ Answer(r, "refused", NoId)
  \/ Tagged(r) = {} /\ missing

\* (Mutant: a replay is treated as a new request.)
ReplayIgnored(r) ==
  /\ pc[r] = "replay" /\ Goto(r, "precheck")
  /\ UNCHANGED <<userVars, payouts, txn, flowVars, paidOut>>

Replay(r) ==
  /\ pc[r] = "replay"
  /\ Resolve(r, Goto(r, "precheck"))
  /\ UNCHANGED <<userVars, payouts, txn, flowVars, paidOut>>

\* The payout profile must be complete and name this destination; then the
\* balance read at the start must reach the minimum.
Precheck(r) ==
  /\ pc[r] = "precheck"
  /\ \/ Answer(r, "refused", NoId)
     \/ seen[r] < MinPayout /\ Answer(r, "refused", NoId)
     \/ seen[r] >= MinPayout /\ Goto(r, "begin")
  /\ UNCHANGED <<userVars, payouts, txn, flowVars, paidOut>>

\* (Mutant: no look at the creator's active payouts.)
BeginUnchecked(r) ==
  /\ pc[r] = "begin"
  /\ Goto(r, "reserve") /\ SetTxn(r, "open") /\ stale' = stale \ {r}
  /\ seen' = [seen EXCEPT ![r] = earnings[Owner[r]]]
  /\ UNCHANGED <<userVars, payouts, attempt, details, op, audited, paidOut, replayOf>>

\* (Mutant: the reservation trusts the balance read before the transaction.)
BeginOnOldBalance(r) ==
  /\ pc[r] = "begin"
  /\ ActiveIds(Owner[r]) = {}
  /\ Goto(r, "reserve") /\ SetTxn(r, "open") /\ stale' = stale \ {r}
  /\ UNCHANGED <<userVars, payouts, attempt, details, seen, op, audited, paidOut, replayOf>>

\* withTransaction, first statement: Payout.findOne for an active payout.
Begin(r) ==
  /\ pc[r] = "begin"
  /\ \/ ActiveIds(Owner[r]) # {} /\ Answer(r, "refused", NoId) /\ UNCHANGED <<txn, stale, seen>>
     \/ /\ ActiveIds(Owner[r]) = {}
        /\ Goto(r, "reserve")
        /\ SetTxn(r, "open")
        /\ stale' = stale \ {r}
        /\ seen' = [seen EXCEPT ![r] = earnings[Owner[r]]]
  /\ UNCHANGED <<userVars, payouts, attempt, details, op, audited, paidOut, replayOf>>

\* (Mutant: the update runs outside the session, on the latest balance.)
ReserveOutsideSession(r) ==
  /\ pc[r] = "reserve" /\ UserFree(Owner[r])
  /\ IF earnings[Owner[r]] < MinPayout
     THEN Answer(r, "refused", NoId) /\ SetTxn(r, "aborted") /\ UNCHANGED seen
     ELSE /\ Goto(r, "insert") /\ SetTxn(r, "wrote")
          /\ seen' = [seen EXCEPT ![r] = earnings[Owner[r]]]
  /\ UNCHANGED <<userVars, payouts, attempt, stale, details, op, audited, paidOut, replayOf>>

\* User.findOneAndUpdate({earningsCoins: {$gte: MIN}}, {$set: {earningsCoins: 0}})
Reserve(r) ==
  /\ pc[r] = "reserve"
  /\ \/ seen[r] < MinPayout /\ Answer(r, "refused", NoId) /\ SetTxn(r, "aborted")
     \/ /\ seen[r] >= MinPayout
        /\ r \in stale \/ ~UserFree(Owner[r])
        /\ Goto(r, "retry") /\ SetTxn(r, "aborted")
     \/ /\ seen[r] >= MinPayout
        /\ r \notin stale /\ UserFree(Owner[r])
        /\ Goto(r, "insert") /\ SetTxn(r, "wrote")
  /\ UNCHANGED <<userVars, payouts, flowVars, paidOut>>

\* The unique index on requestId, at the time of the insert.
KeyStored(r) == \E id \in PayoutIds : Stored(id) /\ Key[id[1]] = Key[r]
KeyBeingInserted(r) == \E s \in Requests \ {r} : txn[s] = "committing" /\ Key[s] = Key[r]

\* (Mutant: no unique index on requestId.)
InsertWithoutIndex(r) ==
  /\ pc[r] = "insert"
  /\ Goto(r, "commit") /\ SetTxn(r, "committing")
  /\ UNCHANGED <<userVars, payouts, flowVars, paidOut>>

\* Payout.create: a duplicate key is reported as E11000, or as a write conflict
\* when the other insert is uncommitted or newer than the snapshot.
Insert(r) ==
  /\ pc[r] = "insert"
  /\ \/ /\ ~KeyStored(r) /\ ~KeyBeingInserted(r)
        /\ Goto(r, "commit") /\ SetTxn(r, "committing")
     \/ KeyStored(r) /\ Goto(r, "duplicate") /\ SetTxn(r, "aborted")
     \/ (KeyStored(r) \/ KeyBeingInserted(r)) /\ Goto(r, "retry") /\ SetTxn(r, "aborted")
  /\ UNCHANGED <<userVars, payouts, flowVars, paidOut>>

\* isDuplicateRequestIdError: every way out but a replay is a 409.
Duplicate(r) ==
  /\ pc[r] = "duplicate"
  /\ Resolve(r, Answer(r, "refused", NoId)) \/ Answer(r, "refused", NoId)
  /\ UNCHANGED <<userVars, payouts, txn, flowVars, paidOut>>

\* (Mutant: keeps polling until the payout shows up.)
VerifyUntilFound(r) ==
  /\ pc[r] = "verify"
  /\ Resolve(r, FALSE)
  /\ UNCHANGED <<userVars, payouts, txn, flowVars, paidOut>>

\* resolvePayoutAfterUnknownCommit: read, never run again.
Verify(r) ==
  /\ pc[r] = "verify"
  /\ Resolve(r, Answer(r, "unknown", NoId)) \/ Answer(r, "unknown", NoId)
  /\ UNCHANGED <<userVars, payouts, txn, flowVars, paidOut>>

\* The server applies the commit of request r.
ApplyRequest(r) ==
  /\ txn[r] = "committing"
  /\ SetTxn(r, "applied")
  /\ earnings' = [earnings EXCEPT ![Owner[r]] = 0]
  /\ payouts' = [payouts EXCEPT ![<<r, attempt[r]>>] = [amount |-> seen[r], status |-> "pending"]]
  /\ stale' = StaleAfterWrite(Owner[r])
  /\ UNCHANGED <<exists, pc, attempt, details, seen, op, resp, audited, earned, paidOut, replayOf>>

\* The driver reports an acknowledged commit.
RequestCommitted(r) ==
  /\ pc[r] = "commit" /\ txn[r] = "applied"
  /\ Answer(r, "ok", <<r, attempt[r]>>)
  /\ UNCHANGED <<userVars, payouts, txn, flowVars, paidOut>>

\* (Mutant: an unknown commit result is reported as an ordinary 500.)
RequestCommitFailed(r) ==
  /\ pc[r] = "commit"
  /\ Answer(r, "error", NoId)
  /\ UNCHANGED <<userVars, payouts, txn, flowVars, paidOut>>

\* The driver gives up on the commit (UnknownTransactionCommitResult), which
\* may have been applied, may never be, or may still be under way.
RequestCommitUnknown(r) ==
  /\ pc[r] = "commit"
  /\ Goto(r, "verify")
  /\ UNCHANGED <<userVars, payouts, txn, flowVars, paidOut>>
-----------------------------------------------------------------------------
(***************************************************************************)
(* updatePayout                                                            *)
(***************************************************************************)
Submit(a, act, id) ==
  /\ pc[a] = "idle" /\ Stored(id)
  /\ op' = [op EXCEPT ![a] = [action |-> act, payout |-> id]]
  /\ Goto(a, "begin")
  /\ UNCHANGED <<userVars, payouts, attempt, txn, stale, details, seen, audited, paidOut, replayOf>>

\* (Mutant: the filter has no status.)
SwapWithoutCompare(a) ==
  /\ pc[a] = "begin" /\ PayoutFree(op[a].payout)
  /\ IF op[a].action = "reject"
     THEN Goto(a, "refund") /\ SetTxn(a, "wrote")
     ELSE Goto(a, "commit") /\ SetTxn(a, "committing")
  /\ stale' = stale \ {a}
  /\ UNCHANGED <<userVars, payouts, attempt, details, seen, op, audited, paidOut, replayOf>>

\* Payout.findOneAndUpdate({_id, status: expectedStatus}): the compare-and-swap
\* is the transaction's first statement, so it also takes the snapshot.
CompareAndSwap(a) ==
  LET id == op[a].payout
      matches == payouts[id].status = ExpectedStatus[op[a].action]
  IN
  /\ pc[a] = "begin"
  /\ \/ ~PayoutFree(id) /\ matches /\ Goto(a, "retry") /\ SetTxn(a, "aborted")
     \/ ~matches /\ Answer(a, "refused", NoId) /\ SetTxn(a, "aborted")
     \/ /\ PayoutFree(id) /\ matches
        /\ IF op[a].action = "reject"
           THEN Goto(a, "refund") /\ SetTxn(a, "wrote")
           ELSE Goto(a, "commit") /\ SetTxn(a, "committing")
  /\ stale' = stale \ {a}
  /\ UNCHANGED <<userVars, payouts, attempt, details, seen, op, audited, paidOut, replayOf>>

\* reject: User.findByIdAndUpdate(creator, {$inc: {earningsCoins: amountCoins}})
Refund(a) ==
  LET c == CreatorOf(op[a].payout)
      blocked == a \in stale \/ ~UserFree(c)
  IN
  /\ pc[a] = "refund"
  /\ \/ blocked /\ Goto(a, "retry") /\ SetTxn(a, "aborted")
     \/ ~blocked /\ ~exists[c] /\ Answer(a, "refused", NoId) /\ SetTxn(a, "aborted")
     \/ ~blocked /\ exists[c] /\ Goto(a, "commit") /\ SetTxn(a, "committing")
  /\ UNCHANGED <<userVars, payouts, flowVars, paidOut>>

\* (Mutant: rejecting changes the status and forgets the refund.)
ApplyAdminWithoutRefund(a) ==
  LET id == op[a].payout IN
  /\ txn[a] = "committing" /\ SetTxn(a, "applied")
  /\ payouts' = [payouts EXCEPT ![id].status = NextStatus[op[a].action]]
  /\ paidOut' = IF op[a].action = "mark_paid"
                THEN [paidOut EXCEPT ![CreatorOf(id)] = @ + payouts[id].amount] ELSE paidOut
  /\ UNCHANGED <<userVars, pc, resp, flowVars>>

\* The server applies the commit of a staff call.
ApplyAdmin(a) ==
  LET id == op[a].payout
      c == CreatorOf(id)
  IN
  /\ txn[a] = "committing"
  /\ SetTxn(a, "applied")
  /\ payouts' = [payouts EXCEPT ![id].status = NextStatus[op[a].action]]
  /\ IF op[a].action = "reject"
     THEN /\ earnings' = [earnings EXCEPT ![c] = @ + payouts[id].amount]
          /\ stale' = StaleAfterWrite(c)
     ELSE UNCHANGED <<earnings, stale>>
  /\ paidOut' = IF op[a].action = "mark_paid"
                THEN [paidOut EXCEPT ![c] = @ + payouts[id].amount] ELSE paidOut
  /\ UNCHANGED <<exists, pc, attempt, details, seen, op, resp, audited, earned, replayOf>>

AdminCommitted(a) ==
  /\ pc[a] = "commit" /\ txn[a] = "applied"
  /\ Goto(a, "audit")
  /\ UNCHANGED <<userVars, payouts, txn, flowVars, paidOut>>

\* (Mutant: an unknown commit result is taken for a success.)
AdminCommitAssumed(a) ==
  /\ pc[a] = "commit"
  /\ Goto(a, "audit")
  /\ UNCHANGED <<userVars, payouts, txn, flowVars, paidOut>>

\* updatePayout has no case for an unknown commit result: a 500 and no audit.
AdminCommitUnknown(a) ==
  /\ pc[a] = "commit"
  /\ Answer(a, "error", NoId)
  /\ UNCHANGED <<userVars, payouts, txn, flowVars, paidOut>>

\* logStaffAction never fails its caller; the entry may be lost.
Audit(a) ==
  /\ pc[a] = "audit"
  /\ audited' \in {audited, audited \cup {a}}
  /\ Answer(a, "ok", op[a].payout)
  /\ UNCHANGED <<userVars, payouts, txn, attempt, stale, details, seen, op, paidOut, replayOf>>
-----------------------------------------------------------------------------
(***************************************************************************)
(* Shared by both handlers.                                                *)
(***************************************************************************)
\* The server aborts a transaction instead of committing it.
AbortCommit(t) ==
  /\ txn[t] = "committing"
  /\ SetTxn(t, "aborted")
  /\ UNCHANGED <<userVars, payouts, pc, resp, flowVars, paidOut>>

\* The driver learns of that abort as a TransientTransactionError.
CommitTransient(t) ==
  /\ pc[t] = "commit" /\ txn[t] = "aborted"
  /\ Goto(t, "retry")
  /\ UNCHANGED <<userVars, payouts, txn, flowVars, paidOut>>

\* withTransaction runs its callback again ...
Rerun(t) ==
  /\ pc[t] = "retry"
  /\ Goto(t, "begin")
  /\ UNCHANGED <<userVars, payouts, txn, flowVars, paidOut>>

\* (Mutant: the loop does not stop at PAYOUT_TX_MAX_RETRIES.)
NextAttemptUnbounded(t) ==
  /\ pc[t] = "retry"
  /\ attempt' = [attempt EXCEPT ![t] = @ + 1]
  /\ Goto(t, "begin")
  /\ UNCHANGED <<userVars, payouts, txn, stale, details, seen, op, audited, paidOut, replayOf>>

\* ... up to its own time limit; past it the error reaches the handler's loop,
\* which starts a new attempt or ends.
NextAttempt(t) ==
  /\ pc[t] = "retry"
  /\ \/ /\ attempt[t] < MaxRetries
        /\ attempt' = [attempt EXCEPT ![t] = @ + 1]
        /\ Goto(t, "begin")
     \/ /\ attempt[t] = MaxRetries
        /\ UNCHANGED attempt
        /\ Answer(t, "error", NoId)
  /\ UNCHANGED <<userVars, payouts, txn, stale, details, seen, op, audited, paidOut, replayOf>>

\* Any other database error before the commit: the transaction aborts, 500.
DbError(t) ==
  /\ pc[t] \in {"replay", "precheck", "begin", "reserve", "insert", "refund"}
  /\ Answer(t, "error", NoId)
  /\ IF txn[t] \in {"open", "wrote"} THEN SetTxn(t, "aborted") ELSE UNCHANGED txn
  /\ UNCHANGED <<userVars, payouts, flowVars, paidOut>>

\* The server process dies: no answer; a commit already sent stays on its way.
Crash(t) ==
  /\ pc[t] \notin {"idle", "done"}
  /\ Answer(t, "lost", NoId)
  /\ IF txn[t] \in {"open", "wrote"} THEN SetTxn(t, "aborted") ELSE UNCHANGED txn
  /\ UNCHANGED <<userVars, payouts, flowVars, paidOut>>
-----------------------------------------------------------------------------
RequestStep(r) ==
  \/ Start(r) \/ Replay(r) \/ Precheck(r) \/ Begin(r) \/ Reserve(r) \/ Insert(r)
  \/ Duplicate(r) \/ Verify(r) \/ RequestCommitted(r) \/ RequestCommitUnknown(r)

AdminStep(a) ==
  \/ \E act \in Actions, id \in PayoutIds : Submit(a, act, id)
  \/ CompareAndSwap(a) \/ Refund(a) \/ AdminCommitted(a) \/ AdminCommitUnknown(a) \/ Audit(a)

SharedStep(t) == CommitTransient(t) \/ Rerun(t) \/ NextAttempt(t)

Platform(c) ==
  \/ \E n \in Credits : Credit(c, n)
  \/ HardDeleteUser(c)
  \/ DeleteUserAccount(c)

Next ==
  \/ \E c \in Creators : Platform(c)
  \/ \E r \in Requests : RequestStep(r) \/ ApplyRequest(r)
  \/ \E a \in AdminOps : AdminStep(a) \/ ApplyAdmin(a)
  \/ \E t \in Txns : SharedStep(t) \/ AbortCommit(t) \/ DbError(t) \/ Crash(t)

Spec == Init /\ [][Next]_vars

(***************************************************************************)
(* Fairness.  A handler that can go on does (the process is not suspended  *)
(* for ever), the server settles every commit it received, and the driver  *)
(* does not rerun a callback past its 120 second limit.                    *)
(***************************************************************************)
HandlerFairness ==
  /\ \A r \in Requests :
       /\ WF_vars(pc[r] # "idle" /\ RequestStep(r))
       /\ WF_vars(ApplyRequest(r) \/ AbortCommit(r))
  /\ \A a \in AdminOps :
       /\ WF_vars(pc[a] # "idle" /\ AdminStep(a))
       /\ WF_vars(ApplyAdmin(a) \/ AbortCommit(a))
  /\ \A t \in Txns : WF_vars(SharedStep(t)) /\ SF_vars(NextAttempt(t))

FairSpec == Spec /\ HandlerFairness
-----------------------------------------------------------------------------
(***************************************************************************)
(* Properties.                                                             *)
(***************************************************************************)
Codes == {"none", "ok", "forbidden", "refused", "unknown", "error", "lost"}
Labels == {"idle", "replay", "precheck", "begin", "reserve", "insert", "duplicate",
           "verify", "refund", "commit", "audit", "retry", "done"}

\* Every variable stays within the values its document field or handler-local
\* variable can take.
TypeOK ==
  /\ earnings \in [Creators -> Nat]
  /\ exists \in [Creators -> BOOLEAN]
  /\ payouts \in [PayoutIds ->
       [amount : Nat, status : {"none", "pending", "approved", "rejected", "paid"}]]
  /\ pc \in [Txns -> Labels]
  /\ attempt \in [Txns -> 1..MaxRetries]
  /\ txn \in [Txns -> {"none", "open", "wrote", "committing", "applied", "aborted"}]
  /\ stale \subseteq Txns
  /\ details \in [Requests -> Destinations]
  /\ seen \in [Requests -> Nat]
  /\ op \in [AdminOps -> [action : Actions, payout : PayoutIds] \cup {NoOp}]
  /\ resp \in [Txns -> [code : Codes, payout : PayoutIds \cup {NoId}]]
  /\ audited \subseteq AdminOps
  /\ earned \in [Creators -> Nat]
  /\ paidOut \in [Creators -> Nat]
  /\ replayOf \in [Requests -> PayoutIds \cup {NoId}]

\* A creator never has two withdrawals under way.  No index enforces it: it rests
\* on the findOne of requestPayout and on the write conflict of the reservation.
AtMostOneActivePayout ==
  \A c \in Creators : \A i, j \in ActiveIds(c) : i = j

\* No coin is lost or made by a reservation, a refund or a payment: what a creator
\* ever earned is the balance, plus the reserved payout, plus what was paid.
EarningsConserved ==
  \A c \in Creators : exists[c] =>
    /\ ActiveIds(c) = {} => earned[c] = earnings[c] + paidOut[c]
    /\ \A id \in ActiveIds(c) : earned[c] = earnings[c] + payouts[id].amount + paidOut[c]

\* One idempotency key, one payout: whatever the retries inside a handler, the
\* client's replays and other creators' requests do.
OnePayoutPerKey ==
  \A i, j \in PayoutIds : Stored(i) /\ Stored(j) /\ Key[i[1]] = Key[j[1]] => i = j

\* An answer that tells the creator nothing was created is true, and stays true:
\* the request left no payout and has no commit still on its way.
NoPayoutBehindRefusal ==
  \A r \in Requests :
    resp[r].code \in {"forbidden", "refused", "error"} =>
      /\ txn[r] # "committing"
      /\ \A id \in PayoutIds : Stored(id) => id[1] # r

\* As long as the creator's account exists, a success names a payout that is in the
\* database, belongs to this creator, carries the request's key, was made for the
\* same operation and is of the amount that the request which made it reserved.
SuccessIsDurable ==
  \A r \in Requests : (resp[r].code = "ok" /\ exists[Owner[r]]) =>
    LET id == resp[r].payout IN
      /\ Stored(id) /\ CreatorOf(id) = Owner[r] /\ Key[id[1]] = Key[r] /\ SameOperation(id, r)
      /\ payouts[id].amount = seen[id[1]]

\* A replay of an operation that already succeeded is answered with that very
\* payout, never with a refusal (the reservation has emptied the balance).
ReplayAnsweredWithSamePayout ==
  \A r \in ClientKeyed :
    (pc[r] = "done" /\ replayOf[r] # NoId /\ exists[Owner[r]]) =>
      \/ resp[r] = [code |-> "ok", payout |-> replayOf[r]]
      \/ resp[r].code \in {"forbidden", "error", "lost"}

\* Where a payout stands, at least, once a staff call was applied to it; it may be
\* gone with its creator's account.
After == [approve |-> {"approved", "paid", "none"}, reject |-> {"rejected", "none"},
          mark_paid |-> {"paid", "none"}]

\* An entry of the audit log may be missing, but none is wrong: each is of a staff
\* call whose commit was applied, the payout still shows the decision, and two
\* entries about one payout are its approval and its payment, never the same
\* decision twice nor two that contradict each other.
AuditTellsTheTruth ==
  /\ \A a \in audited : txn[a] = "applied" /\ payouts[op[a].payout].status \in After[op[a].action]
  /\ \A a, b \in audited :
       a # b /\ op[a].payout = op[b].payout =>
         {op[a].action, op[b].action} = {"approve", "mark_paid"}

\* The two terminal states are terminal, a payout is paid only after an approval,
\* and its amount never changes; a payout disappears only with its creator.
PayoutLifecycle ==
  [][\A id \in PayoutIds :
       \/ payouts'[id] = payouts[id]
       \/ payouts[id] = NoPayout /\ payouts'[id].status = "pending"
       \/ /\ payouts'[id].amount = payouts[id].amount
          /\ <<payouts[id].status, payouts'[id].status>> \in
               {<<"pending", "approved">>, <<"pending", "rejected">>, <<"approved", "paid">>}
       \/ payouts'[id] = NoPayout /\ ~exists'[CreatorOf(id)]]_vars

\* Isolation: a transaction that can still commit acted on the current state.  At
\* most one holds the user document; a request that will reserve knows there is no
\* active payout and reserves exactly the balance; a staff call that will move a
\* payout holds it alone and moves it from the status it expects.
UserLockExclusive ==
  \A c \in Creators : \A s, t \in Txns : HoldsUser(s, c) /\ HoldsUser(t, c) => s = t
PayoutLockExclusive ==
  \A id \in PayoutIds : \A a, b \in AdminOps :
    HoldsPayout(a, id) /\ HoldsPayout(b, id) => a = b
RequestControl(r) ==
  /\ pc[r] = "reserve" => txn[r] = "open"
  /\ pc[r] = "insert" <=> txn[r] = "wrote"
  /\ txn[r] # "none" => pc[r] # "idle"
AdminControl(a) ==
  /\ pc[a] = "refund" <=> txn[a] = "wrote"
  /\ txn[a] # "none" => pc[a] # "idle"
  /\ pc[a] # "idle" => op[a] # NoOp
  /\ txn[a] = "wrote" => op[a].action = "reject"
RequestIsCurrent(r) ==
  /\ (pc[r] = "reserve" /\ r \notin stale) \/ txn[r] \in {"wrote", "committing"}
       => ActiveIds(Owner[r]) = {} /\ seen[r] = earnings[Owner[r]]
  /\ txn[r] \in {"wrote", "committing"} => seen[r] >= MinPayout
AdminIsCurrent(a) ==
  txn[a] \in {"wrote", "committing"} =>
    payouts[op[a].payout].status = ExpectedStatus[op[a].action]
CommitsActOnCurrentState ==
  /\ UserLockExclusive
  /\ PayoutLockExclusive
  /\ \A r \in Requests : RequestControl(r) /\ RequestIsCurrent(r)
  /\ \A a \in AdminOps : AdminControl(a) /\ AdminIsCurrent(a)

\* Every request that entered the handler is answered (or dies with the process).
EveryRequestAnswered == \A r \in Requests : pc[r] # "idle" ~> pc[r] = "done"

(***************************************************************************)
(* The abstract account that these handlers maintain.                      *)
(***************************************************************************)
HeldAmount(c) ==
  IF ActiveIds(c) = {} THEN 0 ELSE payouts[CHOOSE id \in ActiveIds(c) : TRUE].amount

Ledger == INSTANCE PayoutLedger WITH
  balance <- earnings,
  held <- [c \in Creators |-> HeldAmount(c)],
  settled <- paidOut,
  open <- exists

\* Each handler step is one step of the abstract account or none.
ImplementsLedger == Ledger!Spec
=============================================================================
