----------------------- MODULE CreatorPayoutsAnswers ------------------------
(***************************************************************************)
(* Theorems about what the handlers of CreatorPayouts tell their callers,  *)
(* about the payouts and the audit log they leave, and the refinement of   *)
(* PayoutLedger, for any number of creators, requests and staff calls.     *)
(* They rest on Isolation (CreatorPayoutsProofs) and on Records below:     *)
(* which request left which payout, and where a handler stands while its   *)
(* commit is on its way or was applied.                                    *)
(***************************************************************************)
EXTENDS CreatorPayoutsProofs

USE RequestAssumption, BoundAssumption

Failures == {"forbidden", "refused", "error"}

\* A commit that was sent, or applied, belongs to a handler that has nothing
\* left to do but to learn of it; who answered a failure has no such commit.
Flow(r) ==
  /\ txn[r] \in {"committing", "applied"} => pc[r] \in {"commit", "verify", "done"}
  /\ pc[r] # "done" => resp[r].code = "none"
  /\ resp[r].code \in Failures => txn[r] \notin {"committing", "applied"}

\* The one payout that a request may leave is its applied attempt's, of what it
\* reserved and at least the minimum; it goes only with its creator's account.
OwnPayout(r) ==
  /\ \A id \in PayoutIds : id[1] = r /\ ~Stored(id) => payouts[id] = NoPayout
  /\ \A id \in PayoutIds : id[1] = r /\ Stored(id) =>
       /\ txn[r] = "applied" /\ id = <<r, attempt[r]>>
       /\ payouts[id].amount = seen[r] /\ payouts[id].amount >= MinPayout
  /\ txn[r] = "applied" =>
       \/ Stored(<<r, attempt[r]>>)
       \/ ~exists[Owner[r]] /\ \A id \in PayoutIds : CreatorOf(id) = Owner[r] => ~Stored(id)

\* Nobody else has, or is inserting, the key of a commit under way.
KeyAlone(r) == txn[r] = "committing" => ~KeyStored(r) /\ ~KeyBeingInserted(r)

\* A success, and a replay: the payout they are about is there.
Success(r) ==
  resp[r].code = "ok" /\ exists[Owner[r]] => resp[r].payout \in Tagged(r) /\ SameOperation(resp[r].payout, r)
Repeats(r) ==
  r \in ClientKeyed /\ replayOf[r] # NoId /\ exists[Owner[r]] =>
    /\ pc[r] \in {"replay", "done"} /\ replayOf[r] \in Tagged(r) /\ SameOperation(replayOf[r], r)
    /\ pc[r] = "done" => \/ resp[r] = [code |-> "ok", payout |-> replayOf[r]]
                         \/ resp[r].code \in {"forbidden", "error", "lost"}

StaffFlow(a) ==
  /\ op[a] # NoOp => txn[op[a].payout[1]] = "applied"
  /\ txn[a] = "committing" /\ op[a].action = "reject" => exists[CreatorOf(op[a].payout)]
  /\ txn[a] \in {"committing", "applied"} => pc[a] \in {"commit", "audit", "done"}
  /\ txn[a] = "applied" => payouts[op[a].payout].status \in After[op[a].action]
  /\ pc[a] = "audit" \/ a \in audited => txn[a] = "applied"

\* Two staff calls that were applied to one payout approved it and paid it.
StaffOnce ==
  \A a, b \in AdminOps :
    txn[a] = "applied" /\ txn[b] = "applied" /\ a # b /\ op[a].payout = op[b].payout =>
      {op[a].action, op[b].action} = {"approve", "mark_paid"}

\* A deleted creator has no balance.
DeletedIsEmpty == \A c \in Creators : ~exists[c] => earnings[c] = 0

Records ==
  /\ \A r \in Requests : Flow(r) /\ OwnPayout(r) /\ KeyAlone(r) /\ Success(r) /\ Repeats(r)
  /\ \A a \in AdminOps : StaffFlow(a)
  /\ StaffOnce
  /\ DeletedIsEmpty
  /\ OnePayoutPerKey
-----------------------------------------------------------------------------
(***************************************************************************)
(* Who changes what.                                                       *)
(***************************************************************************)
\* The steps of its own handler that both kinds of calls share.
Touches(t) == SharedStep(t) \/ DbError(t) \/ Crash(t)

\* Only its own steps move a request's handler; its transaction is moved by them
\* and by the server, when it settles the commit.
LEMMA RequestElsewhere ==
  ASSUME TypeInv, [Next]_vars, NEW r \in Requests, ~RequestStep(r), ~Touches(r)
  PROVE  /\ pc'[r] = pc[r] /\ resp'[r] = resp[r] /\ attempt'[r] = attempt[r]
         /\ details'[r] = details[r] /\ replayOf'[r] = replayOf[r] /\ seen'[r] = seen[r]
         /\ txn'[r] = txn[r] \/ ApplyRequest(r) \/ AbortCommit(r)
<1> USE DEF TypeInv, TypeOK, Txns, userVars, flowVars, Answer, Goto, SetTxn
<1>1. ASSUME NEW c \in Creators, Platform(c)
      PROVE  UNCHANGED <<pc, resp, attempt, details, seen, replayOf, txn>>
  BY <1>1 DEF Platform, Credit, HardDeleteUser, DeleteUserAccount, DropUser
<1>2. ASSUME NEW s \in Requests \ {r}, RequestStep(s) \/ ApplyRequest(s)
      PROVE  /\ pc'[r] = pc[r] /\ resp'[r] = resp[r] /\ attempt'[r] = attempt[r]
             /\ details'[r] = details[r] /\ seen'[r] = seen[r]
             /\ replayOf'[r] = replayOf[r] /\ txn'[r] = txn[r]
  BY <1>2 DEF RequestStep, ApplyRequest, Start, Replay, Precheck, Begin, Reserve, Insert,
              Duplicate, Verify, RequestCommitted, RequestCommitUnknown, Resolve
<1>3. ASSUME ApplyRequest(r)
      PROVE  UNCHANGED <<pc, resp, attempt, details, seen, replayOf>>
  BY <1>3 DEF ApplyRequest
<1>4. ASSUME NEW a \in AdminOps, AdminStep(a) \/ ApplyAdmin(a)
      PROVE  /\ pc'[r] = pc[r] /\ resp'[r] = resp[r] /\ attempt'[r] = attempt[r]
             /\ details'[r] = details[r] /\ seen'[r] = seen[r]
             /\ replayOf'[r] = replayOf[r] /\ txn'[r] = txn[r]
  <2>1. a # r  OBVIOUS
  <2> QED
    BY <1>4, <2>1 DEF AdminStep, ApplyAdmin, Submit, CompareAndSwap, Refund, AdminCommitted,
                      AdminCommitUnknown, Audit
<1>5. ASSUME NEW t \in Txns \ {r}, Touches(t) \/ AbortCommit(t)
      PROVE  /\ pc'[r] = pc[r] /\ resp'[r] = resp[r] /\ attempt'[r] = attempt[r]
             /\ details'[r] = details[r] /\ seen'[r] = seen[r]
             /\ replayOf'[r] = replayOf[r] /\ txn'[r] = txn[r]
  BY <1>5 DEF Touches, SharedStep, CommitTransient, Rerun, NextAttempt, AbortCommit, DbError, Crash
<1>6. ASSUME AbortCommit(r)
      PROVE  UNCHANGED <<pc, resp, attempt, details, seen, replayOf>>
  BY <1>6 DEF AbortCommit
<1>7. CASE UNCHANGED vars  BY <1>7 DEF vars
<1>8. CASE Next
  BY <1>1, <1>2, <1>3, <1>4, <1>5, <1>6, <1>8 DEF Next, Touches
<1> QED  BY <1>7, <1>8

\* The same of a staff call.
LEMMA StaffElsewhere ==
  ASSUME TypeInv, [Next]_vars, NEW a \in AdminOps, ~AdminStep(a), ~Touches(a)
  PROVE  /\ pc'[a] = pc[a] /\ op'[a] = op[a] /\ (a \in audited' <=> a \in audited)
         /\ txn'[a] = txn[a] \/ ApplyAdmin(a) \/ AbortCommit(a)
<1> USE DEF TypeInv, TypeOK, Txns, userVars, flowVars, Answer, Goto, SetTxn
<1>1. ASSUME NEW c \in Creators, Platform(c) PROVE UNCHANGED <<pc, op, audited, txn>>
  BY <1>1 DEF Platform, Credit, HardDeleteUser, DeleteUserAccount, DropUser
<1>2. ASSUME NEW s \in Requests, RequestStep(s) \/ ApplyRequest(s)
      PROVE  /\ pc'[a] = pc[a] /\ op'[a] = op[a] /\ audited' = audited /\ txn'[a] = txn[a]
  <2>1. a # s  OBVIOUS
  <2> QED
    BY <1>2, <2>1 DEF RequestStep, ApplyRequest, Start, Replay, Precheck, Begin, Reserve, Insert,
                      Duplicate, Verify, RequestCommitted, RequestCommitUnknown, Resolve
<1>3. ASSUME NEW b \in AdminOps \ {a}, AdminStep(b) \/ ApplyAdmin(b)
      PROVE  /\ pc'[a] = pc[a] /\ op'[a] = op[a] /\ (a \in audited' <=> a \in audited)
             /\ txn'[a] = txn[a]
  BY <1>3 DEF AdminStep, ApplyAdmin, Submit, CompareAndSwap, Refund, AdminCommitted,
              AdminCommitUnknown, Audit
<1>4. ASSUME ApplyAdmin(a) PROVE UNCHANGED <<pc, op, audited>>
  BY <1>4 DEF ApplyAdmin
<1>5. ASSUME NEW t \in Txns \ {a}, Touches(t) \/ AbortCommit(t)
      PROVE  /\ pc'[a] = pc[a] /\ op'[a] = op[a] /\ audited' = audited /\ txn'[a] = txn[a]
  BY <1>5 DEF Touches, SharedStep, CommitTransient, Rerun, NextAttempt, AbortCommit, DbError, Crash
<1>6. ASSUME AbortCommit(a) PROVE UNCHANGED <<pc, op, audited>>
  BY <1>6 DEF AbortCommit
<1>7. CASE UNCHANGED vars  BY <1>7 DEF vars
<1>8. CASE Next
  BY <1>1, <1>2, <1>3, <1>4, <1>5, <1>6, <1>8 DEF Next, Touches
<1> QED  BY <1>7, <1>8

\* What the shared steps do to a handler, and to nothing else.
LEMMA TouchesFrame ==
  ASSUME TypeInv, NEW t \in Txns, Touches(t)
  PROVE  /\ UNCHANGED <<userVars, payouts, op, audited, details, seen, replayOf>>
         /\ txn'[t] \in {txn[t], "aborted"} /\ (txn[t] \in {"committing", "applied"} => txn'[t] = txn[t])
         /\ \/ /\ pc'[t] \in {"retry", "begin"} /\ resp'[t] = resp[t] /\ txn'[t] = txn[t]
               /\ pc[t] = "retry" \/ (pc[t] = "commit" /\ txn[t] = "aborted")
            \/ /\ pc'[t] = "done" /\ resp'[t].code \in {"error", "lost"}
               /\ attempt'[t] = attempt[t]
               /\ resp'[t].code = "error" =>
                    pc[t] \in {"retry", "replay", "precheck", "begin", "reserve", "insert", "refund"}
         /\ attempt'[t] = attempt[t] \/ pc[t] = "retry"
<1> USE DEF TypeInv, TypeOK, userVars, flowVars, Answer, Goto, SetTxn
<1>1. CASE CommitTransient(t)  BY <1>1 DEF CommitTransient
<1>2. CASE Rerun(t)
  <2>1. /\ pc[t] = "retry" /\ pc'[t] = "begin" /\ resp' = resp /\ txn' = txn /\ attempt' = attempt
        /\ UNCHANGED <<userVars, payouts, op, audited, details, seen, replayOf>>
    BY <1>2 DEF Rerun
  <2> QED  BY <2>1
<1>3. CASE NextAttempt(t)
  <2>0. /\ pc[t] = "retry" /\ txn' = txn
        /\ UNCHANGED <<userVars, payouts, op, audited, details, seen, replayOf>>
    BY <1>3 DEF NextAttempt
  <2>1. CASE attempt[t] < MaxRetries
    <3>1. pc'[t] = "begin" /\ resp' = resp  BY <1>3, <2>1 DEF NextAttempt
    <3> QED  BY <2>0, <3>1
  <2>2. CASE attempt[t] = MaxRetries
    <3>1. pc'[t] = "done" /\ resp'[t].code = "error" /\ attempt' = attempt
      BY <1>3, <2>2 DEF NextAttempt
    <3> QED  BY <2>0, <3>1
  <2> QED  BY <1>3, <2>1, <2>2 DEF NextAttempt
<1>4. CASE DbError(t) \/ Crash(t)
  <2>1. txn'[t] = IF txn[t] \in {"open", "wrote"} THEN "aborted" ELSE txn[t]
    BY <1>4 DEF DbError, Crash
  <2>2. /\ pc'[t] = "done" /\ attempt' = attempt
        /\ UNCHANGED <<userVars, payouts, op, audited, details, seen, replayOf>>
    BY <1>4 DEF DbError, Crash
  <2>3. /\ resp'[t].code \in {"error", "lost"}
        /\ resp'[t].code = "error" =>
             pc[t] \in {"retry", "replay", "precheck", "begin", "reserve", "insert", "refund"}
    BY <1>4 DEF DbError, Crash
  <2> QED  BY <2>1, <2>2, <2>3
<1> QED  BY <1>1, <1>2, <1>3, <1>4 DEF Touches, SharedStep

\* What was applied stays applied, in the attempt that it was.
LEMMA AppliedStays ==
  ASSUME Isolation, Records, [Next]_vars
  PROVE  /\ \A t \in Txns : txn[t] = "applied" => txn'[t] = "applied"
         /\ \A r \in Requests : txn[r] = "applied" =>
              attempt'[r] = attempt[r] /\ details'[r] = details[r] /\ seen'[r] = seen[r]
<1> USE DEF Isolation
<1>1. ASSUME NEW r \in Requests, txn[r] = "applied"
      PROVE  txn'[r] = "applied" /\ attempt'[r] = attempt[r] /\ details'[r] = details[r] /\ seen'[r] = seen[r]
  <2>0. pc[r] \in {"commit", "verify", "done"}  BY <1>1 DEF Records, Flow
  <2>1. CASE RequestStep(r)
    BY <1>1, <2>0, <2>1 DEF RequestStep, Start, Replay, Precheck, Begin, Reserve, Insert,
                            Duplicate, Verify, RequestCommitted, RequestCommitUnknown, flowVars
  <2>2. CASE Touches(r)
    BY <1>1, <2>0, <2>2, TouchesFrame DEF Txns
  <2>3. CASE ~RequestStep(r) /\ ~Touches(r)
    BY <1>1, <2>3, RequestElsewhere DEF ApplyRequest, AbortCommit
  <2> QED  BY <2>1, <2>2, <2>3
<1>2. ASSUME NEW a \in AdminOps, txn[a] = "applied" PROVE txn'[a] = "applied"
  <2>0. pc[a] \in {"commit", "audit", "done"}  BY <1>2 DEF Records, StaffFlow
  <2>1. CASE AdminStep(a)
    BY <1>2, <2>0, <2>1 DEF AdminStep, Submit, CompareAndSwap, Refund, AdminCommitted,
                            AdminCommitUnknown, Audit
  <2>2. CASE Touches(a)  BY <1>2, <2>2, TouchesFrame DEF Txns
  <2>3. CASE ~AdminStep(a) /\ ~Touches(a)
    BY <1>2, <2>3, StaffElsewhere DEF ApplyAdmin, AbortCommit
  <2> QED  BY <2>1, <2>2, <2>3
<1> QED  BY <1>1, <1>2 DEF Txns
(***************************************************************************)
(* What happens to a payout document.                                      *)
(***************************************************************************)
\* What a request's commit writes: a payout that was not there.
LEMMA ApplyRequestEffect ==
  ASSUME Isolation, Records, NEW r \in Requests, ApplyRequest(r)
  PROVE  /\ <<r, attempt[r]>> \in PayoutIds /\ ~Stored(<<r, attempt[r]>>)
         /\ payouts[<<r, attempt[r]>>] = NoPayout
         /\ payouts'[<<r, attempt[r]>>] = [amount |-> seen[r], status |-> "pending"]
         /\ \A id \in PayoutIds : id # <<r, attempt[r]>> => payouts'[id] = payouts[id]
         /\ seen[r] \in Nat /\ seen[r] >= MinPayout /\ seen[r] = earnings[Owner[r]]
         /\ ActiveIds(Owner[r]) = {}
<1> USE DEF Isolation, TypeInv, TypeOK
<1>1. r \in Txns /\ attempt[r] \in 1..MaxRetries  BY DEF Txns
<1>a. PICK new \in PayoutIds : new = <<r, attempt[r]>>  BY <1>1 DEF PayoutIds
<1>2. /\ payouts'[new] = [amount |-> seen[r], status |-> "pending"]
      /\ \A id \in PayoutIds : id # new => payouts'[id] = payouts[id]
  BY <1>a DEF ApplyRequest
<1>3. ~Stored(new) /\ payouts[new] = NoPayout
  <2>1. new[1] = r  BY <1>a
  <2>2. txn[r] = "committing"  BY DEF ApplyRequest
  <2>3. ~Stored(new)  BY <2>1, <2>2 DEF Records, OwnPayout
  <2> QED  BY <2>1, <2>3 DEF Records, OwnPayout
<1>4. seen[r] >= MinPayout /\ seen[r] = earnings[Owner[r]] /\ ActiveIds(Owner[r]) = {}
  BY DEF ApplyRequest, CommitsActOnCurrentState, RequestIsCurrent
<1> QED  BY <1>a, <1>2, <1>3, <1>4

\* What a staff call's commit writes: the next status of the payout it names.
LEMMA ApplyAdminEffect ==
  ASSUME Isolation, Records, NEW a \in AdminOps, ApplyAdmin(a)
  PROVE  /\ op[a] \in [action : Actions, payout : PayoutIds]
         /\ payouts[op[a].payout].status = ExpectedStatus[op[a].action]
         /\ payouts'[op[a].payout].status = NextStatus[op[a].action]
         /\ payouts'[op[a].payout].amount = payouts[op[a].payout].amount
         /\ \A id \in PayoutIds : id # op[a].payout => payouts'[id] = payouts[id]
<1> USE DEF Isolation, TypeInv, TypeOK
<1>1. op[a] \in [action : Actions, payout : PayoutIds]
  BY RequestAssumption DEF ApplyAdmin, AdminControl, Txns
<1>2. payouts[op[a].payout].status = ExpectedStatus[op[a].action]
  BY DEF ApplyAdmin, CommitsActOnCurrentState, AdminIsCurrent
<1> QED  BY <1>1, <1>2 DEF ApplyAdmin

\* The one step that removes payouts removes all of a creator and the account.
LEMMA PlatformEffect ==
  ASSUME TypeInv, NEW c \in Creators, Platform(c)
  PROVE  /\ \A d \in Creators : exists'[d] => exists[d]
         /\ \A d \in Creators \ {c} : exists'[d] = exists[d] /\ earnings'[d] = earnings[d]
         /\ exists[c]
         /\ \/ payouts' = payouts /\ exists' = exists
            \/ payouts' = payouts /\ ~exists'[c] /\ earnings'[c] = 0 /\ UserFree(c)
            \/ /\ ~exists'[c] /\ earnings'[c] = 0 /\ UserFree(c)
               /\ \A id \in PayoutIds :
                    payouts'[id] = IF CreatorOf(id) = c THEN NoPayout ELSE payouts[id]
<1> USE DEF TypeInv, TypeOK
<1>1. ASSUME NEW n \in Credits, Credit(c, n)
      PROVE  /\ exists[c] /\ exists' = exists /\ payouts' = payouts
             /\ \A d \in Creators \ {c} : earnings'[d] = earnings[d]
  BY <1>1 DEF Credit
<1>2. ASSUME DropUser(c)
      PROVE  /\ exists[c] /\ ~exists'[c] /\ earnings'[c] = 0 /\ UserFree(c)
             /\ \A d \in Creators \ {c} : exists'[d] = exists[d] /\ earnings'[d] = earnings[d]
  BY <1>2 DEF DropUser
<1>3. ASSUME DeleteUserAccount(c)
      PROVE  \A id \in PayoutIds :
               payouts'[id] = IF CreatorOf(id) = c THEN NoPayout ELSE payouts[id]
  BY <1>3 DEF DeleteUserAccount
<1> QED  BY <1>1, <1>2, <1>3 DEF Platform, HardDeleteUser, DeleteUserAccount

\* A stored payout stays with its amount, or goes with the account of its creator.
LEMMA StoredStays ==
  ASSUME Isolation, Records, [Next]_vars
  PROVE  /\ \A id \in PayoutIds : Stored(id) =>
              \/ Stored(id)' /\ payouts'[id].amount = payouts[id].amount
              \/ /\ payouts'[id] = NoPayout /\ ~exists'[CreatorOf(id)]
                 /\ \A j \in PayoutIds : CreatorOf(j) = CreatorOf(id) => ~Stored(j)'
         /\ \A c \in Creators : exists'[c] => exists[c]
<1> USE DEF Isolation
<1>1. ASSUME NEW c \in Creators, Platform(c)
      PROVE  /\ \A id \in PayoutIds : Stored(id) =>
                  \/ Stored(id)' /\ payouts'[id].amount = payouts[id].amount
                  \/ /\ payouts'[id] = NoPayout /\ ~exists'[CreatorOf(id)]
                     /\ \A j \in PayoutIds : CreatorOf(j) = CreatorOf(id) => ~Stored(j)'
             /\ \A d \in Creators : exists'[d] => exists[d]
  BY <1>1, PlatformEffect DEF Stored, NoPayout
<1>2. ASSUME NEW r \in Requests, ApplyRequest(r)
      PROVE  /\ \A id \in PayoutIds : Stored(id) =>
                  Stored(id)' /\ payouts'[id].amount = payouts[id].amount
             /\ exists' = exists
  <2>1. exists' = exists  BY <1>2 DEF ApplyRequest
  <2> QED  BY <1>2, <2>1, ApplyRequestEffect DEF Stored
<1>3. ASSUME NEW a \in AdminOps, ApplyAdmin(a)
      PROVE  /\ \A id \in PayoutIds : Stored(id) =>
                  Stored(id)' /\ payouts'[id].amount = payouts[id].amount
             /\ exists' = exists
  <2>1. exists' = exists  BY <1>3 DEF ApplyAdmin
  <2>2. NextStatus[op[a].action] # "none"
    BY <1>3, ApplyAdminEffect DEF NextStatus, Actions
  <2> QED  BY <1>3, <2>1, <2>2, ApplyAdminEffect DEF Stored
<1>4. CASE UNCHANGED <<userVars, payouts, paidOut>>
  BY <1>4 DEF Stored, userVars
<1> QED  BY <1>1, <1>2, <1>3, <1>4, PayoutFrame

\* A payout appears only by the commit of a request.
LEMMA StoredIsNew ==
  ASSUME Isolation, Records, [Next]_vars, NEW id \in PayoutIds, Stored(id)', ~Stored(id)
  PROVE  \E r \in Requests : /\ ApplyRequest(r) /\ id = <<r, attempt[r]>> /\ id[1] = r
                            /\ payouts'[id].amount = seen[r] /\ payouts'[id].amount >= MinPayout
<1> USE DEF Isolation
<1>1. ASSUME NEW c \in Creators, Platform(c) PROVE FALSE
  BY <1>1, PlatformEffect DEF Stored, NoPayout
<1>2. ASSUME NEW a \in AdminOps, ApplyAdmin(a) PROVE FALSE
  <2>1. ExpectedStatus[op[a].action] # "none"
    BY <1>2, ApplyAdminEffect DEF ExpectedStatus, Actions
  <2> QED  BY <1>2, <2>1, ApplyAdminEffect DEF Stored
<1>3. ASSUME NEW r \in Requests, ApplyRequest(r)
      PROVE  /\ id = <<r, attempt[r]>> /\ id[1] = r
             /\ payouts'[id].amount = seen[r] /\ payouts'[id].amount >= MinPayout
  <2>1. id = <<r, attempt[r]>>  BY <1>3, ApplyRequestEffect DEF Stored
  <2>2. id[1] = r  BY <2>1
  <2>3. /\ payouts'[<<r, attempt[r]>>] = [amount |-> seen[r], status |-> "pending"]
        /\ seen[r] >= MinPayout
    BY <1>3, ApplyRequestEffect
  <2>4. payouts'[<<r, attempt[r]>>].amount = seen[r]  BY <2>3
  <2> QED  BY <2>1, <2>2, <2>3, <2>4
<1>4. CASE UNCHANGED <<userVars, payouts, paidOut>>
  BY <1>4 DEF Stored
<1> QED  BY <1>1, <1>2, <1>3, <1>4, PayoutFrame
(***************************************************************************)
(* Records holds initially, and every step keeps each part of it.          *)
(***************************************************************************)
\* Initially nobody asked for anything.
LEMMA RecordsInit == Init => Records
<1> SUFFICES ASSUME Init PROVE Records  OBVIOUS
<1>1. /\ \A t \in Txns : txn[t] = "none" /\ pc[t] = "idle" /\ resp[t] = NoAnswer
      /\ \A id \in PayoutIds : payouts[id] = NoPayout
      /\ \A c \in Creators : exists[c] /\ earnings[c] = 0
      /\ \A r \in Requests : replayOf[r] = NoId
      /\ \A a \in AdminOps : op[a] = NoOp
      /\ audited = {}
  BY DEF Init
<1>2. ASSUME NEW r \in Requests
      PROVE  Flow(r) /\ OwnPayout(r) /\ KeyAlone(r) /\ Success(r) /\ Repeats(r)
  BY <1>1 DEF Flow, OwnPayout, KeyAlone, Success, Repeats, Txns, NoAnswer, NoPayout, Stored,
              Failures
<1>3. ASSUME NEW a \in AdminOps PROVE StaffFlow(a)
  BY <1>1 DEF StaffFlow, Txns, NoOp
<1>4. StaffOnce /\ DeletedIsEmpty /\ OnePayoutPerKey
  BY <1>1 DEF StaffOnce, DeletedIsEmpty, OnePayoutPerKey, Txns, NoPayout, Stored
<1> QED  BY <1>2, <1>3, <1>4 DEF Records

\* Who finds a payout under the key of a request that was applied finds its own;
\* while the commit is under way there is none.
LEMMA OwnKey ==
  ASSUME Isolation, Records, NEW r \in Requests, txn[r] \in {"committing", "applied"},
         NEW id \in Tagged(r)
  PROVE  txn[r] = "applied" /\ id = <<r, attempt[r]>> /\ SameOperation(id, r)
<1> USE DEF Isolation, TypeInv, TypeOK
<1>1. id \in PayoutIds /\ Stored(id) /\ CreatorOf(id) = Owner[r] /\ Key[id[1]] = Key[r]
  BY DEF Tagged
<1>2. txn[r] # "committing"
  BY <1>1 DEF Records, KeyAlone, KeyStored
<1>a. attempt[r] \in 1..MaxRetries  BY DEF Txns
<1>b. PICK own \in PayoutIds : own = <<r, attempt[r]>>  BY <1>a DEF PayoutIds
<1>3. Stored(own)
  BY <1>1, <1>2, <1>b DEF Records, OwnPayout
<1>4. id = own
  <2>1. Key[own[1]] = Key[id[1]]  BY <1>1, <1>b
  <2> QED  BY <1>1, <1>3, <2>1 DEF Records, OnePayoutPerKey
<1>5. SameOperation(own, r)  BY <1>b DEF SameOperation
<1> QED  BY <1>2, <1>4, <1>5, <1>b

\* A handler's own step keeps its commit and its answer apart.
LEMMA FlowRequest ==
  ASSUME Isolation, Records, NEW r \in Requests, RequestStep(r)
  PROVE  Flow(r)'
<1> USE DEF Isolation, TypeInv, TypeOK, userVars, flowVars, Answer, Goto, SetTxn
<1>0. /\ Flow(r) /\ r \in Txns /\ RequestControl(r)
      /\ txn[r] \in {"none", "open", "wrote", "committing", "applied", "aborted"}
  BY DEF Records, Txns, CommitsActOnCurrentState
<1>1. CASE Start(r)
  BY <1>0, <1>1 DEF Start, Flow, Failures, RequestControl
<1>2. CASE Replay(r) \/ Duplicate(r)
  BY <1>0, <1>2 DEF Replay, Duplicate, Resolve, Flow, Failures
<1>3. CASE Precheck(r) \/ Begin(r)
  BY <1>0, <1>3 DEF Precheck, Begin, Flow, Failures
<1>4. CASE Reserve(r)
  BY <1>0, <1>4 DEF Reserve, Flow, Failures
<1>5. CASE Insert(r)
  BY <1>0, <1>5 DEF Insert, Flow, Failures
<1>6. CASE Verify(r)
  <2>1. txn' = txn /\ pc[r] = "verify"  BY <1>6 DEF Verify
  <2>2. pc'[r] = "done" /\ (resp'[r].code = "refused" =>
                              \E id \in Tagged(r) : ~SameOperation(id, r))
    BY <1>0, <1>6 DEF Verify, Resolve
  <2>3. resp'[r].code \in {"ok", "refused", "unknown"}
    BY <1>0, <1>6 DEF Verify, Resolve
  <2>4. resp'[r].code = "refused" => txn[r] \notin {"committing", "applied"}
    BY <2>2, OwnKey
  <2> QED  BY <2>1, <2>2, <2>3, <2>4 DEF Flow, Failures
<1>7. CASE RequestCommitted(r) \/ RequestCommitUnknown(r)
  BY <1>0, <1>7 DEF RequestCommitted, RequestCommitUnknown, Flow, Failures
<1> QED  BY <1>1, <1>2, <1>3, <1>4, <1>5, <1>6, <1>7 DEF RequestStep

\* Part (A): a commit and a failure are never the same request's.
LEMMA FlowNext ==
  ASSUME Isolation, Records, [Next]_vars, NEW r \in Requests
  PROVE  Flow(r)'
<1>0. Flow(r) /\ r \in Txns  BY DEF Records, Txns
<1>1. CASE Touches(r)
  <2>1. /\ txn'[r] \in {txn[r], "aborted"}
        /\ txn[r] \in {"committing", "applied"} => txn'[r] = txn[r]
        /\ \/ pc'[r] \in {"retry", "begin"} /\ resp'[r] = resp[r] /\ txn'[r] = txn[r]
              /\ (pc[r] = "retry" \/ (pc[r] = "commit" /\ txn[r] = "aborted"))
           \/ /\ pc'[r] = "done" /\ resp'[r].code \in {"error", "lost"}
              /\ resp'[r].code = "error" =>
                    pc[r] \in {"retry", "replay", "precheck", "begin", "reserve", "insert", "refund"}
    BY <1>0, <1>1, TouchesFrame DEF Isolation
  <2> QED  BY <1>0, <2>1 DEF Flow, Failures
<1>2. CASE ~RequestStep(r) /\ ~Touches(r)
  <2>1. /\ pc'[r] = pc[r] /\ resp'[r] = resp[r]
        /\ txn'[r] = txn[r] \/ ApplyRequest(r) \/ AbortCommit(r)
    BY <1>2, RequestElsewhere DEF Isolation
  <2>2. ApplyRequest(r) \/ AbortCommit(r) =>
          txn[r] = "committing" /\ txn'[r] \in {"applied", "aborted"}
    BY <1>0 DEF ApplyRequest, AbortCommit, SetTxn, Isolation, TypeInv, TypeOK
  <2> QED  BY <1>0, <2>1, <2>2 DEF Flow
<1> QED  BY <1>1, <1>2, FlowRequest
\* A payout that is not there is blank, unless a request's commit writes it.
LEMMA BlankStays ==
  ASSUME Isolation, Records, [Next]_vars, NEW id \in PayoutIds, ~Stored(id), ~Stored(id)'
  PROVE  payouts'[id] = payouts[id]
<1> USE DEF Isolation
<1>0. id[1] \in Requests /\ payouts[id] = NoPayout
  BY PayoutIdsShape DEF Records, OwnPayout
<1>1. ASSUME NEW c \in Creators, Platform(c) PROVE payouts'[id] = payouts[id]
  BY <1>0, <1>1, PlatformEffect
<1>2. ASSUME NEW a \in AdminOps, ApplyAdmin(a) PROVE payouts'[id] = payouts[id]
  <2>1. NextStatus[op[a].action] # "none"
    BY <1>2, ApplyAdminEffect DEF NextStatus, Actions
  <2> QED  BY <1>2, <2>1, ApplyAdminEffect DEF Stored
<1>3. ASSUME NEW r \in Requests, ApplyRequest(r) PROVE payouts'[id] = payouts[id]
  <2>1. /\ payouts'[<<r, attempt[r]>>] = [amount |-> seen[r], status |-> "pending"]
        /\ id # <<r, attempt[r]>> => payouts'[id] = payouts[id]
    BY <1>3, ApplyRequestEffect
  <2>2. payouts'[<<r, attempt[r]>>].status = "pending"  BY <2>1
  <2> QED  BY <2>1, <2>2 DEF Stored
<1>4. CASE UNCHANGED <<userVars, payouts, paidOut>>
  BY <1>4
<1> QED  BY <1>1, <1>2, <1>3, <1>4, PayoutFrame

\* A request is applied by the server, and only then.
LEMMA AppliedStarts ==
  ASSUME Isolation, Records, [Next]_vars, NEW r \in Requests, txn'[r] = "applied", txn[r] # "applied"
  PROVE  ApplyRequest(r)
<1> USE DEF Isolation, TypeInv, TypeOK
<1>1. ~RequestStep(r)
  BY DEF RequestStep, Start, Replay, Precheck, Begin, Reserve, Insert, Duplicate, Verify,
         RequestCommitted, RequestCommitUnknown, SetTxn, Txns
<1>2. ~Touches(r)  BY TouchesFrame DEF Txns
<1>3. ~AbortCommit(r)  BY DEF AbortCommit, SetTxn, Txns
<1> QED  BY <1>1, <1>2, <1>3, RequestElsewhere

\* A commit is sent by the insert that found the key free.
LEMMA CommitStarts ==
  ASSUME Isolation, Records, [Next]_vars, NEW r \in Requests,
         txn'[r] = "committing", txn[r] # "committing"
  PROVE  /\ ~KeyStored(r) /\ ~KeyBeingInserted(r) /\ payouts' = payouts
         /\ \A s \in Requests \ {r} : txn'[s] = txn[s]
<1> USE DEF Isolation, TypeInv, TypeOK
<1>1. ~ApplyRequest(r) /\ ~AbortCommit(r)  BY DEF ApplyRequest, AbortCommit
<1>2. ~Touches(r)  BY TouchesFrame DEF Txns
<1>3. RequestStep(r)  BY <1>1, <1>2, RequestElsewhere
<1>4. ~Start(r) /\ ~Replay(r) /\ ~Precheck(r) /\ ~Begin(r) /\ ~Reserve(r)
  BY DEF Start, Replay, Precheck, Begin, Reserve, SetTxn, Txns
<1>5. ~Duplicate(r) /\ ~Verify(r) /\ ~RequestCommitted(r) /\ ~RequestCommitUnknown(r)
  BY DEF Duplicate, Verify, RequestCommitted, RequestCommitUnknown
<1>6. Insert(r)  BY <1>3, <1>4, <1>5 DEF RequestStep
<1> QED  BY <1>6 DEF Insert, SetTxn, Txns

\* Part (B): a request leaves the one payout that its applied attempt inserted.
LEMMA OwnPayoutNext ==
  ASSUME Isolation, Records, [Next]_vars, NEW r \in Requests
  PROVE  OwnPayout(r)'
<1> USE DEF Isolation
<1>0. OwnPayout(r) /\ r \in Txns /\ DeletedIsEmpty /\ Owner[r] \in Creators
  BY DEF Records, Txns
<1>1. ASSUME NEW id \in PayoutIds, id[1] = r, ~Stored(id)' PROVE payouts'[id] = NoPayout
  BY <1>0, <1>1, StoredStays, BlankStays DEF OwnPayout
<1>2. ASSUME NEW id \in PayoutIds, id[1] = r, Stored(id)'
      PROVE  /\ txn'[r] = "applied" /\ id = <<r, attempt'[r]>>
             /\ payouts'[id].amount = seen'[r] /\ payouts'[id].amount >= MinPayout
  <2>1. CASE Stored(id)
    <3>1. /\ txn[r] = "applied" /\ id = <<r, attempt[r]>>
          /\ payouts[id].amount = seen[r] /\ payouts[id].amount >= MinPayout
      BY <1>0, <1>2, <2>1 DEF OwnPayout
    <3>2. payouts'[id].amount = payouts[id].amount
      BY <1>2, <2>1, StoredStays DEF Stored, NoPayout
    <3> QED  BY <1>0, <3>1, <3>2, AppliedStays
  <2>2. CASE ~Stored(id)
    <3>1. PICK s \in Requests : /\ ApplyRequest(s) /\ id = <<s, attempt[s]>> /\ id[1] = s
                                /\ payouts'[id].amount = seen[s]
                                /\ payouts'[id].amount >= MinPayout
      BY <1>2, <2>2, StoredIsNew
    <3>2. txn'[s] = "applied" /\ attempt' = attempt /\ seen' = seen
      BY <3>1 DEF ApplyRequest, SetTxn, TypeInv, TypeOK, Txns
    <3> QED  BY <1>2, <3>1, <3>2
  <2> QED  BY <2>1, <2>2
<1>3. ASSUME NEW id \in PayoutIds, CreatorOf(id) = Owner[r], ~exists[Owner[r]], ~Stored(id)
      PROVE  ~Stored(id)'
  <2>1. SUFFICES ASSUME Stored(id)' PROVE FALSE  OBVIOUS
  <2>2. PICK s \in Requests : ApplyRequest(s) /\ id[1] = s
    BY <1>3, <2>1, StoredIsNew
  <2>3. Owner[s] = Owner[r]  BY <1>3, <2>2 DEF CreatorOf
  <2>4. seen[s] >= MinPayout /\ seen[s] = earnings[Owner[s]]
    BY <2>2, ApplyRequestEffect
  <2> QED  BY <1>0, <1>3, <2>3, <2>4 DEF DeletedIsEmpty
<1>4. ASSUME txn'[r] = "applied"
      PROVE  \/ Stored(<<r, attempt[r]>>)'
             \/ ~exists'[Owner[r]] /\ \A id \in PayoutIds : CreatorOf(id) = Owner[r] => ~Stored(id)'
  <2>a. attempt[r] \in 1..MaxRetries  BY <1>0 DEF TypeInv, TypeOK
  <2>b. PICK own \in PayoutIds : own = <<r, attempt[r]>>  BY <2>a DEF PayoutIds
  <2>c. CreatorOf(own) = Owner[r]  BY <2>b DEF CreatorOf
  <2>1. CASE txn[r] = "applied"
    <3>1. attempt'[r] = attempt[r]  BY <2>1, AppliedStays
    <3>2. CASE Stored(own)
      <4>1. Stored(own)' \/ (~exists'[Owner[r]] /\ \A j \in PayoutIds : CreatorOf(j) = Owner[r] => ~Stored(j)')
        BY <2>c, <3>2, StoredStays
      <4> QED  BY <2>b, <3>1, <4>1 DEF Stored
    <3>3. CASE ~Stored(own)
      <4>1. ~exists[Owner[r]] /\ \A id \in PayoutIds : CreatorOf(id) = Owner[r] => ~Stored(id)
        BY <1>0, <2>1, <2>b, <3>3 DEF OwnPayout
      <4>2. ~exists'[Owner[r]]  BY <1>0, <4>1, StoredStays
      <4> QED  BY <1>3, <4>1, <4>2
    <3> QED  BY <3>2, <3>3
  <2>2. CASE txn[r] # "applied"
    <3>1. ApplyRequest(r)  BY <1>4, <2>2, AppliedStarts
    <3>2. payouts'[own] = [amount |-> seen[r], status |-> "pending"]
      BY <2>b, <3>1, ApplyRequestEffect
    <3>3. attempt' = attempt  BY <3>1 DEF ApplyRequest
    <3>4. payouts'[own].status = "pending"  BY <3>2
    <3> QED  BY <2>b, <3>3, <3>4 DEF Stored
  <2> QED  BY <2>1, <2>2
<1> QED  BY <1>1, <1>2, <1>4 DEF OwnPayout
\* Part (C): a commit under way keeps its key to itself.
LEMMA KeyAloneNext ==
  ASSUME Isolation, Records, [Next]_vars, NEW r \in Requests
  PROVE  KeyAlone(r)'
<1>0. SUFFICES ASSUME txn'[r] = "committing" PROVE ~KeyStored(r)' /\ ~KeyBeingInserted(r)'
  BY DEF KeyAlone
<1>1. CASE txn[r] # "committing"
  <2>1. /\ ~KeyStored(r) /\ ~KeyBeingInserted(r) /\ payouts' = payouts
        /\ \A s \in Requests \ {r} : txn'[s] = txn[s]
    BY <1>0, <1>1, CommitStarts
  <2>2. ~KeyStored(r)'  BY <2>1 DEF KeyStored, Stored
  <2>3. ~KeyBeingInserted(r)'  BY <2>1 DEF KeyBeingInserted
  <2> QED  BY <2>2, <2>3
<1>2. CASE txn[r] = "committing"
  <2>1. ~KeyStored(r) /\ ~KeyBeingInserted(r)  BY <1>2 DEF Records, KeyAlone
  <2>2. ASSUME NEW id \in PayoutIds, Stored(id)', Key[id[1]] = Key[r] PROVE FALSE
    <3>1. ~Stored(id)  BY <2>1, <2>2 DEF KeyStored
    <3>2. PICK s \in Requests : ApplyRequest(s) /\ id[1] = s
      BY <2>2, <3>1, StoredIsNew
    <3>3. txn[s] = "committing" /\ txn'[s] = "applied"
      BY <3>2 DEF ApplyRequest, SetTxn, Isolation, TypeInv, TypeOK, Txns
    <3> QED  BY <1>0, <2>1, <2>2, <3>2, <3>3 DEF KeyBeingInserted
  <2>3. ASSUME NEW s \in Requests \ {r}, txn'[s] = "committing", Key[s] = Key[r] PROVE FALSE
    <3>1. txn[s] # "committing"  BY <2>1, <2>3 DEF KeyBeingInserted
    <3>2. ~KeyBeingInserted(s)  BY <2>3, <3>1, CommitStarts
    <3> QED  BY <1>2, <2>3, <3>2 DEF KeyBeingInserted
  <2>4. ~KeyStored(r)'  BY <2>2 DEF KeyStored
  <2>5. ~KeyBeingInserted(r)'  BY <2>3 DEF KeyBeingInserted
  <2> QED  BY <2>4, <2>5
<1> QED  BY <1>1, <1>2

\* Part (D): two payouts never carry the same key.
LEMMA OnePayoutPerKeyNext ==
  ASSUME Isolation, Records, [Next]_vars
  PROVE  OnePayoutPerKey'
<1>1. ASSUME NEW i \in PayoutIds, NEW j \in PayoutIds, Stored(i)', Stored(j)',
             Key[i[1]] = Key[j[1]], ~Stored(i)
      PROVE  i = j
  <2>1. PICK r \in Requests : ApplyRequest(r) /\ i = <<r, attempt[r]>> /\ i[1] = r
    BY <1>1, StoredIsNew
  <2>2. ~KeyStored(r)  BY <2>1 DEF ApplyRequest, Records, KeyAlone
  <2>3. ~Stored(j)  BY <1>1, <2>1, <2>2 DEF KeyStored
  <2>4. j # <<r, attempt[r]>> => payouts'[j] = payouts[j]  BY <2>1, ApplyRequestEffect
  <2> QED  BY <1>1, <2>1, <2>3, <2>4 DEF Stored
<1>2. ASSUME NEW i \in PayoutIds, NEW j \in PayoutIds, Stored(i)', Stored(j)',
             Key[i[1]] = Key[j[1]]
      PROVE  i = j
  <2>1. CASE ~Stored(i)  BY <1>1, <1>2, <2>1
  <2>2. CASE ~Stored(j)  BY <1>1, <1>2, <2>2
  <2>3. CASE Stored(i) /\ Stored(j)  BY <1>2, <2>3 DEF Records, OnePayoutPerKey
  <2> QED  BY <2>1, <2>2, <2>3
<1> QED  BY <1>2 DEF OnePayoutPerKey

\* A payout found under a request's key stays there while its creator does.
LEMMA TaggedStays ==
  ASSUME Isolation, Records, [Next]_vars, NEW r \in Requests, exists'[Owner[r]],
         NEW id \in Tagged(r)
  PROVE  id \in Tagged(r)' /\ details'[id[1]] = details[id[1]] /\ id[1] \in Requests
<1>1. id \in PayoutIds /\ Stored(id) /\ CreatorOf(id) = Owner[r] /\ Key[id[1]] = Key[r]
  BY DEF Tagged
<1>2. Stored(id)'  BY <1>1, StoredStays
<1>3. id[1] \in Requests  BY <1>1, PayoutIdsShape
<1>4. txn[id[1]] = "applied"  BY <1>1, <1>3 DEF Records, OwnPayout
<1>5. details'[id[1]] = details[id[1]]  BY <1>3, <1>4, AppliedStays
<1> QED  BY <1>1, <1>2, <1>3, <1>5 DEF Tagged

\* Part (E): a success is about a payout that is there, and was made for it.
LEMMA SuccessNext ==
  ASSUME Isolation, Records, [Next]_vars, NEW r \in Requests
  PROVE  Success(r)'
<1> USE DEF Isolation, TypeInv, TypeOK
<1>0. r \in Txns /\ Owner[r] \in Creators  BY DEF Txns
<1>1. SUFFICES ASSUME resp'[r].code = "ok", exists'[Owner[r]]
               PROVE  resp'[r].payout \in Tagged(r)' /\ details'[resp'[r].payout[1]] = details'[r]
  BY DEF Success, SameOperation
<1>2. exists[Owner[r]]  BY <1>0, <1>1, StoredStays
<1>3. ASSUME NEW id \in Tagged(r), SameOperation(id, r), resp'[r].payout = id,
             details'[r] = details[r]
      PROVE  resp'[r].payout \in Tagged(r)' /\ details'[resp'[r].payout[1]] = details'[r]
  BY <1>1, <1>3, TaggedStays DEF SameOperation
<1>4. CASE resp'[r] = resp[r]
  <2>1. resp[r].code = "ok"  BY <1>1, <1>4
  <2>2. pc[r] = "done"  BY <2>1 DEF Records, Flow
  <2>3. ~RequestStep(r)
    BY <2>2 DEF RequestStep, Start, Replay, Precheck, Begin, Reserve, Insert, Duplicate, Verify,
                RequestCommitted, RequestCommitUnknown
  <2>4. ~Touches(r)
    BY <2>2 DEF Touches, SharedStep, CommitTransient, Rerun, NextAttempt, DbError, Crash
  <2>5. details'[r] = details[r]  BY <2>3, <2>4, RequestElsewhere
  <2>6. resp[r].payout \in Tagged(r) /\ SameOperation(resp[r].payout, r)
    BY <1>2, <2>1 DEF Records, Success
  <2> QED  BY <1>3, <1>4, <2>5, <2>6
<1>5. CASE resp'[r] # resp[r]
  <2>1. ~Touches(r)
    <3>1. SUFFICES ASSUME Touches(r) PROVE FALSE  OBVIOUS
    <3>2. resp'[r] = resp[r] \/ resp'[r].code \in {"error", "lost"}
      BY <1>0, <3>1, TouchesFrame
    <3> QED  BY <1>1, <1>5, <3>2
  <2>2. RequestStep(r)  BY <1>5, <2>1, RequestElsewhere
  <2> USE DEF Answer, Goto, SetTxn
  <2>3. ~Start(r) /\ ~Precheck(r) /\ ~Begin(r) /\ ~Reserve(r) /\ ~Insert(r)
    BY <1>0, <1>1, <1>5 DEF Start, Precheck, Begin, Reserve, Insert
  <2>4. CASE Replay(r) \/ Duplicate(r) \/ Verify(r)
    <3>1. details' = details  BY <2>4 DEF Replay, Duplicate, Verify, flowVars
    <3>2. \E id \in Tagged(r) : SameOperation(id, r) /\ resp'[r].payout = id
      BY <1>0, <1>1, <1>5, <2>4 DEF Replay, Duplicate, Verify, Resolve
    <3> QED  BY <1>3, <3>1, <3>2
  <2>5. CASE RequestCommitted(r)
    <3>1. details' = details /\ txn[r] = "applied"  BY <2>5 DEF RequestCommitted, flowVars
    <3>a. attempt[r] \in 1..MaxRetries  BY <1>0
    <3>b. PICK own \in PayoutIds : own = <<r, attempt[r]>>  BY <3>a DEF PayoutIds
    <3>2. resp'[r].payout = own  BY <1>0, <2>5, <3>b DEF RequestCommitted
    <3>3. Stored(own)  BY <1>2, <3>1, <3>b DEF Records, OwnPayout
    <3>4. own \in Tagged(r) /\ SameOperation(own, r)
      BY <3>3, <3>b DEF Tagged, SameOperation, CreatorOf
    <3> QED  BY <1>3, <3>1, <3>2, <3>4
  <2>6. ~RequestCommitUnknown(r)  BY <1>5 DEF RequestCommitUnknown
  <2> QED  BY <2>2, <2>3, <2>4, <2>5, <2>6 DEF RequestStep
<1> QED  BY <1>4, <1>5

\* Part (F): who repeats an operation is told of the payout that it made.
LEMMA RepeatsNext ==
  ASSUME Isolation, Records, [Next]_vars, NEW r \in Requests
  PROVE  Repeats(r)'
<1> USE DEF Isolation, TypeInv, TypeOK
<1>0. r \in Txns /\ Owner[r] \in Creators /\ Repeats(r)  BY DEF Txns, Records
<1>1. SUFFICES ASSUME r \in ClientKeyed, replayOf'[r] # NoId, exists'[Owner[r]]
               PROVE  /\ pc'[r] \in {"replay", "done"} /\ replayOf'[r] \in Tagged(r)'
                      /\ details'[replayOf'[r][1]] = details'[r]
                      /\ pc'[r] = "done" => \/ resp'[r] = [code |-> "ok", payout |-> replayOf'[r]]
                                            \/ resp'[r].code \in {"forbidden", "error", "lost"}
  BY DEF Repeats, SameOperation
<1>2. exists[Owner[r]]  BY <1>0, <1>1, StoredStays
<1>3. ASSUME replayOf'[r] = replayOf[r], details'[r] = details[r]
      PROVE  /\ pc[r] \in {"replay", "done"} /\ replayOf[r] \in Tagged(r)
             /\ SameOperation(replayOf[r], r)
             /\ pc[r] = "done" => \/ resp[r] = [code |-> "ok", payout |-> replayOf[r]]
                                  \/ resp[r].code \in {"forbidden", "error", "lost"}
             /\ replayOf'[r] \in Tagged(r)' /\ details'[replayOf'[r][1]] = details'[r]
  <2>1. /\ pc[r] \in {"replay", "done"} /\ replayOf[r] \in Tagged(r)
        /\ SameOperation(replayOf[r], r)
        /\ pc[r] = "done" => \/ resp[r] = [code |-> "ok", payout |-> replayOf[r]]
                             \/ resp[r].code \in {"forbidden", "error", "lost"}
    BY <1>0, <1>1, <1>2, <1>3 DEF Repeats
  <2>2. replayOf[r] \in Tagged(r)' /\ details'[replayOf[r][1]] = details[replayOf[r][1]]
    BY <1>1, <2>1, TaggedStays
  <2> QED  BY <1>3, <2>1, <2>2 DEF SameOperation
<1>4. CASE Start(r)
  <2> USE DEF Answer, Goto
  <2>1. PICK d \in Destinations :
          /\ details' = [details EXCEPT ![r] = d]
          /\ replayOf' = [replayOf EXCEPT ![r] =
               IF \E id \in Tagged(r) : details[id[1]] = d
               THEN CHOOSE id \in Tagged(r) : details[id[1]] = d ELSE NoId]
    BY <1>4 DEF Start
  <2>2. replayOf'[r] \in Tagged(r) /\ details[replayOf'[r][1]] = d
    BY <1>1, <2>1
  <2>3. replayOf'[r] \in Tagged(r)' /\ details'[replayOf'[r][1]] = d
    BY <1>1, <2>2, TaggedStays
  <2>4. details'[r] = d  BY <2>1
  <2>5. pc'[r] = "replay" \/ (pc'[r] = "done" /\ resp'[r].code = "forbidden")
    BY <1>0, <1>1, <1>4 DEF Start
  <2> QED  BY <2>3, <2>4, <2>5
<1>5. CASE RequestStep(r) /\ ~Start(r)
  <2>1. replayOf' = replayOf /\ details' = details
    BY <1>5 DEF RequestStep, Replay, Precheck, Begin, Reserve, Insert, Duplicate, Verify,
                RequestCommitted, RequestCommitUnknown, flowVars
  <2>2. pc[r] \in {"replay", "done"}  BY <1>3, <2>1
  <2>3. Replay(r)
    BY <1>5, <2>2 DEF RequestStep, Precheck, Begin, Reserve, Insert, Duplicate, Verify,
                      RequestCommitted, RequestCommitUnknown
  <2>4. ASSUME NEW id \in Tagged(r) PROVE id = replayOf[r] /\ SameOperation(id, r)
    <3>1. replayOf[r] \in Tagged(r) /\ SameOperation(replayOf[r], r)  BY <1>3, <2>1
    <3>2. id = replayOf[r]  BY <3>1 DEF Tagged, Records, OnePayoutPerKey
    <3> QED  BY <3>1, <3>2
  <2>5. Tagged(r) # {}  BY <1>3, <2>1
  <2>6. Answer(r, "ok", replayOf[r])
    BY <2>3, <2>4, <2>5 DEF Replay, Resolve
  <2>7. pc'[r] = "done" /\ resp'[r] = [code |-> "ok", payout |-> replayOf[r]]
    BY <1>0, <2>6 DEF Answer
  <2> QED  BY <1>3, <2>1, <2>7
<1>6. CASE Touches(r)
  <2>1. replayOf' = replayOf /\ details' = details  BY <1>0, <1>6, TouchesFrame
  <2>2. pc[r] \in {"replay", "done"}  BY <1>3, <2>1
  <2>3. pc'[r] = "done" /\ resp'[r].code \in {"error", "lost"}
    <3>1. \/ pc'[r] = "done" /\ resp'[r].code \in {"error", "lost"}
          \/ pc[r] = "retry" \/ pc[r] = "commit"
      BY <1>0, <1>6, TouchesFrame
    <3> QED  BY <2>2, <3>1
  <2> QED  BY <1>3, <2>1, <2>3
<1>7. CASE ~RequestStep(r) /\ ~Touches(r)
  <2>1. /\ pc'[r] = pc[r] /\ resp'[r] = resp[r]
        /\ details'[r] = details[r] /\ replayOf'[r] = replayOf[r]
    BY <1>7, RequestElsewhere
  <2> QED  BY <1>3, <2>1
<1> QED  BY <1>4, <1>5, <1>6, <1>7
\* What a step does to a staff call: it names a stored payout, once; a rejection is
\* sent while the creator is there to be refunded; only the server applies it, and
\* the audit follows an applied commit.
Moves(a) ==
  /\ \/ op'[a] = op[a]
     \/ /\ txn[a] = "none" /\ txn'[a] = "none"
        /\ op'[a].payout \in PayoutIds /\ Stored(op'[a].payout)
  /\ txn'[a] = "committing" =>
       txn[a] = "committing" \/ (op[a].action = "reject" => exists'[CreatorOf(op[a].payout)])
  /\ txn'[a] = "applied" => txn[a] = "applied" \/ ApplyAdmin(a)
  /\ txn'[a] \in {"committing", "applied"} => pc'[a] \in {"commit", "audit", "done"}
  /\ pc'[a] = "audit" \/ a \in audited' => txn'[a] = "applied"

\* The staff call's own steps move it so.
LEMMA StaffMovesItself ==
  ASSUME Isolation, Records, NEW a \in AdminOps, AdminStep(a)
  PROVE  Moves(a)
<1> USE DEF Isolation, TypeInv, TypeOK, Answer, Goto, SetTxn, userVars, flowVars
<1>0. /\ a \in Txns /\ StaffFlow(a) /\ AdminControl(a)
      /\ txn[a] \in {"none", "open", "wrote", "committing", "applied", "aborted"}
  BY DEF Txns, Records
<1>1. ASSUME NEW act \in Actions, NEW id \in PayoutIds, Submit(a, act, id) PROVE Moves(a)
  <2>1. /\ pc[a] = "idle" /\ op'[a] = [action |-> act, payout |-> id] /\ Stored(id)
        /\ txn' = txn /\ pc'[a] = "begin" /\ audited' = audited
    BY <1>0, <1>1 DEF Submit
  <2>2. txn[a] = "none"  BY <1>0, <2>1 DEF AdminControl
  <2>3. a \notin audited  BY <1>0, <2>2 DEF StaffFlow
  <2>4. op'[a].payout = id  BY <2>1
  <2> QED  BY <2>1, <2>2, <2>3, <2>4 DEF Moves
<1>2. CASE CompareAndSwap(a)
  <2>1. /\ pc[a] = "begin" /\ op' = op /\ audited' = audited
        /\ txn'[a] \in {"aborted", "wrote", "committing"}
        /\ txn'[a] = "committing" => op[a].action # "reject" /\ pc'[a] = "commit"
        /\ pc'[a] # "audit"
    BY <1>0, <1>2 DEF CompareAndSwap
  <2>2. a \notin audited  BY <1>0, <2>1 DEF StaffFlow
  <2> QED  BY <2>1, <2>2 DEF Moves
<1>3. CASE Refund(a)
  <2>1. /\ pc[a] = "refund" /\ op' = op /\ audited' = audited /\ exists' = exists
        /\ txn'[a] \in {"aborted", "committing"}
        /\ txn'[a] = "committing" => exists[CreatorOf(op[a].payout)] /\ pc'[a] = "commit"
        /\ pc'[a] # "audit"
    BY <1>0, <1>3 DEF Refund
  <2>2. a \notin audited  BY <1>0, <2>1 DEF StaffFlow
  <2> QED  BY <2>1, <2>2 DEF Moves
<1>4. CASE AdminCommitted(a) \/ AdminCommitUnknown(a)
  BY <1>0, <1>4 DEF AdminCommitted, AdminCommitUnknown, Moves, StaffFlow
<1>5. CASE Audit(a)
  BY <1>0, <1>5 DEF Audit, Moves, StaffFlow
<1> QED  BY <1>1, <1>2, <1>3, <1>4, <1>5 DEF AdminStep

\* Every step does.
LEMMA StaffMoves ==
  ASSUME Isolation, Records, [Next]_vars, NEW a \in AdminOps
  PROVE  Moves(a)
<1> USE DEF Isolation
<1>0. /\ a \in Txns /\ StaffFlow(a)
      /\ txn[a] \in {"none", "open", "wrote", "committing", "applied", "aborted"}
  BY DEF Txns, Records, TypeInv, TypeOK
<1>1. CASE Touches(a)
  <2>1. /\ op' = op /\ audited' = audited /\ txn'[a] \in {txn[a], "aborted"}
        /\ (txn[a] \in {"committing", "applied"} => txn'[a] = txn[a])
        /\ \/ /\ pc'[a] \in {"retry", "begin"} /\ txn'[a] = txn[a]
              /\ pc[a] = "retry" \/ (pc[a] = "commit" /\ txn[a] = "aborted")
           \/ pc'[a] = "done"
    BY <1>0, <1>1, TouchesFrame
  <2> QED  BY <1>0, <2>1 DEF Moves, StaffFlow
<1>2. CASE ~AdminStep(a) /\ ~Touches(a)
  <2>1. /\ pc'[a] = pc[a] /\ op'[a] = op[a] /\ (a \in audited' <=> a \in audited)
        /\ txn'[a] = txn[a] \/ ApplyAdmin(a) \/ AbortCommit(a)
    BY <1>2, StaffElsewhere
  <2>2. ApplyAdmin(a) => txn[a] = "committing" /\ txn'[a] = "applied"
    BY <1>0 DEF ApplyAdmin, SetTxn, TypeInv, TypeOK
  <2>3. AbortCommit(a) => txn[a] = "committing" /\ txn'[a] = "aborted"
    BY <1>0 DEF AbortCommit, SetTxn, TypeInv, TypeOK
  <2> QED  BY <1>0, <2>1, <2>2, <2>3 DEF Moves, StaffFlow
<1> QED  BY <1>1, <1>2, StaffMovesItself
\* An account is deleted while no transaction has written it.
LEMMA DeletionFindsUserFree ==
  ASSUME TypeInv, [Next]_vars, NEW c \in Creators, exists[c], ~exists'[c]
  PROVE  UserFree(c)
<1>1. ASSUME NEW d \in Creators, Platform(d) PROVE UserFree(c)
  BY <1>1, PlatformEffect
<1>2. ~(\E r \in Requests : ApplyRequest(r)) /\ ~(\E a \in AdminOps : ApplyAdmin(a))
  BY DEF ApplyRequest, ApplyAdmin
<1>3. ~UNCHANGED <<userVars, payouts, paidOut>>  BY DEF userVars
<1> QED  BY <1>1, <1>2, <1>3, PayoutFrame

\* A payout never goes back behind a decision that was applied to it.
LEMMA AfterStays ==
  ASSUME Isolation, Records, [Next]_vars, NEW id \in PayoutIds, NEW act \in Actions,
         payouts[id].status \in After[act], txn[id[1]] = "applied"
  PROVE  payouts'[id].status \in After[act]
<1> USE DEF Isolation
<1>1. ASSUME NEW c \in Creators, Platform(c) PROVE payouts'[id].status \in After[act]
  <2>1. payouts'[id] = payouts[id] \/ payouts'[id] = NoPayout  BY <1>1, PlatformEffect
  <2> QED  BY <2>1 DEF After, Actions, NoPayout
<1>2. ASSUME NEW r \in Requests, ApplyRequest(r) PROVE payouts'[id].status \in After[act]
  <2>1. id[1] # r  BY <1>2 DEF ApplyRequest
  <2>2. id # <<r, attempt[r]>>  BY <2>1
  <2> QED  BY <1>2, <2>2, ApplyRequestEffect
<1>3. ASSUME NEW a \in AdminOps, ApplyAdmin(a) PROVE payouts'[id].status \in After[act]
  <2>1. CASE id # op[a].payout  BY <1>3, <2>1, ApplyAdminEffect
  <2>2. CASE id = op[a].payout
    <3>1. /\ op[a].action \in Actions
          /\ payouts[id].status = ExpectedStatus[op[a].action]
          /\ payouts'[id].status = NextStatus[op[a].action]
      BY <1>3, <2>2, ApplyAdminEffect
    <3> QED  BY <3>1 DEF After, Actions, ExpectedStatus, NextStatus
  <2> QED  BY <2>1, <2>2
<1>4. CASE UNCHANGED <<userVars, payouts, paidOut>>
  BY <1>4
<1> QED  BY <1>1, <1>2, <1>3, <1>4, PayoutFrame

\* Part (G): a staff call that was applied left its mark on the payout it names.
LEMMA StaffFlowNext ==
  ASSUME Isolation, Records, [Next]_vars, NEW a \in AdminOps
  PROVE  StaffFlow(a)'
<1> USE DEF Isolation
<1>0. Moves(a) /\ StaffFlow(a) /\ a \in Txns
  BY StaffMoves DEF Records, Txns
<1>1. ASSUME op'[a] # NoOp PROVE txn'[op'[a].payout[1]] = "applied"
  <2>1. CASE op'[a] = op[a]
    <3>1. op[a].payout \in PayoutIds /\ txn[op[a].payout[1]] = "applied"
      BY <1>0, <1>1, <2>1 DEF StaffFlow, TypeInv, TypeOK
    <3>2. op[a].payout[1] \in Txns  BY <3>1, PayoutIdsShape DEF Txns
    <3> QED  BY <2>1, <3>1, <3>2, AppliedStays
  <2>2. CASE op'[a] # op[a]
    <3>1. op'[a].payout \in PayoutIds /\ Stored(op'[a].payout)
      BY <1>0, <2>2 DEF Moves
    <3>2. op'[a].payout[1] \in Requests  BY <3>1, PayoutIdsShape
    <3>3. txn[op'[a].payout[1]] = "applied"  BY <3>1, <3>2 DEF Records, OwnPayout
    <3> QED  BY <3>2, <3>3, AppliedStays DEF Txns
  <2> QED  BY <2>1, <2>2
<1>2. ASSUME txn'[a] = "committing", op'[a].action = "reject"
      PROVE  exists'[CreatorOf(op'[a].payout)]
  <2>1. op'[a] = op[a]  BY <1>0, <1>2 DEF Moves
  <2>2. CASE txn[a] = "committing"
    <3>1. op[a].payout \in PayoutIds
      BY <1>2, <2>1, <2>2 DEF TypeInv, TypeOK, AdminControl, NoOp
    <3>a. PICK c \in Creators : c = CreatorOf(op[a].payout)  BY <3>1, PayoutIdsShape
    <3>2. exists[c]  BY <1>0, <1>2, <2>1, <2>2, <3>a DEF StaffFlow
    <3>3. ~UserFree(c)  BY <1>0, <1>2, <2>1, <2>2, <3>a DEF UserFree, HoldsUser
    <3> QED  BY <2>1, <3>2, <3>3, <3>a, DeletionFindsUserFree
  <2>3. CASE txn[a] # "committing"
    BY <1>0, <1>2, <2>1, <2>3 DEF Moves
  <2> QED  BY <2>2, <2>3
<1>3. ASSUME txn'[a] = "applied" PROVE payouts'[op'[a].payout].status \in After[op'[a].action]
  <2>1. op'[a] = op[a]  BY <1>0, <1>3 DEF Moves
  <2>2. CASE txn[a] = "applied"
    <3>1. op[a] # NoOp  BY <2>2 DEF TypeInv, AdminControl
    <3>2. op[a].payout \in PayoutIds /\ op[a].action \in Actions
      BY <3>1 DEF TypeInv, TypeOK
    <3>3. txn[op[a].payout[1]] = "applied" /\ payouts[op[a].payout].status \in After[op[a].action]
      BY <1>0, <2>2, <3>1 DEF StaffFlow
    <3> QED  BY <2>1, <3>2, <3>3, AfterStays
  <2>3. CASE txn[a] # "applied"
    <3>1. ApplyAdmin(a)  BY <1>0, <1>3, <2>3 DEF Moves
    <3>2. op[a].action \in Actions /\ payouts'[op[a].payout].status = NextStatus[op[a].action]
      BY <3>1, ApplyAdminEffect
    <3> QED  BY <2>1, <3>2 DEF After, Actions, NextStatus
  <2> QED  BY <2>2, <2>3
<1>4. /\ txn'[a] \in {"committing", "applied"} => pc'[a] \in {"commit", "audit", "done"}
      /\ pc'[a] = "audit" \/ a \in audited' => txn'[a] = "applied"
  BY <1>0 DEF Moves
<1> QED  BY <1>1, <1>2, <1>3, <1>4 DEF StaffFlow

\* Part (H): a second decision is applied only to an approved payout, to pay it,
\* because its commit finds the payout where the compare-and-swap expects it.
LEMMA StaffOnceNext ==
  ASSUME Isolation, Records, [Next]_vars
  PROVE  StaffOnce'
<1> USE DEF Isolation
<1>1. ASSUME NEW a \in AdminOps, NEW b \in AdminOps, txn'[a] = "applied", txn'[b] = "applied",
             a # b, op'[a].payout = op'[b].payout, txn[b] # "applied"
      PROVE  op'[a].action = "approve" /\ op'[b].action = "mark_paid"
  <2>1. op'[a] = op[a] /\ op'[b] = op[b] /\ ApplyAdmin(b)
    BY <1>1, StaffMoves DEF Moves
  <2>3. txn[a] = "applied"
    BY <1>1, <2>1 DEF ApplyAdmin, SetTxn, TypeInv, TypeOK, Txns
  <2>4. payouts[op[b].payout].status \in After[op[a].action]
    BY <1>1, <2>1, <2>3 DEF Records, StaffFlow
  <2>5. op[b].action \in Actions /\ payouts[op[b].payout].status = ExpectedStatus[op[b].action]
    BY <2>1, ApplyAdminEffect
  <2>6. op[a] # NoOp  BY <2>3 DEF TypeInv, AdminControl
  <2>7. op[a].action \in Actions  BY <2>6 DEF TypeInv, TypeOK
  <2> QED  BY <2>1, <2>4, <2>5, <2>7 DEF After, Actions, ExpectedStatus
<1>2. ASSUME NEW a \in AdminOps, NEW b \in AdminOps, txn'[a] = "applied", txn'[b] = "applied",
             a # b, op'[a].payout = op'[b].payout
      PROVE  {op'[a].action, op'[b].action} = {"approve", "mark_paid"}
  <2>1. op'[a] = op[a] /\ op'[b] = op[b]  BY <1>2, StaffMoves DEF Moves
  <2>2. CASE txn[a] = "applied" /\ txn[b] = "applied"
    BY <1>2, <2>1, <2>2 DEF Records, StaffOnce
  <2>3. CASE txn[b] # "applied"
    <3>1. op'[a].action = "approve" /\ op'[b].action = "mark_paid"  BY <1>1, <1>2, <2>3
    <3> QED  BY <3>1
  <2>4. CASE txn[a] # "applied"
    <3>1. op'[b].action = "approve" /\ op'[a].action = "mark_paid"  BY <1>1, <1>2, <2>4
    <3> QED  BY <3>1
  <2> QED  BY <2>2, <2>3, <2>4
<1> QED  BY <1>2 DEF StaffOnce

\* Part (I): nothing is credited or refunded to a deleted creator.
LEMMA DeletedIsEmptyNext ==
  ASSUME Isolation, Records, [Next]_vars
  PROVE  DeletedIsEmpty'
<1> USE DEF Isolation, TypeInv, TypeOK
<1>0. DeletedIsEmpty  BY DEF Records
<1>1. ASSUME NEW c \in Creators, Platform(c) PROVE DeletedIsEmpty'
  <2>1. ASSUME NEW n \in Credits, Credit(c, n)
        PROVE  exists[c] /\ exists' = exists /\ \A d \in Creators \ {c} : earnings'[d] = earnings[d]
    BY <2>1 DEF Credit
  <2>2. ASSUME DropUser(c)
        PROVE  earnings'[c] = 0 /\ \A d \in Creators \ {c} : earnings'[d] = earnings[d] /\ exists'[d] = exists[d]
    BY <2>2 DEF DropUser
  <2> QED
    BY <1>0, <1>1, <2>1, <2>2 DEF Platform, HardDeleteUser, DeleteUserAccount, DeletedIsEmpty
<1>2. ASSUME NEW r \in Requests, ApplyRequest(r) PROVE DeletedIsEmpty'
  BY <1>0, <1>2 DEF ApplyRequest, DeletedIsEmpty
<1>3. ASSUME NEW a \in AdminOps, ApplyAdmin(a) PROVE DeletedIsEmpty'
  <2>1. op[a].payout \in PayoutIds  BY <1>3, ApplyAdminEffect
  <2>a. PICK c \in Creators : c = CreatorOf(op[a].payout)  BY <2>1, PayoutIdsShape
  <2>2. /\ exists' = exists /\ \A d \in Creators \ {c} : earnings'[d] = earnings[d]
        /\ op[a].action # "reject" => earnings' = earnings
    BY <1>3, <2>a DEF ApplyAdmin
  <2>3. op[a].action = "reject" => exists[c]
    BY <1>3, <2>a DEF ApplyAdmin, Records, StaffFlow
  <2> QED  BY <1>0, <2>2, <2>3 DEF DeletedIsEmpty
<1>4. CASE UNCHANGED <<userVars, payouts, paidOut>>
  BY <1>0, <1>4 DEF DeletedIsEmpty, userVars
<1> QED  BY <1>1, <1>2, <1>3, <1>4, PayoutFrame

\* Every step keeps Records.
LEMMA RecordsNext == Isolation /\ Records /\ [Next]_vars => Records'
<1> SUFFICES ASSUME Isolation, Records, [Next]_vars PROVE Records'  OBVIOUS
<1>1. ASSUME NEW r \in Requests
      PROVE  Flow(r)' /\ OwnPayout(r)' /\ KeyAlone(r)' /\ Success(r)' /\ Repeats(r)'
  BY FlowNext, OwnPayoutNext, KeyAloneNext, SuccessNext, RepeatsNext
<1>2. ASSUME NEW a \in AdminOps PROVE StaffFlow(a)'  BY StaffFlowNext
<1> QED
  BY <1>1, <1>2, StaffOnceNext, DeletedIsEmptyNext, OnePayoutPerKeyNext DEF Records

\* The isolation of the transactions and what they left, together.
THEOREM RecordsAreTrue == Spec => [](Isolation /\ Records)
<1>1. Isolation /\ TypeInv /\ [Next]_vars => Isolation'  BY TypeNext, IsolationNext
<1>2. Spec => []Isolation
  BY <1>1, IsolationInit, TypeCorrect, PTL DEF Spec
<1> QED
  BY <1>2, RecordsInit, RecordsNext, PTL DEF Spec
-----------------------------------------------------------------------------
(***************************************************************************)
(* What the answers, the audit log and the collection tell.                *)
(***************************************************************************)
\* The unique index, the transactions and the resolution of replays leave one payout
\* per idempotency key, whatever requestPayout's retries and its clients do.
THEOREM KeysAreUsedOnce == Spec => []OnePayoutPerKey
  BY RecordsAreTrue, PTL DEF Records

\* A creator who was refused has no payout of that request and will have none: no
\* 4xx or 500 of requestPayout hides a commit that was applied or still can be.
THEOREM RefusalsAreTrue == Spec => []NoPayoutBehindRefusal
<1>1. Isolation /\ Records => NoPayoutBehindRefusal
  BY PayoutIdsShape DEF Records, Flow, OwnPayout, Failures, NoPayoutBehindRefusal
<1> QED  BY <1>1, RecordsAreTrue, PTL

\* A success of requestPayout, first or replayed, names a stored payout of that
\* creator, key and operation, of the amount reserved for it, as long as the
\* creator's account exists.
THEOREM SuccessesLast == Spec => []SuccessIsDurable
<1>1. Isolation /\ Records => SuccessIsDurable
  <2> SUFFICES ASSUME Isolation, Records, NEW r \in Requests,
                      resp[r].code = "ok", exists[Owner[r]]
               PROVE  LET id == resp[r].payout IN
                        /\ Stored(id) /\ CreatorOf(id) = Owner[r] /\ Key[id[1]] = Key[r]
                        /\ SameOperation(id, r) /\ payouts[id].amount = seen[id[1]]
    BY DEF SuccessIsDurable
  <2>1. PICK id \in PayoutIds : id = resp[r].payout /\ id \in Tagged(r) /\ SameOperation(id, r)
    BY DEF Records, Success, Tagged
  <2>2. Stored(id) /\ CreatorOf(id) = Owner[r] /\ Key[id[1]] = Key[r]  BY <2>1 DEF Tagged
  <2>3. id[1] \in Requests  BY PayoutIdsShape
  <2>4. payouts[id].amount = seen[id[1]]  BY <2>2, <2>3 DEF Records, OwnPayout
  <2> QED  BY <2>1, <2>2, <2>4
<1> QED  BY <1>1, RecordsAreTrue, PTL

\* A client that repeats an operation which already made a payout is answered with
\* that payout, unless it is not approved any more or the server fails.
THEOREM ReplaysAreRecognised == Spec => []ReplayAnsweredWithSamePayout
<1>1. Isolation /\ Records => ReplayAnsweredWithSamePayout
  BY DEF Records, Repeats, ReplayAnsweredWithSamePayout
<1> QED  BY <1>1, RecordsAreTrue, PTL

\* Every entry that updatePayout writes to the audit log is of a staff call whose
\* commit was applied and which the payout still shows; two entries about one payout
\* are its approval and its payment.  An entry may be missing: the theorem says
\* nothing of decisions that were not recorded.
THEOREM AuditIsTrue == Spec => []AuditTellsTheTruth
<1>1. Isolation /\ Records => AuditTellsTheTruth
  BY DEF Records, StaffFlow, StaffOnce, AuditTellsTheTruth, Isolation, TypeInv, TypeOK
<1> QED  BY <1>1, RecordsAreTrue, PTL

\* A step that takes a payout along its lifecycle, or leaves it alone.
LEMMA LifecycleStep ==
  ASSUME Isolation, Records, [Next]_vars, NEW id \in PayoutIds
  PROVE  \/ payouts'[id] = payouts[id]
         \/ payouts[id] = NoPayout /\ payouts'[id].status = "pending"
         \/ /\ payouts'[id].amount = payouts[id].amount
            /\ <<payouts[id].status, payouts'[id].status>> \in
                 {<<"pending", "approved">>, <<"pending", "rejected">>, <<"approved", "paid">>}
         \/ payouts'[id] = NoPayout /\ ~exists'[CreatorOf(id)]
<1> USE DEF Isolation
<1>1. ASSUME NEW c \in Creators, Platform(c)
      PROVE  payouts'[id] = payouts[id] \/ (payouts'[id] = NoPayout /\ ~exists'[CreatorOf(id)])
  BY <1>1, PlatformEffect
<1>2. ASSUME NEW r \in Requests, ApplyRequest(r)
      PROVE  \/ payouts'[id] = payouts[id]
             \/ payouts[id] = NoPayout /\ payouts'[id].status = "pending"
  <2>1. CASE id = <<r, attempt[r]>>
    <3>1. /\ payouts[id] = NoPayout
          /\ payouts'[id] = [amount |-> seen[r], status |-> "pending"]
      BY <1>2, <2>1, ApplyRequestEffect
    <3> QED  BY <3>1
  <2> QED  BY <1>2, <2>1, ApplyRequestEffect
<1>3. ASSUME NEW a \in AdminOps, ApplyAdmin(a)
      PROVE  \/ payouts'[id] = payouts[id]
             \/ /\ payouts'[id].amount = payouts[id].amount
                /\ <<payouts[id].status, payouts'[id].status>> \in
                     {<<"pending", "approved">>, <<"pending", "rejected">>, <<"approved", "paid">>}
  <2>1. CASE id = op[a].payout
    <3>1. /\ op[a].action \in Actions
          /\ payouts[id].status = ExpectedStatus[op[a].action]
          /\ payouts'[id].status = NextStatus[op[a].action]
          /\ payouts'[id].amount = payouts[id].amount
      BY <1>3, <2>1, ApplyAdminEffect
    <3> QED  BY <3>1 DEF Actions, ExpectedStatus, NextStatus
  <2> QED  BY <1>3, <2>1, ApplyAdminEffect
<1>4. CASE UNCHANGED <<userVars, payouts, paidOut>>
  BY <1>4
<1> QED  BY <1>1, <1>2, <1>3, <1>4, PayoutFrame

\* A payout is paid only after an approval, paid and rejected are final, its amount
\* never changes, and it disappears only with its creator.
THEOREM PayoutsFollowTheirLifecycle == Spec => PayoutLifecycle
<1>1. Isolation /\ Records /\ [Next]_vars =>
        [\A id \in PayoutIds :
           \/ payouts'[id] = payouts[id]
           \/ payouts[id] = NoPayout /\ payouts'[id].status = "pending"
           \/ /\ payouts'[id].amount = payouts[id].amount
              /\ <<payouts[id].status, payouts'[id].status>> \in
                   {<<"pending", "approved">>, <<"pending", "rejected">>, <<"approved", "paid">>}
           \/ payouts'[id] = NoPayout /\ ~exists'[CreatorOf(id)]]_vars
  BY LifecycleStep
<1> QED  BY <1>1, RecordsAreTrue, PTL DEF Spec, PayoutLifecycle
-----------------------------------------------------------------------------
(***************************************************************************)
(* The handlers implement the account of PayoutLedger.                     *)
(***************************************************************************)
\* What the ledger holds, for every creator.
Held == [c \in Creators |-> HeldAmount(c)]
ledger == <<earnings, Held, paidOut, exists>>

\* The amount held is that of the one active payout, and is not zero.
LEMMA HeldIsActive ==
  ASSUME Isolation, Records, AtMostOneActivePayout, NEW c \in Creators, NEW id \in ActiveIds(c)
  PROVE  Held[c] = payouts[id].amount /\ Held[c] > 0 /\ Held[c] \in Nat
<1>1. \A j \in ActiveIds(c) : j = id  BY DEF AtMostOneActivePayout
<1>2. (CHOOSE j \in ActiveIds(c) : TRUE) = id  BY <1>1
<1>3. HeldAmount(c) = payouts[id].amount  BY <1>2 DEF HeldAmount
<1>4. id \in PayoutIds /\ id[1] \in Requests /\ Stored(id)
  BY PayoutIdsShape DEF ActiveIds, Stored
<1>5. payouts[id].amount >= MinPayout /\ payouts[id].amount \in Nat
  BY <1>4 DEF Records, OwnPayout, Isolation, TypeInv, TypeOK
<1> QED  BY <1>3, <1>5 DEF Held

\* The same after a step.
LEMMA HeldIsActiveNext ==
  ASSUME AtMostOneActivePayout', NEW c \in Creators, NEW id \in PayoutIds,
         CreatorOf(id) = c, payouts'[id].status \in {"pending", "approved"}
  PROVE  Held'[c] = payouts'[id].amount
<1>1. id \in ActiveIds(c)'  BY DEF ActiveIds
<1>2. \A j \in ActiveIds(c)' : j = id  BY <1>1 DEF AtMostOneActivePayout
<1>3. (CHOOSE j \in ActiveIds(c)' : TRUE) = id  BY <1>1, <1>2
<1>4. HeldAmount(c)' = payouts'[id].amount  BY <1>1, <1>3 DEF HeldAmount
<1> QED  BY <1>4 DEF Held

\* Nothing is held of a creator without an active payout.
LEMMA HeldIsNothing ==
  ASSUME NEW c \in Creators
  PROVE  /\ ActiveIds(c) = {} => Held[c] = 0
         /\ ActiveIds(c)' = {} => Held'[c] = 0
  BY DEF Held, HeldAmount

\* What is held of a creator changes only with that creator's payouts.
LEMMA HeldFrame ==
  ASSUME NEW c \in Creators,
         \A id \in PayoutIds : CreatorOf(id) = c => payouts'[id] = payouts[id]
  PROVE  Held'[c] = Held[c]
<1>1. ActiveIds(c)' = ActiveIds(c)  BY DEF ActiveIds
<1>2. CASE ActiveIds(c) = {}  BY <1>1, <1>2 DEF Held, HeldAmount
<1>3. CASE ActiveIds(c) # {}
  <2>1. PICK id \in ActiveIds(c) : id = CHOOSE j \in ActiveIds(c) : TRUE  BY <1>3
  <2>2. id = CHOOSE j \in ActiveIds(c)' : TRUE  BY <1>1, <2>1
  <2>3. payouts'[id] = payouts[id]  BY <2>1 DEF ActiveIds
  <2>4. HeldAmount(c) = payouts[id].amount  BY <1>3, <2>1 DEF HeldAmount
  <2>5. HeldAmount(c)' = payouts'[id].amount  BY <1>1, <1>3, <2>2 DEF HeldAmount
  <2> QED  BY <2>3, <2>4, <2>5 DEF Held
<1> QED  BY <1>2, <1>3

\* A credit earns; a deletion closes the account, with or without what it held.
LEMMA PlatformLedger ==
  ASSUME Isolation, Records, AtMostOneActivePayout, NEW c \in Creators, Platform(c)
  PROVE  [Ledger!Next]_ledger
<1> USE DEF Isolation, TypeInv, TypeOK
<1>1. ASSUME payouts' = payouts PROVE Held' = Held
  <2>1. \A d \in Creators : Held'[d] = Held[d]  BY <1>1, HeldFrame
  <2> QED  BY <2>1 DEF Held
<1>2. ASSUME NEW n \in Credits, Credit(c, n) PROVE Ledger!Earn(c)
  <2>1. /\ exists[c] /\ earnings' = [earnings EXCEPT ![c] = @ + n]
        /\ payouts' = payouts /\ UNCHANGED <<paidOut, exists>>
    BY <1>2 DEF Credit
  <2>2. n \in Nat /\ n > 0  BY BoundAssumption
  <2>3. earnings'[c] > earnings[c] /\ earnings' = [earnings EXCEPT ![c] = earnings'[c]]
    BY <2>1, <2>2
  <2>4. UNCHANGED <<Held, paidOut, exists>>  BY <1>1, <2>1
  <2> QED  BY <2>1, <2>3, <2>4 DEF Ledger!Earn, Held
<1>3. ASSUME HardDeleteUser(c) \/ DeleteUserAccount(c) PROVE Ledger!Close(c)
  <2>1. /\ exists[c] /\ exists' = [exists EXCEPT ![c] = FALSE]
        /\ earnings' = [earnings EXCEPT ![c] = 0] /\ paidOut' = paidOut
    BY <1>3 DEF HardDeleteUser, DeleteUserAccount, DropUser
  <2>2. Held' \in {Held, [Held EXCEPT ![c] = 0]}
    <3>1. CASE HardDeleteUser(c)  BY <1>1, <3>1 DEF HardDeleteUser
    <3>2. CASE DeleteUserAccount(c)
      <4>1. \A id \in PayoutIds :
              payouts'[id] = IF CreatorOf(id) = c THEN NoPayout ELSE payouts[id]
        BY <3>2 DEF DeleteUserAccount
      <4>2. ActiveIds(c)' = {}  BY <4>1 DEF ActiveIds, NoPayout
      <4>3. Held'[c] = 0  BY <4>2, HeldIsNothing
      <4>4. \A d \in Creators \ {c} : Held'[d] = Held[d]  BY <4>1, HeldFrame
      <4>5. Held' = [Held EXCEPT ![c] = 0]  BY <4>3, <4>4 DEF Held
      <4> QED  BY <4>5
    <3> QED  BY <1>3, <3>1, <3>2
  <2> QED  BY <2>1, <2>2 DEF Ledger!Close, Held
<1> QED  BY <1>2, <1>3 DEF Platform, Ledger!Next

\* The commit of a request takes the whole balance.
LEMMA RequestLedger ==
  ASSUME Isolation, Records, AtMostOneActivePayout', NEW r \in Requests, ApplyRequest(r)
  PROVE  Ledger!Next
<1> USE DEF Isolation, TypeInv, TypeOK
<1> DEFINE c == Owner[r]
           new == <<r, attempt[r]>>
<1>0. c \in Creators /\ CreatorOf(new) = c  BY DEF CreatorOf
<1>1. /\ new \in PayoutIds
      /\ payouts'[new] = [amount |-> seen[r], status |-> "pending"]
      /\ \A id \in PayoutIds : id # new => payouts'[id] = payouts[id]
      /\ seen[r] >= MinPayout /\ seen[r] = earnings[c] /\ ActiveIds(c) = {}
  BY ApplyRequestEffect
<1>2. earnings' = [earnings EXCEPT ![c] = 0] /\ UNCHANGED <<exists, paidOut>>
  BY DEF ApplyRequest
<1> HIDE DEF c, new
<1>3. exists[c]  BY <1>0, <1>1, BoundAssumption DEF Records, DeletedIsEmpty
<1>4. Held[c] = 0  BY <1>0, <1>1, HeldIsNothing
<1>5. payouts'[new].status = "pending" /\ payouts'[new].amount = earnings[c]
  BY <1>1
<1>6. Held'[c] = earnings[c]  BY <1>0, <1>1, <1>5, HeldIsActiveNext
<1>7. \A d \in Creators \ {c} : Held'[d] = Held[d]
  <2>1. \A d \in Creators \ {c} : \A id \in PayoutIds : CreatorOf(id) = d => payouts'[id] = payouts[id]
    BY <1>0, <1>1
  <2> QED  BY <2>1, HeldFrame
<1>8. Held' = [Held EXCEPT ![c] = earnings[c]]  BY <1>6, <1>7 DEF Held
<1>9. Ledger!Hold(c)  BY <1>1, <1>2, <1>3, <1>4, <1>8 DEF Ledger!Hold, Held
<1> QED  BY <1>0, <1>9 DEF Ledger!Next

\* The commit of a staff call releases what is held, settles it, or only approves.
LEMMA StaffLedger ==
  ASSUME Isolation, Records, AtMostOneActivePayout, AtMostOneActivePayout',
         NEW a \in AdminOps, ApplyAdmin(a)
  PROVE  [Ledger!Next]_ledger
<1> USE DEF Isolation, TypeInv, TypeOK
<1>0. /\ op[a] \in [action : Actions, payout : PayoutIds]
      /\ payouts[op[a].payout].status = ExpectedStatus[op[a].action]
      /\ payouts'[op[a].payout].status = NextStatus[op[a].action]
      /\ payouts'[op[a].payout].amount = payouts[op[a].payout].amount
      /\ \A i \in PayoutIds : i # op[a].payout => payouts'[i] = payouts[i]
  BY ApplyAdminEffect
<1>a. PICK id \in PayoutIds : id = op[a].payout  BY <1>0
<1>b. PICK c \in Creators : c = CreatorOf(id)  BY PayoutIdsShape
<1>1. id \in ActiveIds(c)
  BY <1>0, <1>a, <1>b DEF ActiveIds, Actions, ExpectedStatus
<1>2. Held[c] = payouts[id].amount /\ Held[c] > 0  BY <1>1, HeldIsActive
<1>3. \A d \in Creators \ {c} : Held'[d] = Held[d]
  <2>1. \A d \in Creators \ {c} : \A i \in PayoutIds : CreatorOf(i) = d => payouts'[i] = payouts[i]
    BY <1>0, <1>a, <1>b
  <2> QED  BY <2>1, HeldFrame
<1>4. exists' = exists  BY DEF ApplyAdmin
<1>5. ASSUME op[a].action # "approve" PROVE Held' = [Held EXCEPT ![c] = 0]
  <2>1. payouts'[id].status \in {"rejected", "paid"}
    BY <1>0, <1>a, <1>5 DEF Actions, NextStatus
  <2>2. ASSUME NEW i \in PayoutIds, CreatorOf(i) = c, payouts'[i].status \in {"pending", "approved"}
        PROVE  FALSE
    <3>1. i # id  BY <2>1, <2>2
    <3>2. i \in ActiveIds(c)  BY <1>0, <1>a, <2>2, <3>1 DEF ActiveIds
    <3> QED  BY <1>1, <3>1, <3>2 DEF AtMostOneActivePayout
  <2>3. ActiveIds(c)' = {}  BY <2>2 DEF ActiveIds
  <2>4. Held'[c] = 0  BY <2>3, HeldIsNothing
  <2> QED  BY <1>3, <2>4 DEF Held
<1>6. CASE op[a].action = "approve"
  <2>1. earnings' = earnings /\ paidOut' = paidOut  BY <1>6 DEF ApplyAdmin
  <2>2. payouts'[id].status = "approved" /\ payouts'[id].amount = payouts[id].amount
    BY <1>0, <1>a, <1>6 DEF NextStatus
  <2>3. Held'[c] = Held[c]  BY <1>2, <1>b, <2>2, HeldIsActiveNext
  <2>4. Held' = Held  BY <1>3, <2>3 DEF Held
  <2> QED  BY <1>4, <2>1, <2>4 DEF ledger
<1>7. CASE op[a].action = "reject"
  <2>1. earnings' = [earnings EXCEPT ![c] = @ + payouts[id].amount] /\ paidOut' = paidOut
    BY <1>7, <1>a, <1>b DEF ApplyAdmin
  <2>2. exists[c]  BY <1>7, <1>a, <1>b DEF ApplyAdmin, Records, StaffFlow
  <2>3. Held' = [Held EXCEPT ![c] = 0]  BY <1>5, <1>7
  <2>4. Ledger!Release(c)
    BY <1>2, <1>4, <2>1, <2>2, <2>3 DEF Ledger!Release, Held
  <2> QED  BY <2>4 DEF Ledger!Next
<1>8. CASE op[a].action = "mark_paid"
  <2>1. paidOut' = [paidOut EXCEPT ![c] = @ + payouts[id].amount] /\ earnings' = earnings
    BY <1>8, <1>a, <1>b DEF ApplyAdmin
  <2>2. Held' = [Held EXCEPT ![c] = 0]  BY <1>5, <1>8
  <2>3. Ledger!Settle(c)
    BY <1>2, <1>4, <2>1, <2>2 DEF Ledger!Settle, Held
  <2> QED  BY <2>3 DEF Ledger!Next
<1> QED  BY <1>0, <1>6, <1>7, <1>8 DEF Actions

\* Every step of the handlers is a step of the ledger, or none.
LEMMA LedgerStep ==
  ASSUME Isolation, Records, AtMostOneActivePayout, AtMostOneActivePayout', [Next]_vars
  PROVE  [Ledger!Next]_ledger
<1>1. CASE UNCHANGED <<userVars, payouts, paidOut>>
  <2>1. \A c \in Creators : Held'[c] = Held[c]  BY <1>1, HeldFrame
  <2>2. Held' = Held  BY <2>1 DEF Held
  <2> QED  BY <1>1, <2>2 DEF ledger, userVars
<1>2. ASSUME NEW r \in Requests, ApplyRequest(r) PROVE Ledger!Next
  BY <1>2, RequestLedger
<1> QED  BY <1>1, <1>2, PlatformLedger, StaffLedger, PayoutFrame

\* Whatever the retries, crashes and unknown commits, a creator's money moves as in
\* an account with one amount held: requestPayout holds the balance, updatePayout
\* releases or settles it, and no other step of the handlers moves a coin.
THEOREM LedgerImplemented == Spec => ImplementsLedger
<1>1. Init => Ledger!Init
  <2> SUFFICES ASSUME Init PROVE Ledger!Init  OBVIOUS
  <2>1. \A c \in Creators : ActiveIds(c) = {}  BY DEF Init, ActiveIds, NoPayout
  <2>2. \A c \in Creators : HeldAmount(c) = 0  BY <2>1 DEF HeldAmount
  <2> QED  BY <2>2 DEF Init, Ledger!Init
<1>2. Spec => []AtMostOneActivePayout  BY OneWithdrawalAtATime
<1>3. Isolation /\ Records /\ AtMostOneActivePayout /\ AtMostOneActivePayout' /\ [Next]_vars =>
        [Ledger!Next]_(Ledger!ledgerVars)
  BY LedgerStep DEF ledger, Held, Ledger!ledgerVars
<1> QED
  BY <1>1, <1>2, <1>3, RecordsAreTrue, PTL DEF Spec, ImplementsLedger, Ledger!Spec
=============================================================================
