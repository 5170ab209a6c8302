------------------------ MODULE CreatorPayoutsProofs ------------------------
(***************************************************************************)
(* Theorems about CreatorPayouts, for any number of creators, requests and *)
(* staff calls.  The order of the argument: the types and the control      *)
(* state of the handlers; then that every transaction which can commit     *)
(* acted on the current state (CommitsActOnCurrentState); from it, that a  *)
(* creator has at most one withdrawal under way and that no coin is lost.  *)
(***************************************************************************)
EXTENDS CreatorPayouts, TLAPS

USE RequestAssumption, BoundAssumption

TypeInv == TypeOK /\ \A a \in AdminOps : AdminControl(a)

\* A payout is named by a request and one of its attempts.
LEMMA PayoutIdsShape ==
  \A id \in PayoutIds : id[1] \in Requests /\ CreatorOf(id) \in Creators
  BY DEF PayoutIds, CreatorOf

\* The initial values have their types, and no transaction runs.
LEMMA TypeInit == Init => TypeInv
  <1> SUFFICES ASSUME Init PROVE TypeInv
    OBVIOUS
  <1>1. \A a \in AdminOps : AdminControl(a)
    BY DEF Init, AdminControl, Txns, NoOp
  <1>2. TypeOK
    BY DEF Init, TypeOK, NoPayout, Txns, Labels, NoOp, NoAnswer, Codes
  <1>3. QED
    BY <1>1, <1>2 DEF TypeInv

\* The platform's own writes keep the types.
LEMMA TypePlatform ==
  ASSUME TypeInv, NEW c \in Creators, Platform(c)
  PROVE  TypeInv'
  <1> USE DEF TypeInv, TypeOK, StaleAfterWrite
  <1>1. ASSUME NEW n \in Credits, Credit(c, n) PROVE TypeInv'
    BY <1>1 DEF Credit, AdminControl
  <1>2. CASE HardDeleteUser(c)
    BY <1>2 DEF HardDeleteUser, DropUser, AdminControl
  <1>3. CASE DeleteUserAccount(c)
    <2>1. payouts' \in [PayoutIds ->
            [amount : Nat, status : {"none", "pending", "approved", "rejected", "paid"}]]
      BY <1>3 DEF DeleteUserAccount, NoPayout
    <2>2. QED
      BY <1>3, <2>1 DEF DeleteUserAccount, DropUser, AdminControl
  <1>4. QED
    BY <1>1, <1>2, <1>3 DEF Platform

AnswerType == pc' \in [Txns -> Labels] /\ resp' \in [Txns -> [code : Codes, payout : PayoutIds \cup {NoId}]]

\* An answer ends a handler and keeps the types of pc and resp.
LEMMA TypeAnswer ==
  ASSUME TypeOK, NEW t \in Txns, NEW code \in Codes, NEW id \in PayoutIds \cup {NoId},
         Answer(t, code, id)
  PROVE  AnswerType
  BY DEF TypeOK, Answer, AnswerType, Labels

\* Moving a handler to another label keeps the types of pc and resp.
LEMMA TypeGoto ==
  ASSUME TypeOK, NEW t \in Txns, NEW label \in Labels, Goto(t, label)
  PROVE  AnswerType
  BY DEF TypeOK, Goto, AnswerType

\* A request's step moves only its own handler and transaction.
LEMMA RequestFrame ==
  ASSUME TypeOK, NEW r \in Requests, RequestStep(r) \/ ApplyRequest(r)
  PROVE  /\ op' = op
         /\ \A t \in Txns \ {r} : pc'[t] = pc[t] /\ txn'[t] = txn[t]
  BY DEF TypeOK, RequestStep, ApplyRequest, Start, Replay, Precheck, Begin, Reserve, Insert,
         Duplicate, Verify, RequestCommitted, RequestCommitUnknown, Resolve,
         Answer, Goto, SetTxn, userVars, flowVars

\* Every step of requestPayout keeps the types.
LEMMA TypeRequest ==
  ASSUME TypeInv, NEW r \in Requests, RequestStep(r) \/ ApplyRequest(r)
  PROVE  TypeInv'
  <1>1. \A a \in AdminOps : AdminControl(a)'
    BY RequestFrame DEF TypeInv, AdminControl, Txns
  <1>2. TypeOK'
    <2> USE DEF TypeInv, TypeOK, AnswerType, Txns, userVars, flowVars, SetTxn
    <2>1. CASE Start(r)
      <3>1. AnswerType
        BY <2>1, TypeGoto, TypeAnswer DEF Start, Labels, Codes
      <3>2. replayOf' \in [Requests -> PayoutIds \cup {NoId}]
        BY <2>1 DEF Start, Tagged
      <3>3. QED
        BY <2>1, <3>1, <3>2 DEF Start
    <2>2. CASE Replay(r)
      <3>1. AnswerType
        BY <2>2, TypeGoto, TypeAnswer DEF Replay, Resolve, Tagged, Labels, Codes
      <3>2. QED
        BY <2>2, <3>1 DEF Replay, Resolve
    <2>3. CASE Precheck(r)
      <3>1. AnswerType
        BY <2>3, TypeGoto, TypeAnswer DEF Precheck, Labels, Codes
      <3>2. QED
        BY <2>3, <3>1 DEF Precheck
    <2>4. CASE Begin(r)
      <3>1. AnswerType
        BY <2>4, TypeGoto, TypeAnswer DEF Begin, Labels, Codes
      <3>2. QED
        BY <2>4, <3>1, ZenonT(40) DEF Begin
    <2>5. CASE Reserve(r)
      <3>1. AnswerType
        BY <2>5, TypeGoto, TypeAnswer DEF Reserve, Labels, Codes
      <3>2. QED
        BY <2>5, <3>1 DEF Reserve
    <2>6. CASE Insert(r)
      <3>1. AnswerType
        BY <2>6, TypeGoto, TypeAnswer DEF Insert, Labels, Codes
      <3>2. QED
        BY <2>6, <3>1 DEF Insert
    <2>7. CASE Duplicate(r)
      <3>1. AnswerType
        BY <2>7, TypeGoto, TypeAnswer DEF Duplicate, Resolve, Tagged, Labels, Codes
      <3>2. QED
        BY <2>7, <3>1 DEF Duplicate, Resolve
    <2>8. CASE Verify(r)
      <3>1. AnswerType
        BY <2>8, TypeGoto, TypeAnswer DEF Verify, Resolve, Tagged, Labels, Codes
      <3>2. QED
        BY <2>8, <3>1 DEF Verify, Resolve
    <2>9. CASE RequestCommitted(r)
      <3>1. AnswerType
        BY <2>9, TypeGoto, TypeAnswer DEF RequestCommitted, PayoutIds, Labels, Codes
      <3>2. QED
        BY <2>9, <3>1 DEF RequestCommitted
    <2>10. CASE RequestCommitUnknown(r)
      <3>1. AnswerType
        BY <2>10, TypeGoto, TypeAnswer DEF RequestCommitUnknown, Labels, Codes
      <3>2. QED
        BY <2>10, <3>1 DEF RequestCommitUnknown
    <2>11. CASE ApplyRequest(r)
      BY <2>11 DEF ApplyRequest, StaleAfterWrite
    <2>12. QED
      BY <2>1, <2>2, <2>3, <2>4, <2>5, <2>6, <2>7, <2>8, <2>9, <2>10, <2>11 DEF RequestStep
  <1>3. QED
    BY <1>1, <1>2 DEF TypeInv

\* A staff call's step moves only its own handler and transaction.
LEMMA AdminFrame ==
  ASSUME TypeOK, NEW a \in AdminOps, AdminStep(a) \/ ApplyAdmin(a)
  PROVE  \A b \in Txns \ {a} :
           /\ pc'[b] = pc[b] /\ txn'[b] = txn[b]
           /\ b \in AdminOps => op'[b] = op[b]
  BY DEF TypeOK, AdminStep, ApplyAdmin, Submit, CompareAndSwap, Refund, AdminCommitted,
         AdminCommitUnknown, Audit, Answer, Goto, SetTxn, userVars, flowVars

\* A staff call is idle or knows its payout, whatever label it moves to.
LEMMA AdminControlStep ==
  ASSUME TypeInv, NEW a \in AdminOps, AdminStep(a) \/ ApplyAdmin(a)
  PROVE  AdminControl(a)'
  <1> USE DEF TypeInv, TypeOK, AdminControl, Txns, userVars, flowVars, SetTxn, Goto, Answer
  <1>1. ASSUME NEW act \in Actions, NEW id \in PayoutIds, Submit(a, act, id)
        PROVE  AdminControl(a)'
    <2>1. op'[a] # NoOp
      BY <1>1 DEF Submit, NoOp, Actions
    <2>2. QED
      BY <1>1, <2>1 DEF Submit
  <1>2. CASE CompareAndSwap(a)
    BY <1>2 DEF CompareAndSwap
  <1>3. CASE Refund(a)
    BY <1>3 DEF Refund
  <1>4. CASE AdminCommitted(a)
    BY <1>4 DEF AdminCommitted
  <1>5. CASE AdminCommitUnknown(a)
    BY <1>5 DEF AdminCommitUnknown
  <1>6. CASE Audit(a)
    BY <1>6 DEF Audit
  <1>7. CASE ApplyAdmin(a)
    BY <1>7 DEF ApplyAdmin
  <1>8. QED
    BY <1>1, <1>2, <1>3, <1>4, <1>5, <1>6, <1>7 DEF AdminStep

\* A credit keeps the balances natural numbers.
LEMMA CreditType ==
  ASSUME NEW f \in [Creators -> Nat], NEW c \in Creators, NEW n \in Nat
  PROVE  [f EXCEPT ![c] = @ + n] \in [Creators -> Nat]
  OBVIOUS

\* Every step of updatePayout keeps the types.
LEMMA TypeAdmin ==
  ASSUME TypeInv, NEW a \in AdminOps, AdminStep(a) \/ ApplyAdmin(a)
  PROVE  TypeInv'
  <1>1. \A b \in AdminOps : AdminControl(b)'
    BY AdminFrame, AdminControlStep DEF TypeInv, AdminControl, Txns
  <1>2. TypeOK'
    <2> USE DEF TypeInv, TypeOK, AnswerType, Txns, userVars, flowVars, SetTxn
    <2>1. ASSUME NEW act \in Actions, NEW id \in PayoutIds, Submit(a, act, id) PROVE TypeOK'
      <3>1. AnswerType
        BY <2>1, TypeGoto DEF Submit, Labels
      <3>2. QED
        BY <2>1, <3>1 DEF Submit
    <2>2. CASE CompareAndSwap(a)
      <3>1. AnswerType
        BY <2>2, TypeGoto, TypeAnswer DEF CompareAndSwap, Labels, Codes
      <3>2. QED
        BY <2>2, <3>1 DEF CompareAndSwap
    <2>3. CASE Refund(a)
      <3>1. AnswerType
        BY <2>3, TypeGoto, TypeAnswer DEF Refund, Labels, Codes
      <3>2. QED
        BY <2>3, <3>1 DEF Refund
    <2>4. CASE AdminCommitted(a)
      <3>1. AnswerType
        BY <2>4, TypeGoto, TypeAnswer DEF AdminCommitted, Labels, Codes
      <3>2. QED
        BY <2>4, <3>1 DEF AdminCommitted
    <2>5. CASE AdminCommitUnknown(a)
      <3>1. AnswerType
        BY <2>5, TypeGoto, TypeAnswer DEF AdminCommitUnknown, Labels, Codes
      <3>2. QED
        BY <2>5, <3>1 DEF AdminCommitUnknown
    <2>6. CASE Audit(a)
      <3>1. AnswerType
        BY <2>6, TypeGoto, TypeAnswer DEF Audit, AdminControl, Labels, Codes
      <3>2. QED
        BY <2>6, <3>1 DEF Audit
    <2>7. CASE ApplyAdmin(a)
      <3> DEFINE id == op[a].payout
      <3>1. op[a] \in [action : Actions, payout : PayoutIds]
        BY <2>7 DEF ApplyAdmin, AdminControl
      <3>2. id \in PayoutIds /\ CreatorOf(id) \in Creators
        BY <3>1, PayoutIdsShape
      <3>3. NextStatus[op[a].action] \in {"approved", "rejected", "paid"}
        BY <3>1 DEF Actions, NextStatus
      <3>4. payouts' \in [PayoutIds ->
              [amount : Nat, status : {"none", "pending", "approved", "rejected", "paid"}]]
        BY <2>7, <3>2, <3>3 DEF ApplyAdmin
      <3>5. earnings' \in [Creators -> Nat] /\ paidOut' \in [Creators -> Nat]
        <4>1. payouts[id].amount \in Nat
          BY <3>2
        <4>2. /\ earnings' \in {earnings, [earnings EXCEPT ![CreatorOf(id)] = @ + payouts[id].amount]}
              /\ paidOut' \in {paidOut, [paidOut EXCEPT ![CreatorOf(id)] = @ + payouts[id].amount]}
          BY <2>7 DEF ApplyAdmin
        <4>3. [earnings EXCEPT ![CreatorOf(id)] = @ + payouts[id].amount] \in [Creators -> Nat]
          BY <3>2, <4>1, CreditType, Zenon
        <4>4. [paidOut EXCEPT ![CreatorOf(id)] = @ + payouts[id].amount] \in [Creators -> Nat]
          BY <3>2, <4>1, CreditType, Zenon
        <4>5. QED
          BY <4>2, <4>3, <4>4, Zenon
      <3>6. QED
        BY <2>7, <3>4, <3>5 DEF ApplyAdmin, StaleAfterWrite
    <2>8. QED
      BY <2>1, <2>2, <2>3, <2>4, <2>5, <2>6, <2>7 DEF AdminStep
  <1>3. QED
    BY <1>1, <1>2 DEF TypeInv

\* The steps both handlers share (retries, errors, crashes) keep the types.
LEMMA TypeShared ==
  ASSUME TypeInv, NEW t \in Txns,
         SharedStep(t) \/ AbortCommit(t) \/ DbError(t) \/ Crash(t)
  PROVE  TypeInv'
  <1>1. \A a \in AdminOps : AdminControl(a)'
    BY DEF TypeInv, TypeOK, SharedStep, CommitTransient, Rerun, NextAttempt, AbortCommit, DbError,
           Crash, AdminControl, Txns, userVars, flowVars, SetTxn, Goto, Answer
  <1>2. TypeOK'
    <2> USE DEF TypeInv, TypeOK, AnswerType, userVars, flowVars, SetTxn
    <2>1. CASE CommitTransient(t)
      <3>1. AnswerType
        BY <2>1, TypeGoto, TypeAnswer DEF CommitTransient, Labels, Codes
      <3>2. QED
        BY <2>1, <3>1 DEF CommitTransient
    <2>2. CASE Rerun(t)
      <3>1. AnswerType
        BY <2>2, TypeGoto, TypeAnswer DEF Rerun, Labels, Codes
      <3>2. QED
        BY <2>2, <3>1 DEF Rerun
    <2>3. CASE NextAttempt(t)
      <3>1. AnswerType
        BY <2>3, TypeGoto, TypeAnswer DEF NextAttempt, Labels, Codes
      <3>2. QED
        BY <2>3, <3>1 DEF NextAttempt
    <2>4. CASE AbortCommit(t)
      <3>1. AnswerType
        BY <2>4, TypeGoto, TypeAnswer DEF AbortCommit, Labels, Codes
      <3>2. QED
        BY <2>4, <3>1 DEF AbortCommit
    <2>5. CASE DbError(t)
      <3>1. AnswerType
        BY <2>5, TypeGoto, TypeAnswer DEF DbError, Labels, Codes
      <3>2. QED
        BY <2>5, <3>1 DEF DbError
    <2>6. CASE Crash(t)
      <3>1. AnswerType
        BY <2>6, TypeGoto, TypeAnswer DEF Crash, Labels, Codes
      <3>2. QED
        BY <2>6, <3>1 DEF Crash
    <2>7. QED
      BY <2>1, <2>2, <2>3, <2>4, <2>5, <2>6 DEF SharedStep
  <1>3. QED
    BY <1>1, <1>2 DEF TypeInv

\* Every step keeps the types.
LEMMA TypeNext == TypeInv /\ [Next]_vars => TypeInv'
  <1>1. CASE UNCHANGED vars
    BY <1>1 DEF vars, TypeInv, TypeOK, AdminControl
  <1>2. QED
    BY <1>1, TypePlatform, TypeRequest, TypeAdmin, TypeShared DEF Next

\* Every variable keeps its type, and a staff call has named a payout before it
\* opens a transaction.
THEOREM TypeCorrect == Spec => []TypeInv
  BY TypeInit, TypeNext, PTL DEF Spec

\* Type correctness as the runs check it: every variable keeps its type.
COROLLARY TypesHold == Spec => []TypeOK
  BY TypeCorrect, PTL DEF TypeInv
-----------------------------------------------------------------------------
(***************************************************************************)
(* Isolation.                                                              *)
(***************************************************************************)
Isolation == TypeInv /\ CommitsActOnCurrentState

\* A step of t that writes nothing, takes no lock and opens no transaction.
QuietStep(t) ==
  /\ UNCHANGED <<earnings, payouts, op>>
  /\ \A r \in Requests : r \in stale' <=> r \in stale
  /\ \A r \in Requests : seen'[r] = seen[r] \/ (r = t /\ txn'[t] = "none")
  /\ \A u \in Txns \ {t} : pc'[u] = pc[u] /\ txn'[u] = txn[u]
  /\ txn'[t] \in {txn[t], "aborted"}
  /\ txn'[t] # "wrote"
  /\ t \in Requests => pc'[t] \notin {"idle", "reserve", "insert"}

\* A step that touches neither the database nor the progress of a transaction
\* keeps the isolation invariant.
LEMMA QuietIsolated ==
  ASSUME Isolation, TypeInv', NEW t \in Txns, QuietStep(t)
  PROVE  Isolation'
  <1> USE DEF Isolation, CommitsActOnCurrentState, QuietStep
  <1>1. \A u \in Txns, c \in Creators : HoldsUser(u, c)' => HoldsUser(u, c)
    BY DEF HoldsUser
  <1>2. \A a \in AdminOps, id \in PayoutIds : HoldsPayout(a, id)' => HoldsPayout(a, id)
    BY DEF HoldsPayout, Txns
  <1>3. UserLockExclusive' /\ PayoutLockExclusive'
    BY <1>1, <1>2 DEF UserLockExclusive, PayoutLockExclusive
  <1>4. \A r \in Requests : RequestControl(r)'
    BY DEF RequestControl, Txns
  <1>5. \A r \in Requests : RequestIsCurrent(r)'
    BY DEF RequestIsCurrent, ActiveIds, Txns
  <1>6. \A a \in AdminOps : AdminIsCurrent(a)'
    BY DEF AdminIsCurrent, Txns
  <1>7. QED
    BY <1>3, <1>4, <1>5, <1>6 DEF TypeInv

\* Initially no transaction runs, so isolation holds.
LEMMA IsolationInit == Init => Isolation
  <1> SUFFICES ASSUME Init PROVE Isolation
    OBVIOUS
  <1>1. UserLockExclusive /\ PayoutLockExclusive
    BY DEF Init, UserLockExclusive, PayoutLockExclusive, HoldsUser, HoldsPayout, Txns
  <1>2. \A r \in Requests : RequestControl(r) /\ RequestIsCurrent(r)
    BY DEF Init, RequestControl, RequestIsCurrent, Txns
  <1>3. \A a \in AdminOps : AdminIsCurrent(a)
    BY DEF Init, AdminIsCurrent, Txns
  <1>4. QED
    BY <1>1, <1>2, <1>3, TypeInit DEF Isolation, CommitsActOnCurrentState, TypeInv

\* The steps of a request that are quiet.
LEMMA QuietRequestSteps ==
  ASSUME Isolation, TypeInv', NEW r \in Requests,
         \/ Start(r) \/ Replay(r) \/ Precheck(r) \/ Duplicate(r) \/ Verify(r)
         \/ RequestCommitted(r) \/ RequestCommitUnknown(r)
  PROVE  Isolation'
  <1>1. RequestControl(r)
    BY DEF Isolation, CommitsActOnCurrentState
  <1>2. QuietStep(r)
    <2> USE <1>1 DEF Isolation, TypeInv, TypeOK, RequestControl, QuietStep, Answer, Goto,
        userVars, flowVars, Txns
    <2>1. CASE Start(r)
      <3>1. /\ pc[r] = "idle" /\ UNCHANGED <<earnings, payouts, txn, stale, op>>
            /\ seen' \in {seen, [seen EXCEPT ![r] = earnings[Owner[r]]]}
            /\ \E l \in {"replay", "precheck", "done"} : pc' = [pc EXCEPT ![r] = l]
        BY <2>1 DEF Start
      <3>2. txn[r] = "none"
        BY <3>1
      <3>3. QED
        BY <3>1, <3>2
    <2>2. CASE Replay(r)
      BY <2>2 DEF Replay, Resolve
    <2>3. CASE Precheck(r)
      BY <2>3 DEF Precheck
    <2>4. CASE Duplicate(r)
      BY <2>4 DEF Duplicate, Resolve
    <2>5. CASE Verify(r)
      BY <2>5 DEF Verify, Resolve
    <2>6. CASE RequestCommitted(r)
      BY <2>6 DEF RequestCommitted
    <2>7. CASE RequestCommitUnknown(r)
      BY <2>7 DEF RequestCommitUnknown
    <2>8. QED
      BY <2>1, <2>2, <2>3, <2>4, <2>5, <2>6, <2>7
  <1>3. QED
    BY <1>2, QuietIsolated DEF Txns

\* Begin gives the request a snapshot in which nothing is pending.
LEMMA BeginIsolated ==
  ASSUME Isolation, TypeInv', NEW r \in Requests, Begin(r)
  PROVE  Isolation'
  <1> USE DEF Isolation, CommitsActOnCurrentState, TypeInv, TypeOK
  <1>1. CASE UNCHANGED <<txn, stale, seen>> /\ Answer(r, "refused", NoId)
    <2>1. QuietStep(r)
      BY <1>1 DEF Begin, QuietStep, Answer, userVars, RequestControl, Txns
    <2>2. QED
      BY <2>1, QuietIsolated DEF Txns
  <1>2. CASE /\ ActiveIds(Owner[r]) = {} /\ Goto(r, "reserve") /\ SetTxn(r, "open")
             /\ stale' = stale \ {r}
             /\ seen' = [seen EXCEPT ![r] = earnings[Owner[r]]]
    <2> USE <1>2 DEF Begin, userVars, Goto, SetTxn
    <2>1. \A u \in Txns, c \in Creators : HoldsUser(u, c)' => HoldsUser(u, c)
      BY DEF HoldsUser
    <2>2. \A a \in AdminOps, id \in PayoutIds : HoldsPayout(a, id)' => HoldsPayout(a, id)
      BY DEF HoldsPayout, Txns
    <2>3. UserLockExclusive' /\ PayoutLockExclusive'
      BY <2>1, <2>2 DEF UserLockExclusive, PayoutLockExclusive
    <2>4. \A s \in Requests : RequestControl(s)'
      BY DEF RequestControl, Txns
    <2>5. \A s \in Requests : RequestIsCurrent(s)'
      BY DEF RequestIsCurrent, ActiveIds, Txns
    <2>6. \A a \in AdminOps : AdminIsCurrent(a)'
      BY DEF AdminIsCurrent, Txns
    <2>7. QED
      BY <2>3, <2>4, <2>5, <2>6
  <1>3. QED
    BY <1>1, <1>2 DEF Begin

\* A reservation takes the user document only when it is free and the snapshot
\* current, and then the balance it read is the balance.
LEMMA ReserveIsolated ==
  ASSUME Isolation, TypeInv', NEW r \in Requests, Reserve(r)
  PROVE  Isolation'
  <1> USE DEF Isolation, CommitsActOnCurrentState, TypeInv, TypeOK
  <1>1. CASE pc'[r] # "insert"
    <2>1. QuietStep(r)
      BY <1>1 DEF Reserve, QuietStep, Answer, Goto, SetTxn, userVars, flowVars, Txns
    <2>2. QED
      BY <2>1, QuietIsolated DEF Txns
  <1>2. CASE pc'[r] = "insert"
    <2>1. /\ pc[r] = "reserve" /\ seen[r] >= MinPayout /\ r \notin stale /\ UserFree(Owner[r])
          /\ pc' = [pc EXCEPT ![r] = "insert"] /\ txn' = [txn EXCEPT ![r] = "wrote"]
          /\ UNCHANGED <<earnings, payouts, seen, op, stale>>
      BY <1>2 DEF Reserve, Answer, Goto, SetTxn, userVars, flowVars, Txns
    <2>2. \A u \in Txns, c \in Creators :
            HoldsUser(u, c)' => HoldsUser(u, c) \/ (u = r /\ c = Owner[r])
      BY <2>1 DEF HoldsUser, Txns
    <2>3. UserLockExclusive'
      <3>1. \A u \in Txns : ~HoldsUser(u, Owner[r])
        BY <2>1 DEF UserFree
      <3>2. SUFFICES ASSUME NEW c \in Creators, NEW u \in Txns, NEW v \in Txns,
                            HoldsUser(u, c)', HoldsUser(v, c)'
                     PROVE  u = v
        BY DEF UserLockExclusive
      <3>3. CASE c = Owner[r]
        BY <2>2, <3>1, <3>2, <3>3
      <3>4. CASE c # Owner[r]
        BY <2>2, <3>2, <3>4 DEF UserLockExclusive
      <3>5. QED
        BY <3>3, <3>4
    <2>4. PayoutLockExclusive'
      BY <2>1 DEF PayoutLockExclusive, HoldsPayout, Txns
    <2>5. \A s \in Requests : RequestControl(s)'
      BY <2>1 DEF RequestControl, Txns
    <2>6. \A s \in Requests : RequestIsCurrent(s)'
      BY <2>1 DEF RequestIsCurrent, ActiveIds, Txns
    <2>7. \A a \in AdminOps : AdminIsCurrent(a)'
      BY <2>1 DEF AdminIsCurrent, Txns
    <2>8. QED
      BY <2>3, <2>4, <2>5, <2>6, <2>7
  <1>3. QED
    BY <1>1, <1>2

\* The insert of the payout changes nothing that a commit rests on.
LEMMA InsertIsolated ==
  ASSUME Isolation, TypeInv', NEW r \in Requests, Insert(r)
  PROVE  Isolation'
  <1> USE DEF Isolation, CommitsActOnCurrentState, TypeInv, TypeOK
  <1>1. CASE txn'[r] # "committing"
    <2>1. QuietStep(r)
      BY <1>1 DEF Insert, QuietStep, Goto, SetTxn, userVars, flowVars, Txns
    <2>2. QED
      BY <2>1, QuietIsolated DEF Txns
  <1>2. CASE txn'[r] = "committing"
    <2>1. /\ pc[r] = "insert" /\ txn[r] = "wrote"
          /\ pc' = [pc EXCEPT ![r] = "commit"] /\ txn' = [txn EXCEPT ![r] = "committing"]
          /\ UNCHANGED <<earnings, payouts, seen, op, stale>>
      BY <1>2 DEF Insert, Goto, SetTxn, userVars, flowVars, Txns, RequestControl
    <2>2. \A u \in Txns, c \in Creators : HoldsUser(u, c)' => HoldsUser(u, c)
      BY <2>1 DEF HoldsUser, Txns
    <2>3. UserLockExclusive'
      BY <2>2 DEF UserLockExclusive
    <2>4. PayoutLockExclusive'
      BY <2>1 DEF PayoutLockExclusive, HoldsPayout, Txns
    <2>5. \A s \in Requests : RequestControl(s)'
      BY <2>1 DEF RequestControl, Txns
    <2>6. \A s \in Requests : RequestIsCurrent(s)'
      BY <2>1 DEF RequestIsCurrent, ActiveIds, Txns
    <2>7. \A a \in AdminOps : AdminIsCurrent(a)'
      BY <2>1 DEF AdminIsCurrent, Txns
    <2>8. QED
      BY <2>3, <2>4, <2>5, <2>6, <2>7
  <1>3. QED
    BY <1>1, <1>2

\* A commit on the user document of c finds no other holder of it, and outdates
\* the open snapshots of it.
LEMMA WriterIsAlone ==
  ASSUME Isolation, NEW c \in Creators, NEW s \in Requests, Owner[s] = c, UserFree(c),
         stale' = StaleAfterWrite(c)
  PROVE  /\ txn[s] \notin {"wrote", "committing"}
         /\ pc[s] = "reserve" => s \in stale'
  BY DEF Isolation, CommitsActOnCurrentState, RequestControl, UserFree, HoldsUser,
         StaleAfterWrite, Target, Txns

\* A credit or a deletion of a user outdates the open snapshots of that user.
LEMMA PlatformIsolated ==
  ASSUME Isolation, TypeInv', NEW c \in Creators, Platform(c)
  PROVE  Isolation'
  <1>1. /\ UNCHANGED <<pc, txn, seen, op>>
        /\ UserFree(c)
        /\ stale' = StaleAfterWrite(c)
        /\ \A d \in Creators \ {c} : earnings'[d] = earnings[d]
    BY DEF Platform, Credit, HardDeleteUser, DeleteUserAccount, DropUser, Isolation, TypeInv, TypeOK
  <1>2. \A id \in PayoutIds : \/ payouts'[id] = payouts[id]
                              \/ CreatorOf(id) = c /\ PayoutFree(id)
    BY DEF Platform, Credit, HardDeleteUser, DeleteUserAccount
  <1>3. UserLockExclusive' /\ PayoutLockExclusive'
    BY <1>1 DEF Isolation, CommitsActOnCurrentState, UserLockExclusive, PayoutLockExclusive,
       HoldsUser, HoldsPayout
  <1>4. \A s \in Requests : RequestControl(s)'
    BY <1>1 DEF Isolation, CommitsActOnCurrentState, RequestControl
  <1>5. ASSUME NEW s \in Requests PROVE RequestIsCurrent(s)'
    <2>1. CASE Owner[s] = c
      BY <1>1, <2>1, WriterIsAlone DEF Isolation, CommitsActOnCurrentState, RequestIsCurrent
    <2>2. CASE Owner[s] # c
      <3>1. s \in stale' <=> s \in stale
        BY <1>1, <2>2 DEF StaleAfterWrite, Target
      <3>2. ActiveIds(Owner[s])' = ActiveIds(Owner[s])
        BY <1>2, <2>2 DEF ActiveIds
      <3>3. earnings'[Owner[s]] = earnings[Owner[s]]
        BY <1>1, <2>2
      <3>4. QED
        BY <1>1, <3>1, <3>2, <3>3 DEF Isolation, CommitsActOnCurrentState, RequestIsCurrent
    <2>3. QED
      BY <2>1, <2>2
  <1>6. ASSUME NEW a \in AdminOps PROVE AdminIsCurrent(a)'
    <2>1. CASE txn[a] \in {"wrote", "committing"}
      <3>1. op[a].payout \in PayoutIds /\ HoldsPayout(a, op[a].payout)
        BY <2>1 DEF Isolation, TypeInv, TypeOK, AdminControl, HoldsPayout
      <3>2. payouts'[op[a].payout] = payouts[op[a].payout]
        BY <1>2, <3>1 DEF PayoutFree
      <3>3. QED
        BY <1>1, <3>2 DEF Isolation, CommitsActOnCurrentState, AdminIsCurrent
    <2>2. CASE txn[a] \notin {"wrote", "committing"}
      BY <1>1, <2>2 DEF AdminIsCurrent
    <2>3. QED
      BY <2>1, <2>2
  <1>7. QED
    BY <1>3, <1>4, <1>5, <1>6 DEF Isolation, CommitsActOnCurrentState, TypeInv

\* The commit of a request: it was the only holder of its user document, and no
\* payout of that creator was active, so no staff call was acting on one.
LEMMA ApplyRequestIsolated ==
  ASSUME Isolation, TypeInv', NEW r \in Requests, ApplyRequest(r)
  PROVE  Isolation'
  <1> DEFINE new == <<r, attempt[r]>>
  <1> USE DEF Isolation, CommitsActOnCurrentState
  <1>1. /\ txn[r] = "committing" /\ txn' = [txn EXCEPT ![r] = "applied"]
        /\ new \in PayoutIds /\ CreatorOf(new) = Owner[r]
        /\ UNCHANGED <<pc, seen, op>> /\ stale' = StaleAfterWrite(Owner[r])
        /\ \A c \in Creators \ {Owner[r]} : earnings'[c] = earnings[c]
        /\ \A id \in PayoutIds \ {new} : payouts'[id] = payouts[id]
    BY DEF ApplyRequest, SetTxn, TypeInv, TypeOK, PayoutIds, CreatorOf
  <1>2. ActiveIds(Owner[r]) = {}
    BY <1>1 DEF RequestIsCurrent
  <1>3. /\ \A u \in Txns, c \in Creators : HoldsUser(u, c)' => HoldsUser(u, c)
        /\ \A a \in AdminOps, id \in PayoutIds : HoldsPayout(a, id)' => HoldsPayout(a, id)
    BY <1>1 DEF HoldsUser, HoldsPayout, TypeInv, TypeOK, Txns
  <1>4. UserLockExclusive' /\ PayoutLockExclusive'
    BY <1>3 DEF UserLockExclusive, PayoutLockExclusive
  <1>5. \A s \in Requests : RequestControl(s)'
    BY <1>1 DEF RequestControl, TypeInv, TypeOK, Txns
  <1>6. ASSUME NEW s \in Requests PROVE RequestIsCurrent(s)'
    <2>1. CASE s = r
      <3>1. txn'[r] = "applied" /\ pc'[r] # "reserve"
        BY <1>1 DEF RequestControl, TypeInv, TypeOK, Txns
      <3>2. QED
        BY <2>1, <3>1 DEF RequestIsCurrent
    <2>2. CASE s # r /\ Owner[s] = Owner[r]
      <3>1. txn[s] \notin {"wrote", "committing"}
        BY <1>1, <2>2 DEF UserLockExclusive, HoldsUser, Txns
      <3>2. txn'[s] = txn[s]
        BY <1>1, <2>2 DEF TypeInv, TypeOK, Txns
      <3>3. pc'[s] = "reserve" => s \in stale'
        BY <1>1, <2>2 DEF RequestControl, StaleAfterWrite, Target, Txns
      <3>4. QED
        BY <3>1, <3>2, <3>3 DEF RequestIsCurrent
    <2>3. CASE Owner[s] # Owner[r]
      <3>1. s \in stale' <=> s \in stale
        BY <1>1, <2>3 DEF StaleAfterWrite, Target
      <3>2. ActiveIds(Owner[s])' = ActiveIds(Owner[s])
        BY <1>1, <2>3 DEF ActiveIds
      <3>3. earnings'[Owner[s]] = earnings[Owner[s]] /\ txn'[s] = txn[s]
        BY <1>1, <2>3 DEF TypeInv, TypeOK, Txns
      <3>4. QED
        BY <1>1, <3>1, <3>2, <3>3 DEF RequestIsCurrent
    <2>4. QED
      BY <2>1, <2>2, <2>3
  <1>7. ASSUME NEW a \in AdminOps PROVE AdminIsCurrent(a)'
    <2>1. txn'[a] = txn[a]
      BY <1>1, RequestAssumption DEF TypeInv, TypeOK, Txns
    <2>2. CASE txn[a] \in {"wrote", "committing"}
      <3>1. op[a] \in [action : Actions, payout : PayoutIds]
        BY <2>2 DEF TypeInv, TypeOK, AdminControl
      <3>2. payouts[op[a].payout].status \in {"pending", "approved"}
        BY <2>2, <3>1 DEF AdminIsCurrent, ExpectedStatus, Actions
      <3>3. op[a].payout # new
        BY <1>1, <1>2, <3>2 DEF ActiveIds
      <3>4. QED
        BY <1>1, <2>1, <3>1, <3>3 DEF AdminIsCurrent
    <2>3. QED
      BY <2>1, <2>2 DEF AdminIsCurrent
  <1>8. QED
    BY <1>4, <1>5, <1>6, <1>7 DEF TypeInv

\* A staff call that won its compare-and-swap holds the payout alone.
LEMMA CompareAndSwapIsolated ==
  ASSUME Isolation, TypeInv', NEW a \in AdminOps, CompareAndSwap(a)
  PROVE  Isolation'
  <1> USE DEF Isolation, CommitsActOnCurrentState, TypeInv, TypeOK
  <1>1. CASE txn'[a] \notin {"wrote", "committing"}
    <2>1. /\ txn' = [txn EXCEPT ![a] = "aborted"]
          /\ \E l \in {"retry", "done"} : pc' = [pc EXCEPT ![a] = l]
          /\ UNCHANGED <<earnings, payouts, seen, op>> /\ stale' = stale \ {a}
      BY <1>1 DEF CompareAndSwap, Answer, Goto, SetTxn, userVars, Txns
    <2>2. QuietStep(a)
      BY <2>1, RequestAssumption DEF QuietStep, Txns
    <2>3. QED
      BY <2>2, QuietIsolated DEF Txns
  <1>2. CASE txn'[a] \in {"wrote", "committing"}
    <2> DEFINE id == op[a].payout
    <2>1. /\ pc[a] = "begin" /\ PayoutFree(id)
          /\ payouts[id].status = ExpectedStatus[op[a].action]
          /\ \/ /\ op[a].action = "reject" /\ pc' = [pc EXCEPT ![a] = "refund"]
                /\ txn' = [txn EXCEPT ![a] = "wrote"]
             \/ /\ op[a].action # "reject" /\ pc' = [pc EXCEPT ![a] = "commit"]
                /\ txn' = [txn EXCEPT ![a] = "committing"]
          /\ UNCHANGED <<earnings, payouts, seen, op>> /\ stale' = stale \ {a}
      BY <1>2 DEF CompareAndSwap, Answer, Goto, SetTxn, userVars, Txns
    <2>2. a \in Txns /\ a \notin Requests
      BY RequestAssumption DEF Txns
    <2>3. \A u \in Txns \ {a} : pc'[u] = pc[u] /\ txn'[u] = txn[u]
      BY <2>1
    <2>4. \A u \in Txns, c \in Creators : HoldsUser(u, c)' => HoldsUser(u, c)
      BY <2>1, <2>2, <2>3 DEF HoldsUser
    <2>5. UserLockExclusive'
      BY <2>4 DEF UserLockExclusive
    <2>6. \A b \in AdminOps \ {a}, i \in PayoutIds : HoldsPayout(b, i)' => HoldsPayout(b, i)
      BY <2>1, <2>3 DEF HoldsPayout, Txns
    <2>7. \A i \in PayoutIds : HoldsPayout(a, i)' => \A b \in AdminOps : ~HoldsPayout(b, i)
      BY <2>1 DEF HoldsPayout, PayoutFree
    <2>8. PayoutLockExclusive'
      <3>1. SUFFICES ASSUME NEW i \in PayoutIds, NEW b \in AdminOps, NEW d \in AdminOps,
                            HoldsPayout(b, i)', HoldsPayout(d, i)'
                     PROVE  b = d
        BY DEF PayoutLockExclusive
      <3>2. CASE b # a /\ d # a
        BY <2>6, <3>1, <3>2 DEF PayoutLockExclusive
      <3>3. CASE b = a \/ d = a
        BY <2>6, <2>7, <3>1, <3>3
      <3>4. QED
        BY <3>2, <3>3
    <2>9. \A s \in Requests : RequestControl(s)' /\ RequestIsCurrent(s)'
      BY <2>1, <2>2, <2>3 DEF RequestControl, RequestIsCurrent, ActiveIds, Txns
    <2>10. \A b \in AdminOps : AdminIsCurrent(b)'
      BY <2>1, <2>3 DEF AdminIsCurrent, Txns
    <2>11. QED
      BY <2>5, <2>8, <2>9, <2>10
  <1>3. QED
    BY <1>1, <1>2

\* A refund takes the user document of the payout's creator when it is free.
LEMMA RefundIsolated ==
  ASSUME Isolation, TypeInv', NEW a \in AdminOps, Refund(a)
  PROVE  Isolation'
  <1> USE DEF Isolation, CommitsActOnCurrentState, TypeInv, TypeOK
  <1>1. CASE txn'[a] # "committing"
    <2>1. QuietStep(a)
      BY <1>1 DEF Refund, QuietStep, Answer, Goto, SetTxn, userVars, flowVars, Txns
    <2>2. QED
      BY <2>1, QuietIsolated DEF Txns
  <1>2. CASE txn'[a] = "committing"
    <2> DEFINE c == CreatorOf(op[a].payout)
    <2>1. /\ pc[a] = "refund" /\ UserFree(c)
          /\ pc' = [pc EXCEPT ![a] = "commit"] /\ txn' = [txn EXCEPT ![a] = "committing"]
          /\ UNCHANGED <<earnings, payouts, seen, op, stale>>
      BY <1>2 DEF Refund, Answer, Goto, SetTxn, userVars, flowVars, Txns
    <2>2. a \in Txns /\ a \notin Requests /\ txn[a] = "wrote"
      BY <2>1, RequestAssumption DEF Txns, AdminControl
    <2>3. \A u \in Txns \ {a} : pc'[u] = pc[u] /\ txn'[u] = txn[u]
      BY <2>1
    <2>4. \A u \in Txns, d \in Creators :
            HoldsUser(u, d)' => HoldsUser(u, d) \/ (u = a /\ d = c)
      BY <2>1, <2>2, <2>3 DEF HoldsUser
    <2>5. UserLockExclusive'
      <3>1. \A u \in Txns : ~HoldsUser(u, c)
        BY <2>1 DEF UserFree
      <3>2. SUFFICES ASSUME NEW d \in Creators, NEW u \in Txns, NEW v \in Txns,
                            HoldsUser(u, d)', HoldsUser(v, d)'
                     PROVE  u = v
        BY DEF UserLockExclusive
      <3>3. CASE d = c
        BY <2>4, <3>1, <3>2, <3>3
      <3>4. CASE d # c
        BY <2>4, <3>2, <3>4 DEF UserLockExclusive
      <3>5. QED
        BY <3>3, <3>4
    <2>6. \A b \in AdminOps, i \in PayoutIds : HoldsPayout(b, i)' => HoldsPayout(b, i)
      BY <2>1, <2>2, <2>3 DEF HoldsPayout, Txns
    <2>7. PayoutLockExclusive'
      BY <2>6 DEF PayoutLockExclusive
    <2>8. \A s \in Requests : RequestControl(s)' /\ RequestIsCurrent(s)'
      BY <2>1, <2>2, <2>3 DEF RequestControl, RequestIsCurrent, ActiveIds, Txns
    <2>9. \A b \in AdminOps : AdminIsCurrent(b)'
      BY <2>1, <2>2, <2>3 DEF AdminIsCurrent, Txns
    <2>10. QED
      BY <2>5, <2>7, <2>8, <2>9
  <1>3. QED
    BY <1>1, <1>2

\* A staff call that only arrives holds nothing yet.
LEMMA SubmitIsolated ==
  ASSUME Isolation, TypeInv', NEW a \in AdminOps, NEW act \in Actions, NEW id \in PayoutIds,
         Submit(a, act, id)
  PROVE  Isolation'
  <1> USE DEF Isolation, CommitsActOnCurrentState, TypeInv, TypeOK
  <1>1. /\ pc[a] = "idle" /\ pc' = [pc EXCEPT ![a] = "begin"]
        /\ \A b \in AdminOps \ {a} : op'[b] = op[b]
        /\ UNCHANGED <<earnings, payouts, seen, txn, stale>>
    BY DEF Submit, Goto, userVars
  <1>2. a \in Txns /\ a \notin Requests /\ txn[a] = "none"
    BY <1>1, RequestAssumption DEF Txns, AdminControl
  <1>3. /\ \A u \in Txns, c \in Creators : HoldsUser(u, c)' => HoldsUser(u, c)
        /\ \A b \in AdminOps, i \in PayoutIds : HoldsPayout(b, i)' => HoldsPayout(b, i)
    BY <1>1, <1>2 DEF HoldsUser, HoldsPayout
  <1>4. UserLockExclusive' /\ PayoutLockExclusive'
    BY <1>3 DEF UserLockExclusive, PayoutLockExclusive
  <1>5. \A s \in Requests : RequestControl(s)' /\ RequestIsCurrent(s)'
    BY <1>1, <1>2 DEF RequestControl, RequestIsCurrent, ActiveIds, Txns
  <1>6. \A b \in AdminOps : AdminIsCurrent(b)'
    BY <1>1, <1>2 DEF AdminIsCurrent
  <1>7. QED
    BY <1>4, <1>5, <1>6

\* The commit of a staff call: the payout it moves was active, so no request of
\* that creator can commit any more; and no other staff call holds it.
LEMMA ApplyAdminIsolated ==
  ASSUME Isolation, TypeInv', NEW a \in AdminOps, ApplyAdmin(a)
  PROVE  Isolation'
  <1> DEFINE id == op[a].payout
  <1> DEFINE c == CreatorOf(id)
  <1> USE DEF Isolation, CommitsActOnCurrentState
  <1>1. /\ txn[a] = "committing" /\ txn' = [txn EXCEPT ![a] = "applied"]
        /\ UNCHANGED <<pc, seen, op>> /\ stale' \in {stale, StaleAfterWrite(c)}
        /\ \A d \in Creators \ {c} : earnings'[d] = earnings[d]
        /\ \A i \in PayoutIds \ {id} : payouts'[i] = payouts[i]
    BY DEF ApplyAdmin, SetTxn, TypeInv, TypeOK
  <1>2. a \in Txns /\ a \notin Requests /\ pc[a] # "refund"
    BY <1>1, RequestAssumption DEF Txns, AdminControl, TypeInv
  <1>3. \A u \in Txns \ {a} : txn'[u] = txn[u]
    BY <1>1 DEF TypeInv, TypeOK
  <1>4. op[a] \in [action : Actions, payout : PayoutIds]
    BY <1>1, <1>2 DEF TypeInv, TypeOK, AdminControl
  <1>5. id \in ActiveIds(c)
    BY <1>1, <1>4 DEF AdminIsCurrent, ExpectedStatus, Actions, ActiveIds
  <1>6. /\ \A u \in Txns, d \in Creators : HoldsUser(u, d)' => HoldsUser(u, d)
        /\ \A b \in AdminOps, i \in PayoutIds : HoldsPayout(b, i)' => HoldsPayout(b, i)
    BY <1>1 DEF HoldsUser, HoldsPayout, TypeInv, TypeOK, Txns
  <1>7. UserLockExclusive' /\ PayoutLockExclusive'
    BY <1>6 DEF UserLockExclusive, PayoutLockExclusive
  <1>8. \A s \in Requests : RequestControl(s)'
    BY <1>1, <1>2, <1>3 DEF RequestControl, Txns
  <1>9. ASSUME NEW s \in Requests PROVE RequestIsCurrent(s)'
    <2>1. s \in stale => s \in stale'
      BY <1>1 DEF StaleAfterWrite
    <2>2. txn'[s] = txn[s]
      BY <1>2, <1>3 DEF Txns
    <2>3. CASE Owner[s] = c
      BY <1>1, <1>5, <2>1, <2>2, <2>3 DEF RequestIsCurrent
    <2>4. CASE Owner[s] # c
      <3>1. ActiveIds(Owner[s])' = ActiveIds(Owner[s])
        BY <1>1, <2>4 DEF ActiveIds
      <3>2. earnings'[Owner[s]] = earnings[Owner[s]]
        BY <1>1, <2>4 DEF TypeInv, TypeOK
      <3>3. QED
        BY <1>1, <2>1, <2>2, <3>1, <3>2 DEF RequestIsCurrent
    <2>5. QED
      BY <2>3, <2>4
  <1>10. ASSUME NEW b \in AdminOps PROVE AdminIsCurrent(b)'
    <2>1. CASE b = a
      BY <1>1, <1>2, <2>1 DEF AdminIsCurrent, TypeInv, TypeOK
    <2>2. CASE b # a /\ txn[b] \in {"wrote", "committing"}
      <3>1. op[b].payout \in PayoutIds
        BY <2>2 DEF TypeInv, TypeOK, AdminControl
      <3>2. op[b].payout # id
        BY <1>1, <1>4, <2>2 DEF PayoutLockExclusive, HoldsPayout
      <3>3. QED
        BY <1>1, <1>3, <2>2, <3>1, <3>2 DEF AdminIsCurrent, Txns
    <2>3. CASE b # a /\ txn[b] \notin {"wrote", "committing"}
      BY <1>1, <1>3, <2>3 DEF AdminIsCurrent, Txns
    <2>4. QED
      BY <2>1, <2>2, <2>3
  <1>11. QED
    BY <1>7, <1>8, <1>9, <1>10 DEF TypeInv

\* Every step of updatePayout keeps isolation.
LEMMA AdminIsolated ==
  ASSUME Isolation, TypeInv', NEW a \in AdminOps, AdminStep(a) \/ ApplyAdmin(a)
  PROVE  Isolation'
  <1>1. CASE AdminCommitted(a) \/ AdminCommitUnknown(a) \/ Audit(a)
    <2>1. QuietStep(a)
      BY <1>1 DEF AdminCommitted, AdminCommitUnknown, Audit, Isolation, TypeInv, TypeOK, AdminControl,
                  QuietStep, Answer, Goto, userVars, flowVars, Txns
    <2>2. QED
      BY <2>1, QuietIsolated DEF Txns
  <1>2. QED
    BY <1>1, SubmitIsolated, CompareAndSwapIsolated, RefundIsolated, ApplyAdminIsolated DEF AdminStep

\* Retries, errors, aborts and crashes only give documents back.
LEMMA SharedIsolated ==
  ASSUME Isolation, TypeInv', NEW t \in Txns,
         SharedStep(t) \/ AbortCommit(t) \/ DbError(t) \/ Crash(t)
  PROVE  Isolation'
  <1> USE DEF Isolation, CommitsActOnCurrentState, TypeInv, TypeOK
  <1>1. /\ txn[t] = "wrote" => pc[t] \in {"insert", "refund"}
        /\ t \in Requests /\ txn[t] = "committing" => pc[t] \notin {"idle", "reserve", "insert"}
        /\ pc[t] = "commit" \/ pc[t] = "retry" => txn[t] # "wrote"
    BY DEF RequestControl, AdminControl, Txns
  <1>2. QuietStep(t)
    <2> USE <1>1 DEF QuietStep, Answer, Goto, SetTxn, userVars, flowVars
    <2>1. CASE CommitTransient(t)
      BY <2>1 DEF CommitTransient
    <2>2. CASE Rerun(t)
      BY <2>2 DEF Rerun
    <2>3. CASE NextAttempt(t)
      BY <2>3 DEF NextAttempt
    <2>4. CASE AbortCommit(t)
      BY <2>4 DEF AbortCommit
    <2>5. CASE DbError(t)
      BY <2>5 DEF DbError
    <2>6. CASE Crash(t)
      BY <2>6 DEF Crash
    <2>7. QED
      BY <2>1, <2>2, <2>3, <2>4, <2>5, <2>6 DEF SharedStep
  <1>3. QED
    BY <1>2, QuietIsolated

\* Every step keeps isolation.
LEMMA IsolationNext == Isolation /\ TypeInv' /\ [Next]_vars => Isolation'
  <1> SUFFICES ASSUME Isolation, TypeInv', [Next]_vars PROVE Isolation'
    OBVIOUS
  <1>1. CASE UNCHANGED vars
    BY <1>1 DEF vars, Isolation, CommitsActOnCurrentState, UserLockExclusive, PayoutLockExclusive,
                HoldsUser, HoldsPayout, RequestControl, RequestIsCurrent, ActiveIds, AdminControl,
                AdminIsCurrent
  <1>2. ASSUME NEW r \in Requests, RequestStep(r) \/ ApplyRequest(r) PROVE Isolation'
    BY <1>2, QuietRequestSteps, BeginIsolated, ReserveIsolated, InsertIsolated, ApplyRequestIsolated
    DEF RequestStep
  <1>3. QED
    BY <1>1, <1>2, PlatformIsolated, AdminIsolated, SharedIsolated DEF Next

\* However the handlers interleave, retry, crash or lose their commit's answer, a
\* transaction that can still commit acted on the current balance and status.
THEOREM CommitsAreCurrent == Spec => []CommitsActOnCurrentState
  <1>1. Isolation /\ TypeInv /\ [Next]_vars => Isolation'
    BY TypeNext, IsolationNext
  <1>2. Spec => []Isolation
    BY <1>1, IsolationInit, TypeCorrect, PTL DEF Spec
  <1>3. QED
    BY <1>2, PTL DEF Isolation
-----------------------------------------------------------------------------
(***************************************************************************)
(* Safety.                                                                 *)
(***************************************************************************)
Safety == AtMostOneActivePayout /\ EarningsConserved

\* Only the two commits and the deletion of an account write payouts.
LEMMA PayoutFrame ==
  ASSUME [Next]_vars,
         \A c \in Creators : ~Platform(c),
         \A r \in Requests : ~ApplyRequest(r),
         \A a \in AdminOps : ~ApplyAdmin(a)
  PROVE  UNCHANGED <<userVars, payouts, paidOut>>
  <1>1. ASSUME NEW r \in Requests, RequestStep(r) PROVE UNCHANGED <<userVars, payouts, paidOut>>
    BY <1>1 DEF RequestStep, Start, Replay, Precheck, Begin, Reserve, Insert, Duplicate, Verify,
                RequestCommitted, RequestCommitUnknown
  <1>2. ASSUME NEW a \in AdminOps, AdminStep(a) PROVE UNCHANGED <<userVars, payouts, paidOut>>
    BY <1>2 DEF AdminStep, Submit, CompareAndSwap, Refund, AdminCommitted, AdminCommitUnknown, Audit
  <1>3. ASSUME NEW t \in Txns, SharedStep(t) \/ AbortCommit(t) \/ DbError(t) \/ Crash(t)
        PROVE  UNCHANGED <<userVars, payouts, paidOut>>
    BY <1>3 DEF SharedStep, CommitTransient, Rerun, NextAttempt, AbortCommit, DbError, Crash
  <1>4. CASE UNCHANGED vars
    BY <1>4 DEF vars, userVars
  <1>5. QED
    BY <1>1, <1>2, <1>3, <1>4 DEF Next

\* Credits and deletions keep one active payout and every coin.
LEMMA SafetyPlatform ==
  ASSUME TypeInv, Safety, NEW c \in Creators, Platform(c)
  PROVE  Safety'
  <1> USE DEF Safety, TypeInv, TypeOK
  <1>1. ASSUME NEW n \in Credits, Credit(c, n) PROVE Safety'
    <2>1. n \in Nat
      BY BoundAssumption
    <2>2. \A d \in Creators : ActiveIds(d)' = ActiveIds(d)
      BY <1>1 DEF Credit, ActiveIds
    <2>3. AtMostOneActivePayout'
      BY <2>2 DEF AtMostOneActivePayout
    <2>4. \A d \in Creators : \/ d = c /\ earned'[d] = earned[d] + n /\ earnings'[d] = earnings[d] + n
                              \/ d # c /\ earned'[d] = earned[d] /\ earnings'[d] = earnings[d]
      BY <1>1 DEF Credit
    <2>5. EarningsConserved'
      BY <1>1, <2>1, <2>2, <2>4 DEF Credit, EarningsConserved, ActiveIds
    <2>6. QED
      BY <2>3, <2>5
  <1>2. CASE HardDeleteUser(c) \/ DeleteUserAccount(c)
    <2>1. /\ ~exists'[c] /\ UNCHANGED <<earned, paidOut>>
          /\ \A d \in Creators \ {c} : exists'[d] = exists[d] /\ earnings'[d] = earnings[d]
      BY <1>2 DEF HardDeleteUser, DeleteUserAccount, DropUser
    <2>2. \A id \in PayoutIds :
            payouts'[id] = payouts[id] \/ (CreatorOf(id) = c /\ payouts'[id] = NoPayout)
      BY <1>2 DEF HardDeleteUser, DeleteUserAccount
    <2>3. \A d \in Creators : ActiveIds(d)' \subseteq ActiveIds(d)
      BY <2>2 DEF ActiveIds, NoPayout
    <2>4. \A d \in Creators \ {c} : ActiveIds(d)' = ActiveIds(d)
      BY <2>2 DEF ActiveIds
    <2>5. AtMostOneActivePayout'
      BY <2>3 DEF AtMostOneActivePayout
    <2>6. ASSUME NEW d \in Creators \ {c}, NEW id \in ActiveIds(d)
          PROVE  payouts'[id] = payouts[id]
      BY <2>2 DEF ActiveIds
    <2>7. EarningsConserved'
      <3>1. ASSUME NEW d \in Creators \ {c}, exists'[d]
            PROVE  /\ ActiveIds(d)' = {} => earned'[d] = earnings'[d] + paidOut'[d]
                   /\ \A id \in ActiveIds(d)' :
                        earned'[d] = earnings'[d] + payouts'[id].amount + paidOut'[d]
        <4>1. /\ ActiveIds(d) = {} => earned[d] = earnings[d] + paidOut[d]
              /\ \A id \in ActiveIds(d) : earned[d] = earnings[d] + payouts[id].amount + paidOut[d]
          BY <2>1, <3>1 DEF EarningsConserved
        <4>2. earned'[d] = earned[d] /\ earnings'[d] = earnings[d] /\ paidOut'[d] = paidOut[d]
          BY <2>1
        <4>3. QED
          BY <2>4, <2>6, <4>1, <4>2
      <3>2. QED
        BY <2>1, <3>1 DEF EarningsConserved
    <2>8. QED
      BY <2>5, <2>7
  <1>3. QED
    BY <1>1, <1>2 DEF Platform

\* The reservation moves the whole balance into the one payout it inserts.
LEMMA SafetyApplyRequest ==
  ASSUME Isolation, Safety, NEW r \in Requests, ApplyRequest(r)
  PROVE  Safety'
  <1> DEFINE c == Owner[r]
  <1> USE DEF Safety, Isolation, TypeInv, TypeOK
  <1>0. r \in Txns /\ attempt[r] \in 1..MaxRetries /\ c \in Creators
    BY DEF Txns
  <1>a. PICK new \in PayoutIds : new = <<r, attempt[r]>>
    BY <1>0 DEF PayoutIds
  <1>1. /\ CreatorOf(new) = c
        /\ payouts'[new] = [amount |-> seen[r], status |-> "pending"]
        /\ \A id \in PayoutIds \ {new} : payouts'[id] = payouts[id]
        /\ earnings'[c] = 0 /\ \A d \in Creators \ {c} : earnings'[d] = earnings[d]
        /\ UNCHANGED <<exists, earned, paidOut>>
    BY <1>0, <1>a DEF ApplyRequest, CreatorOf
  <1>2. ActiveIds(c) = {} /\ seen[r] = earnings[c]
    BY DEF ApplyRequest, CommitsActOnCurrentState, RequestIsCurrent
  <1>3. \A id \in PayoutIds : id \in ActiveIds(c)' => id = new
    BY <1>1, <1>2 DEF ActiveIds
  <1>4. new \in ActiveIds(c)'
    BY <1>1 DEF ActiveIds
  <1>5. \A d \in Creators \ {c} : ActiveIds(d)' = ActiveIds(d)
    BY <1>1 DEF ActiveIds
  <1>6. AtMostOneActivePayout'
    <2>1. \A i, j \in ActiveIds(c)' : i = j
      BY <1>3 DEF ActiveIds
    <2>2. \A d \in Creators \ {c} : \A i, j \in ActiveIds(d)' : i = j
      BY <1>5 DEF AtMostOneActivePayout
    <2>3. QED
      BY <2>1, <2>2 DEF AtMostOneActivePayout
  <1>7. EarningsConserved'
    <2>1. ASSUME exists'[c], NEW id \in ActiveIds(c)'
          PROVE  earned'[c] = earnings'[c] + payouts'[id].amount + paidOut'[c]
      <3>1. earned[c] = earnings[c] + paidOut[c]
        BY <1>1, <1>2, <2>1 DEF EarningsConserved
      <3>2. id = new
        BY <1>3, <2>1 DEF ActiveIds
      <3>3. QED
        BY <1>1, <1>2, <3>1, <3>2
    <2>2. ASSUME NEW d \in Creators \ {c}, NEW id \in ActiveIds(d)
          PROVE  payouts'[id] = payouts[id]
      BY <1>1 DEF ActiveIds
    <2>3. ASSUME NEW d \in Creators \ {c}, exists'[d]
          PROVE  /\ ActiveIds(d)' = {} => earned'[d] = earnings'[d] + paidOut'[d]
                 /\ \A id \in ActiveIds(d)' :
                      earned'[d] = earnings'[d] + payouts'[id].amount + paidOut'[d]
      <3>1. /\ ActiveIds(d) = {} => earned[d] = earnings[d] + paidOut[d]
            /\ \A id \in ActiveIds(d) : earned[d] = earnings[d] + payouts[id].amount + paidOut[d]
        BY <1>1, <2>3 DEF EarningsConserved
      <3>2. QED
        BY <1>1, <1>5, <2>2, <3>1, SMTT(30)
    <2>4. ActiveIds(c)' # {}
      BY <1>4
    <2>5. QED
      BY <2>1, <2>3, <2>4 DEF EarningsConserved
  <1>8. QED
    BY <1>6, <1>7

\* A staff call moves the creator's one active payout: it stays reserved, goes
\* back to the balance, or is paid.
LEMMA SafetyApplyAdmin ==
  ASSUME Isolation, Safety, NEW a \in AdminOps, ApplyAdmin(a)
  PROVE  Safety'
  <1> USE DEF Safety, Isolation, TypeInv, TypeOK
  <1>1. op[a] \in [action : Actions, payout : PayoutIds]
    BY RequestAssumption DEF ApplyAdmin, AdminControl, Txns
  <1>a. PICK id \in PayoutIds : id = op[a].payout
    BY <1>1
  <1> DEFINE c == CreatorOf(id)
  <1>2. c \in Creators
    BY PayoutIdsShape
  <1>3. id \in ActiveIds(c)
    BY <1>1, <1>a DEF ApplyAdmin, CommitsActOnCurrentState, AdminIsCurrent, ExpectedStatus, Actions,
                      ActiveIds
  <1>4. /\ payouts'[id].amount = payouts[id].amount
        /\ payouts'[id].status = NextStatus[op[a].action]
        /\ \A i \in PayoutIds \ {id} : payouts'[i] = payouts[i]
        /\ UNCHANGED <<exists, earned>>
        /\ \A d \in Creators \ {c} : earnings'[d] = earnings[d] /\ paidOut'[d] = paidOut[d]
    BY <1>2, <1>a DEF ApplyAdmin
  <1>5. \A d \in Creators \ {c} : ActiveIds(d)' = ActiveIds(d)
    BY <1>4 DEF ActiveIds
  <1>6. \A i \in PayoutIds : i \in ActiveIds(c)' => i = id
    BY <1>2, <1>3, <1>4 DEF AtMostOneActivePayout, ActiveIds
  <1>7. AtMostOneActivePayout'
    <2>1. \A i, j \in ActiveIds(c)' : i = j
      BY <1>6 DEF ActiveIds
    <2>2. \A d \in Creators \ {c} : \A i, j \in ActiveIds(d)' : i = j
      BY <1>5 DEF AtMostOneActivePayout
    <2>3. QED
      BY <2>1, <2>2 DEF AtMostOneActivePayout
  <1>8. exists[c] => earned[c] = earnings[c] + payouts[id].amount + paidOut[c]
    BY <1>2, <1>3 DEF EarningsConserved
  <1>9. ASSUME exists'[c]
        PROVE  /\ ActiveIds(c)' = {} => earned'[c] = earnings'[c] + paidOut'[c]
               /\ \A i \in ActiveIds(c)' : earned'[c] = earnings'[c] + payouts'[i].amount + paidOut'[c]
    <2>1. earnings[c] \in Nat /\ paidOut[c] \in Nat /\ payouts[id].amount \in Nat
      BY <1>2
    <2>2. earned'[c] = earnings[c] + payouts[id].amount + paidOut[c]
      BY <1>4, <1>8, <1>9
    <2>3. CASE op[a].action = "approve"
      <3>1. earnings'[c] = earnings[c] /\ paidOut'[c] = paidOut[c]
        BY <1>a, <2>3 DEF ApplyAdmin
      <3>2. id \in ActiveIds(c)'
        BY <1>2, <1>4, <2>3 DEF NextStatus, ActiveIds
      <3>3. QED
        BY <1>4, <1>6, <2>2, <3>1, <3>2 DEF ActiveIds
    <2>4. CASE op[a].action = "reject"
      <3>1. earnings'[c] = earnings[c] + payouts[id].amount /\ paidOut'[c] = paidOut[c]
        BY <1>2, <1>a, <2>4 DEF ApplyAdmin
      <3>2. id \notin ActiveIds(c)'
        BY <1>4, <2>4 DEF NextStatus, ActiveIds
      <3>3. ActiveIds(c)' = {}
        BY <1>6, <3>2 DEF ActiveIds
      <3>4. QED
        BY <2>1, <2>2, <3>1, <3>3
    <2>5. CASE op[a].action = "mark_paid"
      <3>1. earnings'[c] = earnings[c] /\ paidOut'[c] = paidOut[c] + payouts[id].amount
        BY <1>2, <1>a, <2>5 DEF ApplyAdmin
      <3>2. id \notin ActiveIds(c)'
        BY <1>4, <2>5 DEF NextStatus, ActiveIds
      <3>3. ActiveIds(c)' = {}
        BY <1>6, <3>2 DEF ActiveIds
      <3>4. QED
        BY <2>1, <2>2, <3>1, <3>3
    <2>6. QED
      BY <1>1, <2>3, <2>4, <2>5 DEF Actions
  <1>10. EarningsConserved'
    <2>1. ASSUME NEW d \in Creators \ {c}, NEW i \in ActiveIds(d)
          PROVE  payouts'[i] = payouts[i]
      BY <1>4 DEF ActiveIds
    <2>2. ASSUME NEW d \in Creators \ {c}, exists'[d]
          PROVE  /\ ActiveIds(d)' = {} => earned'[d] = earnings'[d] + paidOut'[d]
                 /\ \A i \in ActiveIds(d)' :
                      earned'[d] = earnings'[d] + payouts'[i].amount + paidOut'[d]
      <3>1. /\ ActiveIds(d) = {} => earned[d] = earnings[d] + paidOut[d]
            /\ \A i \in ActiveIds(d) : earned[d] = earnings[d] + payouts[i].amount + paidOut[d]
        BY <1>4, <2>2 DEF EarningsConserved
      <3>2. earned'[d] = earned[d] /\ earnings'[d] = earnings[d] /\ paidOut'[d] = paidOut[d]
        BY <1>4
      <3>3. QED
        BY <1>5, <2>1, <3>1, <3>2
    <2>3. QED
      BY <1>9, <2>2 DEF EarningsConserved
  <1>11. QED
    BY <1>7, <1>10

\* Every step keeps one active payout and every coin.
LEMMA SafetyNext == Isolation /\ Safety /\ [Next]_vars => Safety'
  <1> SUFFICES ASSUME Isolation, Safety, [Next]_vars PROVE Safety'
    OBVIOUS
  <1>1. CASE UNCHANGED <<userVars, payouts, paidOut>>
    BY <1>1 DEF Safety, AtMostOneActivePayout, EarningsConserved, ActiveIds, userVars
  <1>2. QED
    BY <1>1, PayoutFrame, SafetyPlatform, SafetyApplyRequest, SafetyApplyAdmin DEF Isolation

\* Initially there are no payouts and no coins.
LEMMA SafetyInit == Init => Safety
  BY DEF Init, Safety, AtMostOneActivePayout, EarningsConserved, ActiveIds, NoPayout

\* A creator never has two withdrawals under way, and no coin is lost or made by a
\* reservation, a refund or a payment: for every number of creators, requests and
\* staff calls, every interleaving, retry, crash and unknown commit.
THEOREM Correctness == Spec => [](AtMostOneActivePayout /\ EarningsConserved)
  <1>1. Isolation /\ TypeInv /\ [Next]_vars => Isolation'
    BY TypeNext, IsolationNext
  <1>2. Spec => []Isolation
    BY <1>1, IsolationInit, TypeCorrect, PTL DEF Spec
  <1>3. Spec => []Safety
    BY <1>2, SafetyInit, SafetyNext, PTL DEF Spec
  <1>4. QED
    BY <1>3, PTL DEF Safety

\* A creator never has two withdrawals under way, for any number of requests,
\* staff calls and retries of requestPayout and updatePayout.
COROLLARY OneWithdrawalAtATime == Spec => []AtMostOneActivePayout
  BY Correctness, PTL

\* No coin is lost or made by requestPayout and updatePayout: what a creator ever
\* earned is the balance, plus the reserved payout, plus what was paid.
COROLLARY CoinsAreConserved == Spec => []EarningsConserved
  BY Correctness, PTL
=============================================================================
