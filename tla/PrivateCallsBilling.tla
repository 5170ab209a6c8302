------------------------ MODULE PrivateCallsBilling -------------------------
(***************************************************************************)
(* What the video calls owe and are owed, for any users, invitations,      *)
(* requests, prices and intervals: a call only moves on in its lifecycle,  *)
(* minutes are charged while it is accepted and an interval apart, a tick  *)
(* answered as billed has a minute of its own, and a first minute paid in  *)
(* advance is earned or refunded.  The inductive invariant Billing says    *)
(* what a handler on its way knows (HandlerSane, NotYetCreated) and ties   *)
(* the ledger of a call to its document (MinutesSane).                     *)
(***************************************************************************)
EXTENDS PrivateCallsProofs, FiniteSums

USE CallAssumption, NumberAssumption

Dead == Over \ {"ended"}

\* A handler that finalizes names an end; one that commits a tick has seen an
\* accepted call that could be billed; one that has answered is done.
HandlerSane(h) ==
  /\ at[h] = "finalize" => local[h].final \in Dead
  /\ at[h] = "commit" =>
       /\ local[h].seen.status = "accepted"
       /\ \/ local[h].seen.lastBilled = Never
          \/ local[h].seen.lastBilled <= local[h].now - Interval
  /\ answer[h] = "billed" => at[h] = "done"

\* The call of an invitation under way does not exist.
NotYetCreated(i) == at[i] # "done" => Status(i) = "none" /\ i \notin Debited

\* The minutes of a call are an interval apart, and lastBilledAt is no earlier.
MinutesSane(c) ==
  LET m == ledger[c].minutes IN
  /\ calls[c].lastBilled = Never => m = <<>>
  /\ calls[c].lastBilled # Never => \A k \in DOMAIN m : m[k] <= calls[c].lastBilled
  /\ \A j, k \in DOMAIN m : j < k => m[k] - m[j] >= Interval

EarnedOnce(c) ==
  ledger[c].first + ledger[c].refunds = IF Status(c) = "pending" THEN 0 ELSE 1

\* The ticks that were answered as billed.
Billed(c) == {r \in Requests : answer[r] = "billed" /\ local[r].call = c}
BilledSane(c) ==
  /\ \A r \in Billed(c) : \E k \in DOMAIN ledger[c].minutes : ledger[c].minutes[k] = local[r].now
  /\ IsFiniteSet(Billed(c)) /\ Cardinality(Billed(c)) <= Len(ledger[c].minutes)

Billing ==
  /\ TypeInv
  /\ \A h \in Handlers : HandlerSane(h)
  /\ \A i \in Invites : NotYetCreated(i)
  /\ \A c \in Invites : MinutesSane(c) /\ BilledSane(c)
  /\ \A c \in Debited : EarnedOnce(c)

\* How a call goes on, once it exists.
Onward == {<<"pending", "accepted">>, <<"accepted", "ended">>} \cup {"pending"} \X Dead

\* What every step may do to the calls: CallLifecycle and NoChargeAfterEnd.
Legal ==
  /\ \A c \in Invites : Status(c) # Status(c)' =>
       <<Status(c), Status(c)'>> \in {<<"none", "pending">>, <<"pending", "accepted">>, <<"accepted", "ended">>}
                                     \cup {"pending"} \X (Over \ {"ended"})
  /\ \A c \in Invites : Len(ledger'[c].minutes) > Len(ledger[c].minutes) => Status(c) = "accepted"

\* A step that creates no call and bills no minute.
Ordinary ==
  /\ \A c \in Invites : Status(c) # Status(c)' => <<Status(c), Status(c)'>> \in Onward
  /\ \A c \in Invites : /\ ledger'[c].minutes = ledger[c].minutes
                        /\ calls'[c].lastBilled = calls[c].lastBilled
  /\ \A c \in Debited : EarnedOnce(c) => EarnedOnce(c)'
-----------------------------------------------------------------------------
(***************************************************************************)
(* The ordinary updates of the documents.                                  *)
(***************************************************************************)
\* A step of a handler that leaves the documents alone.
LEMMA KeptOrdinary ==
  ASSUME UNCHANGED <<calls, ledger>>
  PROVE  Ordinary
  BY DEF Ordinary, Status, EarnedOnce

\* An update of one call's status.
LEMMA StatusOrdinary ==
  ASSUME StateTyped, NEW c \in Invites, NEW s \in {"none", "pending", "accepted"} \cup Over,
         calls' = [calls EXCEPT ![c].status = s]
  PROVE  /\ Status(c)' = s /\ \A d \in Invites \ {c} : Status(d)' = Status(d)
         /\ \A d \in Invites : calls'[d].lastBilled = calls[d].lastBilled
<1>1. calls[c] \in Docs /\ calls \in [Invites -> Docs]  BY DEF StateTyped
<1>2. calls'[c] = [calls[c] EXCEPT !.status = s]  BY <1>1
<1>3. calls'[c].status = s /\ calls'[c].lastBilled = calls[c].lastBilled  BY <1>1, <1>2 DEF Docs
<1>4. \A d \in Invites \ {c} : calls'[d] = calls[d]  BY <1>1
<1> QED  BY <1>3, <1>4 DEF Status

\* The refund of a charge in advance is entered once, and no minute with it.
LEMMA RefundEntered ==
  ASSUME StateTyped, NEW c \in Invites, Refund(c)
  PROVE  /\ \A d \in Invites : ledger'[d].minutes = ledger[d].minutes /\ ledger'[d].first = ledger[d].first
         /\ \A d \in Invites \ {c} : ledger'[d].refunds = ledger[d].refunds
         /\ c \in Debited /\ ledger[c].first = 0 /\ ledger[c].refunds = 0 => ledger'[c].refunds = 1
<1> DEFINE room == Cap - coins[From[c]]
           back == IF room < Price THEN room ELSE Price
<1>1. ledger \in [Invites -> Entries] /\ ledger[c] \in Entries  BY DEF StateTyped
<1>2. CASE ~(c \in Debited /\ ledger[c].first = 0 /\ ledger[c].refunds = 0)
  <2>1. ledger' = ledger  BY <1>2 DEF Refund, money
  <2> QED  BY <1>2, <2>1
<1>3. CASE c \in Debited /\ ledger[c].first = 0 /\ ledger[c].refunds = 0
  <2>1. ledger' = [ledger EXCEPT ![c].refunds = @ + 1, ![c].back = @ + back]
    BY <1>3 DEF Refund
  <2> HIDE DEF back
  <2>2. ledger'[c] = [ledger[c] EXCEPT !.refunds = @ + 1, !.back = @ + back]
    BY <1>1, <2>1
  <2>3. /\ ledger'[c].minutes = ledger[c].minutes /\ ledger'[c].first = ledger[c].first
        /\ ledger'[c].refunds = ledger[c].refunds + 1
    BY <1>1, <2>2 DEF Entries
  <2>4. \A d \in Invites \ {c} : ledger'[d] = ledger[d]  BY <1>1, <2>1
  <2> QED  BY <1>3, <2>3, <2>4
<1> QED  BY <1>2, <1>3

\* finalizePendingCall refunds what was paid in advance, and nothing else.
LEMMA FinalizeOrdinary ==
  ASSUME StateTyped, NEW c \in Invites, NEW final \in Dead, Finalize(c, final)
  PROVE  Ordinary
<1>1. CASE Status(c) # "pending"
  BY <1>1, KeptOrdinary DEF Finalize, money
<1>2. CASE Status(c) = "pending"
  <2>1. calls' = [calls EXCEPT ![c].status = final] /\ Refund(c)  BY <1>2 DEF Finalize
  <2>2. /\ Status(c)' = final /\ \A d \in Invites \ {c} : Status(d)' = Status(d)
        /\ \A d \in Invites : calls'[d].lastBilled = calls[d].lastBilled
    BY <2>1, StatusOrdinary DEF Dead
  <2>3. /\ \A d \in Invites : ledger'[d].minutes = ledger[d].minutes /\ ledger'[d].first = ledger[d].first
        /\ \A d \in Invites \ {c} : ledger'[d].refunds = ledger[d].refunds
        /\ c \in Debited /\ ledger[c].first = 0 /\ ledger[c].refunds = 0 => ledger'[c].refunds = 1
    BY <2>1, RefundEntered
  <2>4. ASSUME NEW d \in Debited, EarnedOnce(d) PROVE EarnedOnce(d)'
    <3>1. d \in Invites /\ ledger[d].first \in Nat /\ ledger[d].refunds \in Nat
      BY DEF StateTyped, Entries
    <3>2. CASE d = c
      <4>1. ledger[c].first = 0 /\ ledger[c].refunds = 0
        BY <1>2, <2>4, <3>1, <3>2 DEF EarnedOnce
      <4>2. final # "pending"  BY DEF Dead, Over
      <4> QED  BY <2>2, <2>3, <3>2, <4>1, <4>2 DEF EarnedOnce
    <3>3. CASE d # c
      BY <2>2, <2>3, <2>4, <3>1, <3>3 DEF EarnedOnce
    <3> QED  BY <3>2, <3>3
  <2>5. <<Status(c), Status(c)'>> \in Onward  BY <1>2, <2>2 DEF Onward
  <2> QED  BY <2>2, <2>3, <2>4, <2>5 DEF Ordinary
<1> QED  BY <1>1, <1>2

\* An accepted call ends: the hang-up, the job and the expiration of a social call.
LEMMA EndOrdinary ==
  ASSUME StateTyped, NEW c \in Invites, Status(c) = "accepted", End(c)
  PROVE  Ordinary
<1>1. calls' = [calls EXCEPT ![c].status = "ended"] /\ ledger' = ledger  BY DEF End, money
<1>2. /\ Status(c)' = "ended" /\ \A d \in Invites \ {c} : Status(d)' = Status(d)
      /\ \A d \in Invites : calls'[d].lastBilled = calls[d].lastBilled
  BY <1>1, StatusOrdinary DEF Over
<1>3. \A d \in Debited : EarnedOnce(d) => EarnedOnce(d)'  BY <1>1, <1>2 DEF EarnedOnce
<1> QED  BY <1>1, <1>2, <1>3 DEF Ordinary, Onward

\* The acceptance earns the first minute of a paid call.
LEMMA ActivateOrdinary ==
  ASSUME StateTyped, NEW c \in Invites, Status(c) = "pending", Activate(c)
  PROVE  Ordinary
<1>1. calls' = [calls EXCEPT ![c].status = "accepted"]  BY DEF Activate
<1>2. /\ Status(c)' = "accepted" /\ \A d \in Invites \ {c} : Status(d)' = Status(d)
      /\ \A d \in Invites : calls'[d].lastBilled = calls[d].lastBilled
  BY <1>1, StatusOrdinary
<1>3. /\ \A d \in Invites : ledger'[d].minutes = ledger[d].minutes /\ ledger'[d].refunds = ledger[d].refunds
      /\ \A d \in Invites \ {c} : ledger'[d].first = ledger[d].first
      /\ c \in Paid => ledger'[c].first = ledger[c].first + 1
  <2>1. CASE c \notin Paid  BY <2>1 DEF Activate, money
  <2>2. CASE c \in Paid
    <3>1. ledger' = [ledger EXCEPT ![c].first = @ + 1]  BY <2>2 DEF Activate
    <3>2. ledger \in [Invites -> Entries] /\ ledger[c] \in Entries  BY DEF StateTyped
    <3>3. ledger'[c] = [ledger[c] EXCEPT !.first = @ + 1]  BY <3>1, <3>2
    <3>4. /\ ledger'[c].minutes = ledger[c].minutes /\ ledger'[c].refunds = ledger[c].refunds
          /\ ledger'[c].first = ledger[c].first + 1
      BY <3>2, <3>3 DEF Entries
    <3>5. \A d \in Invites \ {c} : ledger'[d] = ledger[d]  BY <3>1, <3>2
    <3> QED  BY <3>4, <3>5
  <2> QED  BY <2>1, <2>2
<1>4. ASSUME NEW d \in Debited, EarnedOnce(d) PROVE EarnedOnce(d)'
  <2>1. d \in Paid /\ d \in Invites /\ ledger[d].first \in Nat /\ ledger[d].refunds \in Nat
    BY DEF StateTyped, Entries
  <2>2. CASE d = c  BY <1>2, <1>3, <1>4, <2>1, <2>2 DEF EarnedOnce
  <2>3. CASE d # c  BY <1>2, <1>3, <1>4, <2>1, <2>3 DEF EarnedOnce
  <2> QED  BY <2>2, <2>3
<1> QED  BY <1>2, <1>3, <1>4 DEF Ordinary, Onward
-----------------------------------------------------------------------------
(***************************************************************************)
(* The steps.                                                              *)
(***************************************************************************)
\* A handler that a step leaves alone.
Left(k) == at'[k] = at[k] /\ local'[k] = local[k] /\ answer'[k] = answer[k]

\* A handler that a step takes on, short of a bill.
Taken(k) == at[k] # "done" /\ answer'[k] # "billed" /\ HandlerSane(k)'

\* What is known stays known over an ordinary step of any handler.
LEMMA OrdinaryKeeps ==
  ASSUME Billing, TypeInv', Ordinary, \A k \in Handlers : Left(k) \/ Taken(k)
  PROVE  Billing' /\ Legal
<1> USE DEF Billing
<1>1. ASSUME NEW h \in Handlers PROVE HandlerSane(h)'
  BY DEF HandlerSane, Left, Taken
<1>2. ASSUME NEW i \in Invites PROVE NotYetCreated(i)'
  <2>1. i \in Handlers  BY DEF Handlers
  <2>2. at'[i] # "done" => at[i] # "done"  BY <2>1 DEF Left, Taken
  <2>3. Status(i) = "none" => Status(i)' = "none"
    BY DEF Ordinary, Onward
  <2> QED  BY <2>2, <2>3 DEF NotYetCreated
<1>3. ASSUME NEW c \in Invites PROVE MinutesSane(c)' /\ BilledSane(c)'
  <2>1. ledger'[c].minutes = ledger[c].minutes /\ calls'[c].lastBilled = calls[c].lastBilled
    BY DEF Ordinary
  <2>2. MinutesSane(c)'  BY <2>1 DEF MinutesSane
  <2>3. ASSUME NEW r \in Requests
        PROVE  /\ answer'[r] = "billed" <=> answer[r] = "billed"
               /\ answer[r] = "billed" => local'[r] = local[r]
    <3>1. r \in Handlers  BY DEF Handlers
    <3> QED  BY <3>1 DEF HandlerSane, Left, Taken
  <2>4. Billed(c)' = Billed(c) /\ \A r \in Billed(c) : local'[r] = local[r]
    BY <2>3 DEF Billed
  <2>5. BilledSane(c)  OBVIOUS
  <2> QED  BY <2>1, <2>2, <2>4, <2>5 DEF BilledSane
<1>4. \A c \in Debited : EarnedOnce(c)'  BY DEF Ordinary
<1>5. Legal
  <2>1. \A c \in Invites : ~(Len(ledger'[c].minutes) > Len(ledger[c].minutes))
    <3>1. ASSUME NEW c \in Invites PROVE ~(Len(ledger'[c].minutes) > Len(ledger[c].minutes))
      <4>0. ledger[c] \in Entries  BY DEF TypeInv, StateTyped
      <4>1. Len(ledger[c].minutes) \in Nat  BY <4>0 DEF Entries, Minutes
      <4>2. ledger'[c].minutes = ledger[c].minutes  BY DEF Ordinary
      <4> QED  BY <4>1, <4>2
    <3> QED  BY <3>1
  <2> QED  BY <2>1 DEF Legal, Ordinary, Onward, Dead
<1> QED  BY <1>1, <1>2, <1>3, <1>4, <1>5

\* Moving a handler on, or answering, leaves the others alone.
LEMMA MoveLeaves ==
  ASSUME HandlersTyped, NEW h \in Handlers,
         \/ UNCHANGED local
         \/ \E v : local' = [local EXCEPT ![h] = v],
         \/ UNCHANGED <<at, answer>>
         \/ \E label \in Labels : Goto(h, label)
         \/ \E code \in Codes : Reply(h, code)
  PROVE  \A k \in Handlers \ {h} : Left(k)
  BY DEF HandlersTyped, Goto, Reply, Put, Left

\* An answer, and a move to a label where nothing is to be known.
LEMMA MoveTakes ==
  ASSUME HandlersTyped, NEW h \in Handlers, at[h] # "done", HandlerSane(h),
         \/ UNCHANGED <<at, answer>> /\ at[h] \notin {"finalize", "commit"}
         \/ \E label \in Labels \ {"finalize", "commit"} : Goto(h, label)
         \/ \E code \in Codes \ {"billed"} : Reply(h, code)
  PROVE  Taken(h)
<1>1. answer[h] # "billed"  BY DEF HandlerSane
<1>2. answer'[h] # "billed" /\ at'[h] \notin {"finalize", "commit"}
  BY <1>1 DEF HandlersTyped, Goto, Reply, Put, Labels
<1> QED  BY <1>2 DEF Taken, HandlerSane

\* The steps of an invitation, but for the creation.
LEMMA InviteBills ==
  ASSUME Billing, TypeInv', NEW i \in Invites,
         List(i) \/ Sift(i) \/ Afford(i) \/ Replace(i) \/ Drop(i)
  PROVE  Billing' /\ Legal
<1>0. TypeInv /\ StateTyped /\ HandlersTyped /\ i \in Handlers
      /\ HandlerSane(i)
  BY DEF Billing, TypeInv, Handlers
<1>1. at[i] # "done" /\ at[i] \notin {"finalize", "commit"}
  BY DEF List, Sift, Afford, Replace, Drop
<1>2. \/ UNCHANGED <<at, answer>>
      \/ \E label \in Labels \ {"finalize", "commit"} : Goto(i, label)
      \/ \E code \in Codes \ {"billed"} : Reply(i, code)
  BY DEF List, Sift, Afford, Replace, Drop, Labels, Codes
<1>3. UNCHANGED local \/ \E v : local' = [local EXCEPT ![i] = v]
  BY DEF List, Sift, Afford, Replace, Drop
<1>4. Taken(i)  BY <1>0, <1>1, <1>2, MoveTakes
<1>5. \A k \in Handlers \ {i} : Left(k)
  BY <1>0, <1>2, <1>3, MoveLeaves
<1>6. Ordinary
  <2>1. CASE List(i) \/ Afford(i) \/ Replace(i)
    BY <2>1, KeptOrdinary DEF List, Afford, Replace, money
  <2>2. CASE Sift(i) \/ Drop(i)
    <3>1. \/ UNCHANGED <<calls, ledger>>
          \/ \E f \in local[i].found : Finalize(f[1], "timeout") \/ Finalize(f[1], "missed")
      BY <2>2 DEF Sift, Drop, money
    <3>2. \A f \in local[i].found : f[1] \in Invites
      BY <1>0 DEF HandlersTyped, Notes
    <3>3. {"timeout", "missed"} \subseteq Dead  BY DEF Dead, Over
    <3> QED  BY <1>0, <3>1, <3>2, <3>3, KeptOrdinary, FinalizeOrdinary
  <2> QED  BY <2>1, <2>2
<1> QED  BY <1>4, <1>5, <1>6, OrdinaryKeeps
\* The creation of a call, whose handler is then done.
LEMMA CreateBills ==
  ASSUME Billing, TypeInv', NEW i \in Invites, Create(i)
  PROVE  Billing' /\ Legal
<1> USE DEF Billing
<1>0. /\ TypeInv /\ StateTyped /\ HandlersTyped /\ i \in Handlers /\ HandlerSane(i)
      /\ at[i] = "create" /\ Status(i) = "none" /\ i \notin Debited
  BY DEF TypeInv, Handlers, Create, NotYetCreated
<1>1. /\ \E code \in Codes \ {"billed"} : Reply(i, code)
      /\ local' = local /\ ledger' = ledger
  BY DEF Create, Codes, money
<1>2. Taken(i) /\ \A k \in Handlers \ {i} : Left(k)
  <2>1. Taken(i)  BY <1>0, <1>1, MoveTakes
  <2>2. \E code \in Codes : Reply(i, code)  BY <1>1
  <2> QED  BY <1>0, <1>1, <2>1, <2>2, MoveLeaves
<1>3. CASE calls' = calls
  BY <1>1, <1>2, <1>3, KeptOrdinary, OrdinaryKeeps
<1>4. CASE calls' = [calls EXCEPT ![i].status = "pending"]
  <2>1. /\ Status(i)' = "pending" /\ \A d \in Invites \ {i} : Status(d)' = Status(d)
        /\ \A d \in Invites : calls'[d].lastBilled = calls[d].lastBilled
    BY <1>0, <1>4, StatusOrdinary
  <2>2. \A h \in Handlers : HandlerSane(h)'
    BY <1>2 DEF HandlerSane, Left, Taken
  <2>3. at'[i] = "done"  BY <1>0, <1>1 DEF HandlersTyped, Reply, Put
  <2>4. ASSUME NEW d \in Invites PROVE NotYetCreated(d)'
    <3>1. d \in Handlers  BY DEF Handlers
    <3> QED  BY <1>2, <2>1, <2>3, <3>1 DEF NotYetCreated, Left
  <2>5. ASSUME NEW c \in Invites PROVE MinutesSane(c)' /\ BilledSane(c)'
    <3>1. MinutesSane(c)'  BY <1>1, <2>1 DEF MinutesSane
    <3>2. \A r \in Requests : answer'[r] = answer[r]
      <4>1. \A r \in Requests : r \in Handlers /\ r # i  BY DEF Handlers
      <4> QED  BY <1>2, <4>1 DEF Left
    <3>3. Billed(c)' = Billed(c)  BY <1>1, <3>2 DEF Billed
    <3> QED  BY <1>1, <3>1, <3>3 DEF BilledSane
  <2>6. \A c \in Debited : EarnedOnce(c)'
    BY <1>0, <1>1, <2>1 DEF EarnedOnce
  <2>7. Legal
    <3>1. \A c \in Invites : Len(ledger[c].minutes) \in Nat
      BY <1>0, SMTT(30) DEF StateTyped, Entries, Minutes
    <3>2. \A c \in Invites : ~(Len(ledger'[c].minutes) > Len(ledger[c].minutes))
      BY <1>1, <3>1
    <3> QED  BY <1>0, <2>1, <3>2 DEF Legal
  <2> QED  BY <2>2, <2>4, <2>5, <2>6, <2>7
<1> QED  BY <1>3, <1>4 DEF Create

\* The steps of respondCall, endCall and the reads.
LEMMA RequestBills ==
  ASSUME Billing, TypeInv', NEW r \in Requests,
         Start(r) \/ Read(r) \/ Conclude(r) \/ Hangup(r) \/ Accept(r)
  PROVE  Billing' /\ Legal
<1>0. TypeInv /\ StateTyped /\ HandlersTyped /\ r \in Handlers /\ HandlerSane(r)
      /\ local[r].call \in Invites
  BY DEF Billing, TypeInv, Handlers, HandlersTyped, Notes
<1>1. at[r] # "done"  BY DEF Start, Read, Conclude, Hangup, Accept
<1>2. (\E label \in Labels : Goto(r, label)) \/ (\E code \in Codes \ {"billed"} : Reply(r, code))
  BY DEF Start, Read, Conclude, Hangup, Accept, Labels, Codes
<1>3. UNCHANGED local \/ \E v : local' = [local EXCEPT ![r] = v]
  BY DEF Start, Read, Conclude, Hangup, Accept
<1>4. \A k \in Handlers \ {r} : Left(k)
  <2>1. (\E label \in Labels : Goto(r, label)) \/ (\E code \in Codes : Reply(r, code))  BY <1>2
  <2> QED  BY <1>0, <1>3, <2>1, MoveLeaves
<1>5. Taken(r)
  <2>1. CASE \/ \E label \in Labels \ {"finalize", "commit"} : Goto(r, label)
             \/ \E code \in Codes \ {"billed"} : Reply(r, code)
    BY <1>0, <1>1, <2>1, MoveTakes
  <2>2. CASE Goto(r, "finalize") \/ Goto(r, "commit")
    <3>1. Read(r) /\ Goto(r, "finalize")
      BY <1>0, <2>2 DEF Start, Read, Conclude, Hangup, Accept, Goto, Reply, Put, HandlersTyped
    <3>2. \E final \in Dead : local' = [local EXCEPT ![r].final = final]
      BY <1>0, <3>1 DEF Read, Goto, Reply, Put, HandlersTyped, Dead, Over
    <3>3. local'[r].final \in Dead  BY <1>0, <3>2 DEF HandlersTyped, Notes
    <3>4. at'[r] = "finalize" /\ answer' = answer  BY <1>0, <3>1 DEF Goto, Put, HandlersTyped
    <3> QED  BY <1>0, <1>1, <3>3, <3>4 DEF Taken, HandlerSane
  <2> QED  BY <1>2, <2>1, <2>2
<1>6. Ordinary
  <2>1. CASE Start(r) \/ Read(r)
    BY <2>1, KeptOrdinary DEF Start, Read, money
  <2>2. CASE Conclude(r)
    <3>1. local[r].final \in Dead  BY <1>0, <2>2 DEF Conclude, HandlerSane
    <3> QED  BY <1>0, <2>2, <3>1, KeptOrdinary, FinalizeOrdinary DEF Conclude, money
  <2>3. CASE Hangup(r)
    BY <1>0, <2>3, KeptOrdinary, EndOrdinary DEF Hangup, money
  <2>4. CASE Accept(r)
    BY <1>0, <2>4, KeptOrdinary, ActivateOrdinary DEF Accept, money
  <2> QED  BY <2>1, <2>2, <2>3, <2>4
<1> QED  BY <1>4, <1>5, <1>6, OrdinaryKeeps

\* Deadlines, the job, the clock and the rest of the platform.
LEMMA PlatformBills ==
  ASSUME Billing, TypeInv',
         \/ \E c \in Invites : Deadline(c) \/ Job(c)
         \/ \E u \in Payers : Other(u)
         \/ Tock
         \/ UNCHANGED vars
  PROVE  Billing' /\ Legal
<1>0. StateTyped  BY DEF Billing, TypeInv
<1>1. UNCHANGED <<at, local, answer>>  BY DEF Deadline, Job, Other, Tock, vars
<1>2. \A k \in Handlers : Left(k)  BY <1>1 DEF Left
<1>3. Ordinary
  <2>1. ASSUME NEW c \in Invites, Job(c) PROVE Ordinary
    <3>1. "timeout" \in Dead  BY DEF Dead, Over
    <3> QED  BY <1>0, <2>1, <3>1, FinalizeOrdinary, EndOrdinary DEF Job
  <2>2. CASE (\E c \in Invites : Deadline(c)) \/ (\E u \in Payers : Other(u)) \/ Tock \/ UNCHANGED vars
    BY <2>2, KeptOrdinary DEF Deadline, Other, Tock, vars, money
  <2> QED  BY <2>1, <2>2
<1> QED  BY <1>2, <1>3, OrdinaryKeeps
-----------------------------------------------------------------------------
(***************************************************************************)
(* The ticks.                                                              *)
(***************************************************************************)
\* The minutes of a ledger are an interval apart, and an interval before a moment n.
Spaced(m) == \A j, k \in DOMAIN m : j < k => m[k] - m[j] >= Interval
Before(m, n) == \A k \in DOMAIN m : m[k] <= n - Interval

\* The minutes a are those of m and one at n.
LongerBy(m, n, a) ==
  /\ Len(a) = Len(m) + 1 /\ Len(m) \in Nat /\ a # <<>>
  /\ \A k \in DOMAIN m : k \in DOMAIN a /\ a[k] = m[k]
  /\ Len(a) \in DOMAIN a /\ a[Len(a)] = n
  /\ \A k \in DOMAIN a : a[k] <= n
  /\ Spaced(a)

\* A minute more, an interval after the ones before.
LEMMA OneMoreMinute ==
  ASSUME NEW m \in Minutes, NEW n \in 0..MaxClock, Before(m, n), Spaced(m)
  PROVE  LongerBy(m, n, Append(m, n))
<1> DEFINE a == Append(m, n)
<1>1. /\ m \in Seq(0..MaxClock) /\ Len(m) \in Nat /\ DOMAIN m = 1..Len(m)
      /\ \A k \in DOMAIN m : m[k] \in 0..MaxClock
  BY DEF Minutes
<1>2. /\ Len(a) = Len(m) + 1 /\ DOMAIN a = 1..(Len(m) + 1)
      /\ \A k \in 1..Len(m) : a[k] = m[k]
      /\ a[Len(m) + 1] = n
  BY <1>1
<1> HIDE DEF a
<1>3. a # <<>>  BY <1>1, <1>2
<1>4. \A k \in DOMAIN a : k \in DOMAIN m \/ k = Len(m) + 1  BY <1>1, <1>2
<1>5. \A k \in DOMAIN a : a[k] <= n  BY <1>1, <1>2, <1>4 DEF Before
<1>6. ASSUME NEW j \in DOMAIN a, NEW k \in DOMAIN a, j < k PROVE a[k] - a[j] >= Interval
  <2>1. j \in DOMAIN m  BY <1>1, <1>2, <1>6
  <2>2. CASE k \in DOMAIN m  BY <1>1, <1>2, <1>6, <2>1, <2>2 DEF Spaced
  <2>3. CASE k = Len(m) + 1
    <3>1. a[k] = n /\ a[j] = m[j] /\ m[j] \in 0..MaxClock /\ m[j] <= n - Interval
      BY <1>1, <1>2, <2>1, <2>3 DEF Before
    <3> QED  BY <3>1
  <2> QED  BY <1>4, <2>2, <2>3
<1>7. LongerBy(m, n, a)  BY <1>1, <1>2, <1>3, <1>5, <1>6 DEF LongerBy, Spaced
<1> QED  BY <1>7 DEF a

\* What a tick that commits has before it: the call that its snapshot showed, which
\* is accepted and has no minute less than an interval ago.
LEMMA TickFinds ==
  ASSUME Billing, NEW r \in Requests, at[r] = "commit", ~Conflict(r)
  PROVE  LET c == local[r].call now == local[r].now m == ledger[c].minutes IN
         /\ c \in Invites /\ now \in 0..MaxClock /\ calls[c] \in Docs /\ ledger[c] \in Entries
         /\ m \in Minutes /\ Status(c) = "accepted"
         /\ \A k \in DOMAIN m : m[k] <= now - Interval
         /\ \A j, k \in DOMAIN m : j < k => m[k] - m[j] >= Interval
         /\ answer[r] # "billed"
<1> DEFINE c == local[r].call
           now == local[r].now
           m == ledger[c].minutes
<1>0. r \in Handlers /\ HandlerSane(r) /\ local[r] \in Notes
  BY DEF Billing, TypeInv, HandlersTyped, Handlers
<1>1. c \in Invites /\ now \in 0..MaxClock  BY <1>0 DEF Notes
<1>2. calls[c] \in Docs /\ ledger[c] \in Entries /\ MinutesSane(c)
  BY <1>1 DEF Billing, TypeInv, StateTyped
<1>3. m \in Minutes  BY <1>2 DEF Entries
<1>4. calls[c] = local[r].seen  BY DEF Conflict
<1>5. /\ calls[c].status = "accepted"
      /\ calls[c].lastBilled = Never \/ calls[c].lastBilled <= now - Interval
      /\ answer[r] # "billed"
  BY <1>0, <1>4 DEF HandlerSane
<1>6. ASSUME NEW k \in DOMAIN m PROVE m[k] <= now - Interval
  <2>1. m[k] \in 0..MaxClock  BY <1>3 DEF Minutes
  <2>2. calls[c].lastBilled # Never
    <3>1. m # <<>>  OBVIOUS
    <3> QED  BY <1>2, <3>1 DEF MinutesSane
  <2>3. calls[c].lastBilled \in Int  BY <1>2 DEF Docs, Never
  <2>4. m[k] <= calls[c].lastBilled  BY <1>2, <2>2 DEF MinutesSane
  <2> QED  BY <1>1, <1>5, <2>1, <2>2, <2>3, <2>4
<1>7. \A j, k \in DOMAIN m : j < k => m[k] - m[j] >= Interval
  BY <1>2 DEF MinutesSane
<1> QED  BY <1>1, <1>2, <1>3, <1>5, <1>6, <1>7 DEF Status

\* A handler's answer to a tick, and the other handlers.
LEMMA TickAnswers ==
  ASSUME Billing, NEW r \in Requests, at[r] = "commit", UNCHANGED local,
         NEW code \in Codes, Reply(r, code)
  PROVE  /\ answer'[r] = code /\ at'[r] = "done"
         /\ \A k \in Handlers \ {r} : Left(k)
         /\ \A h \in Handlers : HandlerSane(h)'
         /\ \A i \in Invites : i # r /\ at'[i] = at[i]
         /\ \A c \in Invites :
              Billed(c)' = IF code = "billed" /\ local[r].call = c THEN Billed(c) \cup {r} ELSE Billed(c)
<1>0. r \in Handlers /\ HandlersTyped /\ HandlerSane(r)
  BY DEF Billing, TypeInv, Handlers
<1>1. answer'[r] = code /\ at'[r] = "done"  BY <1>0 DEF HandlersTyped, Reply, Put
<1>2. \A k \in Handlers \ {r} : Left(k)  BY <1>0 DEF HandlersTyped, Reply, Put, Left
<1>3. \A h \in Handlers : HandlerSane(h)'
  BY <1>1, <1>2 DEF Billing, HandlerSane, Left
<1>4. \A i \in Invites : i # r /\ at'[i] = at[i]  BY <1>2 DEF Handlers, Left
<1>5. ASSUME NEW c \in Invites
      PROVE  Billed(c)' = IF code = "billed" /\ local[r].call = c THEN Billed(c) \cup {r} ELSE Billed(c)
  <2>1. answer[r] # "billed"  BY <1>0 DEF HandlerSane
  <2>2. \A q \in Requests : answer'[q] = IF q = r THEN code ELSE answer[q]
    BY <1>1, <1>2 DEF Handlers, Left
  <2> QED  BY <2>1, <2>2 DEF Billed
<1> QED  BY <1>1, <1>2, <1>3, <1>4, <1>5

\* A tick that bills: one minute more in the ledger, one answer at most that says so.
LEMMA BillBills ==
  ASSUME Billing, TypeInv', NEW r \in Requests, at[r] = "commit", ~Conflict(r), Bill(r),
         UNCHANGED local, NEW code \in Codes, Reply(r, code)
  PROVE  Billing' /\ Legal
<1> DEFINE c == local[r].call
           now == local[r].now
           m == ledger[c].minutes
           a == Append(m, now)
<1> USE DEF Billing
<1>1. /\ c \in Invites /\ now \in 0..MaxClock /\ calls[c] \in Docs /\ ledger[c] \in Entries
      /\ m \in Minutes /\ Status(c) = "accepted"
      /\ \A k \in DOMAIN m : m[k] <= now - Interval
      /\ \A j, k \in DOMAIN m : j < k => m[k] - m[j] >= Interval
      /\ answer[r] # "billed"
  BY TickFinds
<1>2. /\ Len(a) = Len(m) + 1 /\ Len(m) \in Nat /\ a # <<>>
      /\ \A k \in DOMAIN m : k \in DOMAIN a /\ a[k] = m[k]
      /\ Len(a) \in DOMAIN a /\ a[Len(a)] = now
      /\ \A k \in DOMAIN a : a[k] <= now
      /\ \A j, k \in DOMAIN a : j < k => a[k] - a[j] >= Interval
  <2>1. m \in Minutes /\ now \in 0..MaxClock /\ Before(m, now) /\ Spaced(m)
    BY <1>1 DEF Before, Spaced
  <2>2. LongerBy(m, now, a)
    <3> HIDE DEF m, now
    <3> QED  BY <2>1, OneMoreMinute
  <2> QED  BY <2>2 DEF LongerBy, Spaced
<1>3. /\ answer'[r] = code /\ at'[r] = "done"
      /\ \A k \in Handlers \ {r} : Left(k)
      /\ \A h \in Handlers : HandlerSane(h)'
      /\ \A i \in Invites : i # r /\ at'[i] = at[i]
      /\ \A d \in Invites :
           Billed(d)' = IF code = "billed" /\ local[r].call = d THEN Billed(d) \cup {r} ELSE Billed(d)
  BY TickAnswers
<1>4. /\ calls'[c].lastBilled = now /\ \A d \in Invites : Status(d)' = Status(d)
      /\ \A d \in Invites \ {c} : calls'[d] = calls[d]
  <2>1. calls \in [Invites -> Docs]  BY DEF TypeInv, StateTyped
  <2>2. calls' = [calls EXCEPT ![c].lastBilled = now]  BY DEF Bill
  <2>3. calls'[c] = [calls[c] EXCEPT !.lastBilled = now]  BY <1>1, <2>1, <2>2
  <2>4. calls'[c].lastBilled = now /\ calls'[c].status = calls[c].status
    BY <1>1, <2>3 DEF Docs
  <2>5. \A d \in Invites \ {c} : calls'[d] = calls[d]  BY <2>1, <2>2
  <2> QED  BY <2>4, <2>5 DEF Status
<1>5. /\ ledger'[c].minutes = a /\ ledger'[c].first = ledger[c].first
      /\ ledger'[c].refunds = ledger[c].refunds
      /\ \A d \in Invites \ {c} : ledger'[d] = ledger[d]
  <2>1. ledger \in [Invites -> Entries]  BY DEF TypeInv, StateTyped
  <2>2. ledger' = [ledger EXCEPT ![c].minutes = Append(@, now)]  BY DEF Bill
  <2>3. ledger'[c] = [ledger[c] EXCEPT !.minutes = a]  BY <1>1, <2>1, <2>2
  <2> HIDE DEF a
  <2>4. /\ ledger'[c].minutes = a /\ ledger'[c].first = ledger[c].first
        /\ ledger'[c].refunds = ledger[c].refunds
    BY <1>1, <2>3 DEF Entries
  <2>5. \A d \in Invites \ {c} : ledger'[d] = ledger[d]  BY <2>1, <2>2
  <2> QED  BY <2>4, <2>5
<1> HIDE DEF a, c, now, m
<1>6. \A i \in Invites : NotYetCreated(i)'
  BY <1>3, <1>4 DEF NotYetCreated
<1>7. ASSUME NEW d \in Invites PROVE MinutesSane(d)'
  <2>1. CASE d = c
    <3>1. now # Never  BY <1>1 DEF Never
    <3> QED  BY <1>2, <1>4, <1>5, <2>1, <3>1 DEF MinutesSane
  <2>2. CASE d # c
    <3>1. MinutesSane(d)  OBVIOUS
    <3> QED  BY <1>4, <1>5, <2>2, <3>1 DEF MinutesSane
  <2> QED  BY <2>1, <2>2
<1>8. ASSUME NEW d \in Invites PROVE BilledSane(d)'
  <2>0. BilledSane(d) /\ local' = local  OBVIOUS
  <2>1. CASE d # c
    <3>1. Billed(d)' = Billed(d)  BY <1>3, <2>1 DEF c
    <3> QED  BY <1>5, <2>0, <2>1, <3>1 DEF BilledSane
  <2>2. CASE d = c
    <3>1. \A q \in Billed(d) : \E k \in DOMAIN a : a[k] = local[q].now
      BY <1>2, <2>0, <2>2 DEF BilledSane, m
    <3>2. IsFiniteSet(Billed(d)) /\ Cardinality(Billed(d)) <= Len(m)
      BY <2>0, <2>2 DEF BilledSane, m
    <3>3. Cardinality(Billed(d)) \in Nat  BY <3>2, FS_CardinalityType
    <3>4. CASE code # "billed"
      <4>1. Billed(d)' = Billed(d)  BY <1>3, <3>4
      <4>2. Cardinality(Billed(d)) <= Len(a)  BY <1>2, <3>2, <3>3
      <4> QED  BY <1>5, <2>0, <2>2, <3>1, <3>2, <4>1, <4>2 DEF BilledSane
    <3>5. CASE code = "billed"
      <4>1. Billed(d)' = Billed(d) \cup {r}  BY <1>3, <2>2, <3>5 DEF c
      <4>2. r \notin Billed(d)  BY <1>1 DEF Billed
      <4>3. /\ IsFiniteSet(Billed(d) \cup {r})
            /\ Cardinality(Billed(d) \cup {r}) = Cardinality(Billed(d)) + 1
        BY <3>2, <4>2, FS_AddElement
      <4>4. Cardinality(Billed(d) \cup {r}) <= Len(a)  BY <1>2, <3>2, <3>3, <4>3
      <4>5. \A q \in Billed(d) \cup {r} : \E k \in DOMAIN a : a[k] = local[q].now
        BY <1>2, <3>1 DEF now
      <4>6. ledger'[d].minutes = a  BY <1>5, <2>2
      <4>7. (\A q \in Billed(d) : \E k \in DOMAIN ledger[d].minutes : ledger[d].minutes[k] = local[q].now)'
        BY <2>0, <4>1, <4>5, <4>6
      <4>8. (IsFiniteSet(Billed(d)) /\ Cardinality(Billed(d)) <= Len(ledger[d].minutes))'
        BY <4>1, <4>3, <4>4, <4>6
      <4> QED  BY <4>7, <4>8 DEF BilledSane
    <3> QED  BY <3>4, <3>5
  <2> QED  BY <2>1, <2>2
<1>9. ASSUME NEW d \in Debited PROVE EarnedOnce(d)'
  <2>1. EarnedOnce(d) /\ d \in Invites  OBVIOUS
  <2>2. ledger'[d].first = ledger[d].first /\ ledger'[d].refunds = ledger[d].refunds
    BY <1>5, <2>1
  <2> QED  BY <1>4, <2>1, <2>2 DEF EarnedOnce
<1>10. Legal
  <2>1. \A d \in Invites \ {c} : ~(Len(ledger'[d].minutes) > Len(ledger[d].minutes))
    <3>1. ASSUME NEW d \in Invites \ {c} PROVE ~(Len(ledger'[d].minutes) > Len(ledger[d].minutes))
      <4>0. ledger[d] \in Entries  BY DEF TypeInv, StateTyped
      <4>1. Len(ledger[d].minutes) \in Nat  BY <4>0 DEF Entries, Minutes
      <4> QED  BY <1>5, <4>1
    <3> QED  BY <3>1
  <2> QED  BY <1>1, <1>4, <2>1 DEF Legal
<1> QED  BY <1>3, <1>6, <1>7, <1>8, <1>9, <1>10
\* A tick that ends the call of a caller who cannot pay charges nothing.
LEMMA EndUnpaidBills ==
  ASSUME Billing, TypeInv', NEW r \in Requests, at[r] = "commit", ~Conflict(r), EndUnpaid(r),
         UNCHANGED local, NEW code \in Codes \ {"billed"}, Reply(r, code)
  PROVE  Billing' /\ Legal
<1> DEFINE c == local[r].call
           now == local[r].now
<1> USE DEF Billing
<1>1. /\ c \in Invites /\ now \in 0..MaxClock /\ calls[c] \in Docs
      /\ ledger[c].minutes \in Minutes /\ Status(c) = "accepted"
      /\ \A k \in DOMAIN ledger[c].minutes : ledger[c].minutes[k] <= now - Interval
      /\ \A j, k \in DOMAIN ledger[c].minutes :
           j < k => ledger[c].minutes[k] - ledger[c].minutes[j] >= Interval
  BY TickFinds
<1>2. /\ \A h \in Handlers : HandlerSane(h)'
      /\ \A i \in Invites : at'[i] = at[i]
      /\ \A d \in Invites : Billed(d)' = Billed(d)
  BY TickAnswers
<1>3. ledger' = ledger  BY DEF EndUnpaid, money
<1>4. /\ calls'[c].lastBilled = now /\ Status(c)' = "ended"
      /\ \A d \in Invites \ {c} : calls'[d] = calls[d] /\ Status(d)' = Status(d)
  <2>1. calls \in [Invites -> Docs]  BY DEF TypeInv, StateTyped
  <2>2. calls' = [calls EXCEPT ![c].status = "ended", ![c].lastBilled = now]  BY DEF EndUnpaid
  <2>3. calls'[c] = [calls[c] EXCEPT !.status = "ended", !.lastBilled = now]  BY <1>1, <2>1, <2>2
  <2>4. calls'[c].lastBilled = now /\ calls'[c].status = "ended"  BY <1>1, <2>3 DEF Docs
  <2>5. \A d \in Invites \ {c} : calls'[d] = calls[d]  BY <2>1, <2>2
  <2>6. Status(c)' = "ended"
    <3>1. c' = c  OBVIOUS
    <3> QED  BY <2>4, <3>1 DEF Status
  <2> QED  BY <2>4, <2>5, <2>6 DEF Status
<1>5. ASSUME NEW d \in Invites PROVE Status(d)' # Status(d) => d = c /\ Status(d) = "accepted" /\ Status(d)' = "ended"
  <2>1. d = c => Status(d)' = "ended"
    <3>1. c' = c  OBVIOUS
    <3> QED  BY <1>4, <3>1 DEF Status
  <2> QED  BY <1>1, <1>4, <2>1
<1> HIDE DEF c, now
<1>6. \A i \in Invites : NotYetCreated(i)'
  BY <1>2, <1>5 DEF NotYetCreated
<1>7. ASSUME NEW d \in Invites PROVE MinutesSane(d)'
  <2>1. CASE d = c
    <3>1. now # Never  BY <1>1 DEF Never
    <3>2. \A k \in DOMAIN ledger[c].minutes : ledger[c].minutes[k] \in 0..MaxClock
      BY <1>1 DEF Minutes
    <3>3. \A k \in DOMAIN ledger[c].minutes : ledger[c].minutes[k] <= now
      BY <1>1, <3>2
    <3> QED  BY <1>1, <1>3, <1>4, <2>1, <3>1, <3>3 DEF MinutesSane
  <2>2. CASE d # c
    <3>1. MinutesSane(d)  OBVIOUS
    <3> QED  BY <1>3, <1>4, <2>2, <3>1 DEF MinutesSane
  <2> QED  BY <2>1, <2>2
<1>8. ASSUME NEW d \in Invites PROVE BilledSane(d)'
  <2>1. BilledSane(d) /\ local' = local /\ Billed(d)' = Billed(d)  BY <1>2
  <2> QED  BY <1>3, <2>1 DEF BilledSane
<1>9. ASSUME NEW d \in Debited PROVE EarnedOnce(d)'
  <2>1. EarnedOnce(d) /\ d \in Invites  OBVIOUS
  <2> QED  BY <1>3, <1>5, <2>1 DEF EarnedOnce
<1>10. Legal
  <2>1. \A d \in Invites : ~(Len(ledger'[d].minutes) > Len(ledger[d].minutes))
    <3>1. ASSUME NEW d \in Invites PROVE ~(Len(ledger'[d].minutes) > Len(ledger[d].minutes))
      <4>0. ledger[d] \in Entries  BY DEF TypeInv, StateTyped
      <4>1. Len(ledger[d].minutes) \in Nat  BY <4>0 DEF Entries, Minutes
      <4> QED  BY <1>3, <4>1
    <3> QED  BY <3>1
  <2> QED  BY <1>5, <2>1 DEF Legal
<1> QED  BY <1>2, <1>6, <1>7, <1>8, <1>9, <1>10

\* The steps of tickCall.
LEMMA TickBills ==
  ASSUME Billing, TypeInv', NEW r \in Requests, Tick(r)
  PROVE  Billing' /\ Legal
<1>0. TypeInv /\ StateTyped /\ HandlersTyped /\ r \in Handlers /\ HandlerSane(r)
      /\ local[r] \in Notes /\ local[r].call \in Invites
  BY DEF Billing, TypeInv, Handlers, HandlersTyped, Notes
<1>1. CASE TickBegin(r) \/ TickReruns(r) \/ TickFails(r)
  <2>1. Ordinary  BY <1>1, KeptOrdinary DEF TickBegin, TickReruns, TickFails, money
  <2>2. \A k \in Handlers \ {r} : Left(k)
    <3>1. (\E label \in Labels : Goto(r, label)) \/ (\E code \in Codes : Reply(r, code))
      BY <1>1 DEF TickBegin, TickReruns, TickFails, Labels, Codes
    <3>2. UNCHANGED local \/ \E v : local' = [local EXCEPT ![r] = v]
      BY <1>1 DEF TickBegin, TickReruns, TickFails
    <3> QED  BY <1>0, <3>1, <3>2, MoveLeaves
  <2>3. Taken(r)
    <3>0. at[r] # "done"  BY <1>1 DEF TickBegin, TickReruns, TickFails
    <3>1. CASE \/ \E label \in Labels \ {"finalize", "commit"} : Goto(r, label)
               \/ \E code \in Codes \ {"billed"} : Reply(r, code)
      BY <1>0, <3>0, <3>1, MoveTakes
    <3>2. CASE /\ local' = [local EXCEPT ![r].seen = calls[local[r].call], ![r].purse = coins[From[local[r].call]]]
               /\ Goto(r, "commit") /\ Status(local[r].call) = "accepted"
               /\ Billable(local[r].call, local[r].now)
      <4>1. at'[r] = "commit" /\ answer' = answer /\ answer[r] # "billed"
        BY <1>0, <3>0, <3>2 DEF HandlersTyped, Goto, Put, HandlerSane
      <4>2. local'[r] = [local[r] EXCEPT !.seen = calls[local[r].call], !.purse = coins[From[local[r].call]]]
        BY <1>0, <3>2 DEF HandlersTyped
      <4>3. local'[r].seen = calls[local[r].call] /\ local'[r].now = local[r].now
        BY <1>0, <4>2 DEF Notes
      <4> QED  BY <3>0, <3>2, <4>1, <4>3 DEF Taken, HandlerSane, Status, Billable
    <3>3. \/ \E label \in Labels \ {"finalize", "commit"} : Goto(r, label)
          \/ \E code \in Codes \ {"billed"} : Reply(r, code)
          \/ /\ local' = [local EXCEPT ![r].seen = calls[local[r].call], ![r].purse = coins[From[local[r].call]]]
             /\ Goto(r, "commit") /\ Status(local[r].call) = "accepted"
             /\ Billable(local[r].call, local[r].now)
      BY <1>1 DEF TickBegin, TickReruns, TickFails, Labels, Codes
    <3> QED  BY <3>1, <3>2, <3>3
  <2> QED  BY <2>1, <2>2, <2>3, OrdinaryKeeps
<1>2. CASE TickApplied(r)
  <2>0. at[r] = "commit" /\ ~Conflict(r) /\ UNCHANGED local  BY <1>2 DEF TickApplied
  <2>1. \/ \E code \in Codes : Bill(r) /\ Reply(r, code)
        \/ \E code \in Codes \ {"billed"} : EndUnpaid(r) /\ Reply(r, code)
    BY <1>2 DEF TickApplied, Codes
  <2> QED  BY <2>0, <2>1, BillBills, EndUnpaidBills
<1> QED  BY <1>1, <1>2 DEF Tick
-----------------------------------------------------------------------------
(***************************************************************************)
(* The invariant, and what it shows.                                       *)
(***************************************************************************)
\* Initially no minute is billed and no first minute earned or refunded.
LEMMA BillingInit == Init => Billing
<1> SUFFICES ASSUME Init PROVE Billing  OBVIOUS
<1>1. TypeInv  BY InitInv
<1>2. /\ \A h \in Handlers : answer[h] = "none" /\ at[h] \in {"idle", "done"}
      /\ \A i \in Invites : i \in Debited => at[i] = "done"
  BY DEF Init, Handlers
<1>3. \A c \in Invites : /\ ledger[c] = NoEntries /\ calls[c].lastBilled = Never
                         /\ Status(c) = IF c \in Debited THEN "pending" ELSE "none"
  BY DEF Init, NoCall, Status
<1>4. NoEntries.first = 0 /\ NoEntries.refunds = 0 /\ NoEntries.minutes = <<>>  BY DEF NoEntries
<1>5. \A h \in Handlers : HandlerSane(h)  BY <1>2 DEF HandlerSane
<1>6. \A i \in Invites : NotYetCreated(i)  BY <1>2, <1>3 DEF NotYetCreated
<1>7. ASSUME NEW c \in Invites PROVE MinutesSane(c) /\ BilledSane(c)
  <2>1. ledger[c].minutes = <<>> /\ calls[c].lastBilled = Never  BY <1>3, <1>4
  <2>2. Billed(c) = {}  BY <1>2 DEF Billed, Handlers
  <2>3. Len(<<>>) = 0 /\ Cardinality({}) = 0 /\ IsFiniteSet({})  BY FS_EmptySet
  <2> QED  BY <2>1, <2>2, <2>3 DEF MinutesSane, BilledSane
<1>8. \A c \in Debited : EarnedOnce(c)  BY <1>3, <1>4 DEF EarnedOnce
<1> QED  BY <1>1, <1>5, <1>6, <1>7, <1>8 DEF Billing

\* Every step keeps it, and moves the calls as it may.
LEMMA BillingNext ==
  ASSUME Billing, TypeInv', [Next]_vars
  PROVE  Billing' /\ Legal
<1>1. ASSUME NEW i \in Invites, Invite(i) PROVE Billing' /\ Legal
  BY <1>1, InviteBills, CreateBills DEF Invite
<1>2. ASSUME NEW r \in Requests, Request(r) PROVE Billing' /\ Legal
  BY <1>2, RequestBills, TickBills DEF Request
<1> QED  BY <1>1, <1>2, PlatformBills DEF Next

\* The inductive invariant of the calls' documents and ledger.
THEOREM BillingHolds == Spec => [](TypeInv /\ OneLiveCallPerUser /\ Billing)
<1>1. Init => TypeInv /\ OneLiveCallPerUser /\ Billing  BY InitInv, BillingInit
<1>2. TypeInv /\ OneLiveCallPerUser /\ Billing /\ [Next]_vars =>
        (TypeInv /\ OneLiveCallPerUser /\ Billing)'
  BY NextInv, BillingNext
<1> QED  BY <1>1, <1>2, PTL DEF Spec

\* Ticks of the same call that race or are retried never bill two minutes less than
\* the minimum interval apart.
THEOREM MinutesStayApart == Spec => []MinutesApart
<1>1. Billing => MinutesApart
  <2> SUFFICES ASSUME Billing, NEW c \in Invites PROVE
        \A j, k \in DOMAIN ledger[c].minutes :
          j < k => ledger[c].minutes[k] - ledger[c].minutes[j] >= Interval
    BY DEF MinutesApart
  <2>1. MinutesSane(c)  BY DEF Billing
  <2> QED  BY <2>1 DEF MinutesSane
<1> QED  BY <1>1, BillingHolds, PTL

\* Each tick answered as billed has charged a minute of its own.
THEOREM BilledIsCharged == Spec => []BilledMeansCharged
<1>1. Billing => BilledMeansCharged
  BY DEF Billing, BilledSane, Billed, BilledMeansCharged
<1> QED  BY <1>1, BillingHolds, PTL

\* A first minute paid in advance is earned by the acceptance or refunded once by
\* whoever finalizes the call, never both and never neither.
THEOREM AdvanceIsEarnedOrRefunded == Spec => []EarnedOrRefunded
<1>1. Billing => EarnedOrRefunded  BY DEF Billing, EarnedOnce, EarnedOrRefunded
<1> QED  BY <1>1, BillingHolds, PTL

\* No handler, however old what it has read, brings a call back or renames its end.
THEOREM CallsMoveOn == Spec => CallLifecycle
<1>1. (TypeInv /\ OneLiveCallPerUser /\ Billing) /\ [Next]_vars =>
        [\A c \in Invites : Status(c) # Status(c)' =>
           <<Status(c), Status(c)'>> \in {<<"none", "pending">>, <<"pending", "accepted">>, <<"accepted", "ended">>}
                                         \cup {"pending"} \X (Over \ {"ended"})]_vars
  BY NextInv, BillingNext DEF Legal
<1> QED  BY <1>1, BillingHolds, PTL DEF Spec, CallLifecycle

\* No minute is charged for a call that is not going on when the charge commits.
THEOREM NoMinuteAfterTheEnd == Spec => NoChargeAfterEnd
<1>1. (TypeInv /\ OneLiveCallPerUser /\ Billing) /\ [Next]_vars =>
        [\A c \in Invites : Len(ledger'[c].minutes) > Len(ledger[c].minutes) => Status(c) = "accepted"]_vars
  BY NextInv, BillingNext DEF Legal
<1> QED  BY <1>1, BillingHolds, PTL DEF Spec, NoChargeAfterEnd
-----------------------------------------------------------------------------
(***************************************************************************)
(* The books.                                                              *)
(***************************************************************************)
\* A call is charged for one minute more.
Charged(c) ==
  /\ Charge(c)
  /\ \A d \in Invites : /\ ledger'[d].back = ledger[d].back
                        /\ Charges(d)' = Charges(d) + (IF d = c THEN 1 ELSE 0)

\* The entries of a call are numbers.
LEMMA EntryNumbers ==
  ASSUME StateTyped, NEW c \in Invites
  PROVE  ledger[c] \in Entries /\ Charges(c) \in Nat /\ Net(c) \in Int
<1>1. ledger[c] \in Entries  BY DEF StateTyped
<1>2. ledger[c].first \in Nat /\ ledger[c].back \in Nat /\ ledger[c].minutes \in Seq(0..MaxClock)
  BY <1>1 DEF Entries, Minutes
<1>3. Len(ledger[c].minutes) \in Nat  BY <1>2
<1>4. Charges(c) \in Nat  BY <1>2, <1>3 DEF Charges
<1>5. Price * Charges(c) \in Int  BY <1>4
<1> QED  BY <1>1, <1>2, <1>4, <1>5 DEF Net

\* An acceptance charges the first minute of a paid call.
LEMMA ActivateCharges ==
  ASSUME StateTyped, NEW c \in Invites, Activate(c)
  PROVE  UNCHANGED money \/ Charged(c)
<1>1. CASE Charge(c) /\ ledger' = [ledger EXCEPT ![c].first = @ + 1]
  <2>1. ledger[c] \in Entries /\ ledger \in [Invites -> Entries]  BY DEF StateTyped
  <2>2. ledger'[c] = [ledger[c] EXCEPT !.first = @ + 1]  BY <1>1, <2>1
  <2>3. /\ ledger'[c].back = ledger[c].back /\ ledger'[c].minutes = ledger[c].minutes
        /\ ledger'[c].first = ledger[c].first + 1
    BY <2>1, <2>2 DEF Entries
  <2>4. \A d \in Invites \ {c} : ledger'[d] = ledger[d]  BY <1>1, <2>1
  <2>5. ledger[c].first \in Nat /\ Len(ledger[c].minutes) \in Nat
    BY <2>1 DEF Entries, Minutes
  <2>6. Charges(c)' = Charges(c) + 1  BY <2>3, <2>5 DEF Charges
  <2>7. ASSUME NEW d \in Invites, d # c PROVE Charges(d)' = Charges(d) + 0
    <3>1. ledger'[d] = ledger[d] /\ Charges(d) \in Nat  BY <2>4, <2>7, EntryNumbers
    <3> QED  BY <3>1 DEF Charges
  <2> QED  BY <1>1, <2>3, <2>4, <2>6, <2>7 DEF Charged
<1> QED  BY <1>1 DEF Activate

\* A tick that bills charges a minute.
LEMMA BillCharges ==
  ASSUME TypeInv, NEW r \in Requests, Bill(r), NEW c \in Invites, c = local[r].call
  PROVE  Charged(c)
<1>0. StateTyped /\ local[r].now \in 0..MaxClock
  BY DEF TypeInv, HandlersTyped, Notes, Handlers
<1>1. Charge(c) /\ ledger' = [ledger EXCEPT ![c].minutes = Append(@, local[r].now)]
  BY DEF Bill
<1>2. ledger[c] \in Entries /\ ledger \in [Invites -> Entries]  BY <1>0 DEF StateTyped
<1>3. ledger'[c] = [ledger[c] EXCEPT !.minutes = Append(@, local[r].now)]  BY <1>1, <1>2
<1>4. /\ ledger'[c].back = ledger[c].back /\ ledger'[c].first = ledger[c].first
      /\ ledger'[c].minutes = Append(ledger[c].minutes, local[r].now)
  BY <1>2, <1>3 DEF Entries
<1>5. ledger[c].first \in Nat /\ ledger[c].minutes \in Seq(0..MaxClock)
  BY <1>2 DEF Entries, Minutes
<1>6. Len(Append(ledger[c].minutes, local[r].now)) = Len(ledger[c].minutes) + 1
      /\ Len(ledger[c].minutes) \in Nat
  BY <1>0, <1>5
<1>7. Charges(c)' = Charges(c) + 1
  <2> DEFINE m == Len(ledger[c].minutes)
             n == Len(Append(ledger[c].minutes, local[r].now))
  <2>1. Charges(c) = ledger[c].first + m /\ Charges(c)' = ledger[c].first + n  BY <1>4 DEF Charges
  <2>2. PICK k \in Nat : k = m /\ n = k + 1  BY <1>6
  <2>3. PICK f \in Nat : f = ledger[c].first  BY <1>5
  <2>4. Charges(c) = f + k /\ Charges(c)' = f + (k + 1)  BY <2>1, <2>2, <2>3
  <2>5. f + (k + 1) = (f + k) + 1  OBVIOUS
  <2> QED  BY <2>4, <2>5
<1>8. \A d \in Invites \ {c} : ledger'[d] = ledger[d]  BY <1>1, <1>2
<1>9. ASSUME NEW d \in Invites, d # c PROVE Charges(d)' = Charges(d) + 0
  <2>1. ledger'[d] = ledger[d] /\ Charges(d) \in Nat  BY <1>0, <1>8, <1>9, EntryNumbers
  <2> QED  BY <2>1 DEF Charges
<1> QED  BY <1>1, <1>4, <1>7, <1>8, <1>9 DEF Charged

\* Money moves by refunds, by charges and by what users get from elsewhere.
LEMMA MoneyMoves ==
  ASSUME TypeInv, [Next]_vars
  PROVE  \/ UNCHANGED money
         \/ \E c \in Invites : Refund(c) \/ Charged(c)
         \/ \E u \in Payers : Other(u)
<1>0. StateTyped  BY DEF TypeInv
<1>1. ASSUME NEW i \in Invites, Invite(i)
      PROVE  UNCHANGED money \/ \E c \in Invites : Refund(c)
  <2>1. CASE List(i) \/ Afford(i) \/ Replace(i) \/ Create(i)
    BY <2>1 DEF List, Afford, Replace, Create
  <2>2. CASE Sift(i) \/ Drop(i)
    <3>1. \A f \in local[i].found : f[1] \in Invites
      BY DEF TypeInv, HandlersTyped, Handlers, Notes
    <3>2. UNCHANGED money \/ \E f \in local[i].found : Refund(f[1])
      BY <2>2 DEF Sift, Drop, Finalize, money
    <3> QED  BY <3>1, <3>2
  <2> QED  BY <1>1, <2>1, <2>2 DEF Invite
<1>2. ASSUME NEW r \in Requests, Request(r)
      PROVE  UNCHANGED money \/ \E c \in Invites : Refund(c) \/ Charged(c)
  <2>0. local[r].call \in Invites  BY DEF TypeInv, HandlersTyped, Handlers, Notes
  <2>1. CASE Start(r) \/ Read(r) \/ Hangup(r) \/ TickBegin(r) \/ TickReruns(r) \/ TickFails(r)
    BY <2>1 DEF Start, Read, Hangup, TickBegin, TickReruns, TickFails, End, money
  <2>2. CASE Conclude(r)  BY <2>0, <2>2 DEF Conclude, Finalize, money
  <2>3. CASE Accept(r)
    <3>1. UNCHANGED money \/ Activate(local[r].call)  BY <2>3 DEF Accept, money
    <3> QED  BY <1>0, <2>0, <3>1, ActivateCharges
  <2>4. CASE TickApplied(r)
    <3>1. UNCHANGED money \/ Bill(r)  BY <2>4 DEF TickApplied, EndUnpaid, money
    <3> QED  BY <2>0, <3>1, BillCharges
  <2> QED  BY <1>2, <2>1, <2>2, <2>3, <2>4 DEF Request, Tick
<1>3. ASSUME NEW c \in Invites, Deadline(c) \/ Job(c) PROVE UNCHANGED money \/ Refund(c)
  BY <1>3 DEF Deadline, Job, Finalize, End, money
<1>4. Tock \/ UNCHANGED vars => UNCHANGED money  BY DEF Tock, vars, money
<1> QED  BY <1>1, <1>2, <1>3, <1>4 DEF Next
-----------------------------------------------------------------------------
Account(u) == SumFunction([c \in CallsFrom(u) |-> Net(c)])
Minted == SumFunction([c \in Invites |-> Charges(c)])

\* A user's account changes with the entries of one of the user's calls.
LEMMA AccountAfter ==
  ASSUME StateTyped, StateTyped', NEW c \in Invites, NEW d \in Int, Net(c)' = Net(c) + d,
         \A x \in Invites \ {c} : Net(x)' = Net(x), NEW u \in Users
  PROVE  Account(u) \in Int /\ Account(u)' = Account(u) + (IF u = From[c] THEN d ELSE 0)
<1> DEFINE S == CallsFrom(u)
           f == [x \in S |-> Net(x)]
           h == [x \in S |-> Net(x)']
<1>1. IsFiniteSet(S)  BY FiniteAssumption, FS_Subset DEF CallsFrom
<1>2. Account(u) = SumFunction(f) /\ Account(u)' = SumFunction(h)  BY DEF Account, CallsFrom
<1>3. \A x \in Invites : Net(x) \in Int /\ Net(x)' \in Int
  <2>1. ASSUME NEW x \in Invites PROVE Net(x) \in Int  BY EntryNumbers
  <2>2. ASSUME NEW x \in Invites PROVE Net(x)' \in Int
    <3>1. CASE x = c  BY <2>1, <3>1
    <3>2. CASE x # c  BY <2>1, <3>2
    <3> QED  BY <3>1, <3>2
  <2> QED  BY <2>1, <2>2
<1>4. S \subseteq Invites /\ (c \in S <=> u = From[c])  BY DEF CallsFrom
<1> HIDE DEF S
<1>5. f \in [S -> Int] /\ h \in [S -> Int]  BY <1>3, <1>4
<1>6. CASE u = From[c]
  <2>1. c \in S /\ f[c] = Net(c) /\ h[c] = Net(c) + d  BY <1>4, <1>6
  <2>2. \A x \in S \ {c} : h[x] = f[x]  BY <1>4
  <2>3. f[c] \in Int  BY <1>3, <2>1
  <2> HIDE DEF f, h
  <2>4. SumFunction(f) \in Int /\ SumFunction(h) = SumFunction(f) - f[c] + h[c]
    BY <1>1, <1>5, <2>1, <2>2, SumChanges
  <2>5. h[c] = f[c] + d  BY <2>1
  <2> QED  BY <1>2, <1>6, <2>3, <2>4, <2>5
<1>7. CASE u # From[c]
  <2>1. h = f  BY <1>4, <1>7
  <2> HIDE DEF f, h
  <2>2. SumFunction(f) \in Int  BY <1>1, <1>5, SumType
  <2> QED  BY <1>2, <1>7, <2>1, <2>2
<1> QED  BY <1>6, <1>7

\* One charge more.
LEMMA MintedAfter ==
  ASSUME StateTyped, NEW c \in Invites,
         \A d \in Invites : Charges(d)' = Charges(d) + (IF d = c THEN 1 ELSE 0)
  PROVE  Minted \in Int /\ Minted' = Minted + 1
<1> DEFINE f == [x \in Invites |-> Charges(x)]
           h == [x \in Invites |-> Charges(x)']
<1>1. IsFiniteSet(Invites)  BY FiniteAssumption
<1>2. Minted = SumFunction(f) /\ Minted' = SumFunction(h)  BY DEF Minted
<1>3. \A x \in Invites : Charges(x) \in Int  BY EntryNumbers
<1>4. f \in [Invites -> Int] /\ h \in [Invites -> Int]  BY <1>3
<1>5. f[c] \in Int /\ h[c] = f[c] + 1 /\ \A x \in Invites \ {c} : h[x] = f[x]  BY <1>3
<1> HIDE DEF f, h
<1>6. SumFunction(f) \in Int /\ SumFunction(h) = SumFunction(f) - f[c] + h[c]
  BY <1>1, <1>4, <1>5, SumChanges
<1> QED  BY <1>2, <1>5, <1>6

\* calculateSplit shares out what is not the platform's, to the coin.
LEMMA SplitAddsUp == Shared \in Int /\ \A s \in Splits : s.creator + s.agency = Shared
<1> DEFINE side == Price - (Price * 2) \div 5
           cut == (side * Percent) \div 100
<1>1. side \in Nat  BY SMT
<1>2. cut \in 0..side  BY <1>1, PartOfWhole
<1>3. ASSUME NEW s \in Splits PROVE s.creator + s.agency = side
  <2>1. PICK a \in {cut} \cup (IF cut > 0 THEN {cut - 1} ELSE {}) :
          s = [platform |-> (Price * 2) \div 5, creator |-> side - a, agency |-> a]
    BY DEF Splits
  <2>2. a \in Int /\ s.creator = side - a /\ s.agency = a  BY <1>2, <2>1
  <2> HIDE DEF side
  <2> QED  BY <1>1, <2>2
<1> QED  BY <1>1, <1>3 DEF Shared
\* A refund is in the wallet and in the entries of its call.
LEMMA RefundBalances ==
  ASSUME StateTyped, StateTyped', NEW c \in Invites, Refund(c), BooksBalance
  PROVE  BooksBalance'
<1> DEFINE room == Cap - coins[From[c]]
           back == IF room < Price THEN room ELSE Price
<1>0. back \in Int
  <2>1. coins[From[c]] \in 0..Cap  BY DEF StateTyped
  <2> QED  BY <2>1
<1>1. CASE UNCHANGED money
  BY <1>1 DEF money, BooksBalance, Net, Charges
<1>2. CASE /\ coins' = [coins EXCEPT ![From[c]] = @ + back]
           /\ ledger' = [ledger EXCEPT ![c].refunds = @ + 1, ![c].back = @ + back]
           /\ UNCHANGED <<earned, agency, funds>>
  <2> HIDE DEF back
  <2>1. ledger[c] \in Entries /\ ledger \in [Invites -> Entries]  BY DEF StateTyped
  <2>2. ledger'[c] = [ledger[c] EXCEPT !.refunds = @ + 1, !.back = @ + back]  BY <1>2, <2>1
  <2>3. /\ ledger'[c].minutes = ledger[c].minutes /\ ledger'[c].first = ledger[c].first
        /\ ledger'[c].back = ledger[c].back + back
    BY <2>1, <2>2 DEF Entries
  <2>4. \A d \in Invites \ {c} : ledger'[d] = ledger[d]  BY <1>2, <2>1
  <2>5. \A d \in Invites : Charges(d)' = Charges(d)  BY <2>3, <2>4 DEF Charges
  <2>6. Net(c)' = Net(c) + back
    <3>1. ledger[c].back \in Int /\ Price * Charges(c) \in Int
      BY <2>1, EntryNumbers DEF Entries
    <3>2. Net(c)' = (ledger[c].back + back) - Price * Charges(c)  BY <2>3, <2>5 DEF Net
    <3> QED  BY <1>0, <3>1, <3>2 DEF Net
  <2>7. \A d \in Invites \ {c} : Net(d)' = Net(d)  BY <2>4, <2>5 DEF Net
  <2>8. ASSUME NEW u \in Users, coins[u] = funds[u] + Account(u)
        PROVE  coins'[u] = funds'[u] + Account(u)'
    <3>1. Account(u) \in Int /\ Account(u)' = Account(u) + (IF u = From[c] THEN back ELSE 0)
      BY <1>0, <2>6, <2>7, AccountAfter
    <3>2. coins'[u] = coins[u] + (IF u = From[c] THEN back ELSE 0) /\ funds[u] \in Int
      BY <1>0, <1>2 DEF StateTyped
    <3> QED  BY <1>0, <1>2, <2>8, <3>1, <3>2
  <2>9. Minted' = Minted  BY <2>5 DEF Minted
  <2> QED  BY <1>2, <2>8, <2>9 DEF BooksBalance, Account, Minted
<1> QED  BY <1>1, <1>2 DEF Refund

\* What the caller pays is what the platform, the creator and the agency get.
LEMMA ChargeBalances ==
  ASSUME StateTyped, StateTyped', NEW c \in Invites, Charged(c), BooksBalance
  PROVE  BooksBalance'
<1>1. PICK s \in Splits : /\ coins' = [coins EXCEPT ![From[c]] = @ - Price]
                          /\ earned' = [earned EXCEPT ![To[c]] = @ + s.creator]
                          /\ agency' = agency + s.agency
                          /\ funds' = funds
  BY DEF Charged, Charge
<1>2. s.creator \in Nat /\ s.agency \in Nat /\ s.creator + s.agency = Shared /\ Shared \in Int
  BY SplitShares, SplitAddsUp
<1>3. ASSUME NEW d \in Invites
      PROVE  /\ Charges(d) \in Nat /\ ledger[d].back \in Int /\ Net(d) \in Int
             /\ Charges(d)' = Charges(d) + (IF d = c THEN 1 ELSE 0)
             /\ ledger'[d].back = ledger[d].back
  BY EntryNumbers DEF Charged, Entries
<1>4. Net(c)' = Net(c) + (0 - Price)
  <2>1. Price * (Charges(c) + 1) = Price * Charges(c) + Price /\ Price * Charges(c) \in Int
    <3>1. PICK n \in Int : n = Charges(c)  BY <1>3
    <3> HIDE NumberAssumption
    <3>2. PICK p \in Int : p = Price  BY NumberAssumption
    <3>3. p * (n + 1) = p * n + p /\ p * n \in Int  OBVIOUS
    <3> QED  BY <3>1, <3>2, <3>3
  <2>2. Net(c)' = ledger[c].back - Price * (Charges(c) + 1)  BY <1>3 DEF Net
  <2>3. PICK b \in Int : b = ledger[c].back  BY <1>3
  <2>4. PICK k \in Int : k = Price * Charges(c)  BY <2>1
  <2>5. Net(c) = b - k /\ Net(c)' = b - (k + Price)  BY <2>1, <2>2, <2>3, <2>4 DEF Net
  <2>6. b - (k + Price) = (b - k) + (0 - Price)  OBVIOUS
  <2> QED  BY <2>5, <2>6
<1>5. \A d \in Invites \ {c} : Net(d)' = Net(d)
  <2>1. \A d \in Invites \ {c} : Charges(d)' = Charges(d)  BY <1>3
  <2> QED  BY <1>3, <2>1 DEF Net
<1>6. ASSUME NEW u \in Users, coins[u] = funds[u] + Account(u)
      PROVE  coins'[u] = funds'[u] + Account(u)'
  <2>0. 0 - Price \in Int  OBVIOUS
  <2>1. Account(u) \in Int /\ Account(u)' = Account(u) + (IF u = From[c] THEN 0 - Price ELSE 0)
    BY <1>4, <1>5, <2>0, AccountAfter
  <2>2. coins'[u] = coins[u] + (IF u = From[c] THEN 0 - Price ELSE 0) /\ funds[u] \in Int
    BY <1>1 DEF StateTyped
  <2> QED  BY <1>1, <1>6, <2>1, <2>2
<1>7. SumFunction(earned) \in Int /\ SumFunction(earned') = SumFunction(earned) + s.creator
  <2>1. To[c] \in Users /\ earned \in [Users -> Int] /\ earned' \in [Users -> Int]
        /\ earned[To[c]] \in Int /\ earned'[To[c]] = earned[To[c]] + s.creator
        /\ \A u \in Users \ {To[c]} : earned'[u] = earned[u]
    BY <1>1 DEF StateTyped
  <2>2. /\ SumFunction(earned) \in Int
        /\ SumFunction(earned') = SumFunction(earned) - earned[To[c]] + earned'[To[c]]
    BY <2>1, FiniteAssumption, SumChanges
  <2> QED  BY <1>2, <2>1, <2>2
<1>8. Minted \in Int /\ Minted' = Minted + 1  BY <1>3, MintedAfter
<1>9. SumFunction(earned) + agency = Shared * Minted =>
        SumFunction(earned') + agency' = Shared * Minted'
  <2>1. Shared * (Minted + 1) = Shared * Minted + Shared /\ Shared * Minted \in Int
    <3>1. PICK n \in Int : n = Minted  BY <1>8
    <3>2. PICK p \in Int : p = Shared  BY <1>2
    <3>3. p * (n + 1) = p * n + p /\ p * n \in Int  OBVIOUS
    <3> QED  BY <3>1, <3>2, <3>3
  <2>2. agency \in Int /\ agency' = agency + s.agency  BY <1>1 DEF StateTyped
  <2>3. SUFFICES ASSUME SumFunction(earned) + agency = Shared * Minted
                 PROVE  SumFunction(earned') + agency' = Shared * Minted'
    OBVIOUS
  <2>4. PICK e \in Int, g \in Int, x \in Int, y \in Int :
          e = SumFunction(earned) /\ g = agency /\ x = s.creator /\ y = s.agency
    BY <1>2, <1>7, <2>2
  <2>5. /\ SumFunction(earned') + agency' = (e + x) + (g + y)
        /\ Shared * Minted' = Shared * Minted + Shared /\ Shared * Minted = e + g /\ Shared = x + y
    BY <1>2, <1>7, <1>8, <2>1, <2>2, <2>3, <2>4
  <2>6. (e + x) + (g + y) = (e + g) + (x + y)  OBVIOUS
  <2> QED  BY <2>5, <2>6
<1> QED  BY <1>6, <1>9 DEF BooksBalance, Account, Minted

\* What comes from elsewhere is no call's.
LEMMA OtherBalances ==
  ASSUME StateTyped, StateTyped', NEW v \in Payers, Other(v), BooksBalance
  PROVE  BooksBalance'
<1>1. PICK d \in {Price, -Price} : /\ coins' = [coins EXCEPT ![v] = @ + d]
                                   /\ funds' = [funds EXCEPT ![v] = @ + d]
  BY DEF Other
<1>2. d \in Int /\ UNCHANGED <<earned, agency, ledger>>  BY DEF Other
<1>3. Minted' = Minted  BY <1>2 DEF Minted, Charges
<1>4. ASSUME NEW u \in Users, coins[u] = funds[u] + Account(u)
      PROVE  coins'[u] = funds'[u] + Account(u)'
  <2>1. Account(u)' = Account(u)  BY <1>2 DEF Account, Net, Charges
  <2>2. Account(u) \in Int
    <3> DEFINE f == [c \in CallsFrom(u) |-> Net(c)]
    <3>1. IsFiniteSet(CallsFrom(u))  BY FiniteAssumption, FS_Subset DEF CallsFrom
    <3>2. f \in [CallsFrom(u) -> Int]  BY EntryNumbers DEF CallsFrom
    <3> HIDE DEF f
    <3>3. SumFunction(f) \in Int  BY <3>1, <3>2, SumType
    <3> QED  BY <3>3 DEF f, Account
  <2>3. coins'[u] = coins[u] + (IF u = v THEN d ELSE 0)
        /\ funds'[u] = funds[u] + (IF u = v THEN d ELSE 0) /\ funds[u] \in Int
    BY <1>1, <1>2 DEF StateTyped
  <2> QED  BY <1>2, <1>4, <2>1, <2>2, <2>3
<1> QED  BY <1>2, <1>3, <1>4 DEF BooksBalance, Account, Minted

\* At first no call has an entry, and nobody has earned anything.
LEMMA BooksInit == Init => BooksBalance
<1> SUFFICES ASSUME Init PROVE BooksBalance  OBVIOUS
<1>1. \A c \in Invites : Charges(c) = 0 /\ Net(c) = 0
  <2>1. \A c \in Invites : ledger[c] = NoEntries  BY DEF Init
  <2>2. NoEntries.first = 0 /\ NoEntries.minutes = <<>> /\ NoEntries.back = 0  BY DEF NoEntries
  <2>3. \A c \in Invites : Charges(c) = 0  BY <2>1, <2>2 DEF Charges
  <2> QED  BY <2>1, <2>2, <2>3 DEF Net
<1>2. ASSUME NEW u \in Users PROVE coins[u] = funds[u] + Account(u)
  <2> DEFINE f == [c \in CallsFrom(u) |-> Net(c)]
  <2>1. IsFiniteSet(CallsFrom(u))  BY FiniteAssumption, FS_Subset DEF CallsFrom
  <2>2. DOMAIN f = CallsFrom(u) /\ \A c \in CallsFrom(u) : f[c] = 0  BY <1>1 DEF CallsFrom
  <2> HIDE DEF f
  <2>3. SumFunction(f) = 0  BY <2>1, <2>2, SumOfZeros
  <2>4. coins[u] = funds[u] /\ funds[u] \in Int  BY DEF Init
  <2> QED  BY <2>3, <2>4 DEF f, Account
<1>3. Minted = 0
  <2> DEFINE f == [c \in Invites |-> Charges(c)]
  <2>1. DOMAIN f = Invites /\ \A c \in Invites : f[c] = 0  BY <1>1
  <2> HIDE DEF f
  <2>2. SumFunction(f) = 0  BY <2>1, FiniteAssumption, SumOfZeros
  <2> QED  BY <2>2 DEF f, Minted
<1>4. SumFunction(earned) = 0
  <2>1. DOMAIN earned = Users /\ \A u \in Users : earned[u] = 0  BY DEF Init
  <2> QED  BY <2>1, FiniteAssumption, SumOfZeros
<1>5. agency = 0 /\ Shared * 0 = 0  BY SplitAddsUp DEF Init
<1> QED  BY <1>2, <1>3, <1>4, <1>5 DEF BooksBalance, Account, Minted

\* Whatever is refunded, billed, raced or retried, every coin of every minute charged is
\* in exactly one pocket: wallets, earnings and agency agree with the ledger's entries.
THEOREM BooksStayBalanced == Spec => []BooksBalance
<1>1. TypeInv /\ TypeInv' /\ [Next]_vars /\ BooksBalance => BooksBalance'
  <2> SUFFICES ASSUME TypeInv, TypeInv', [Next]_vars, BooksBalance PROVE BooksBalance'
    OBVIOUS
  <2>1. StateTyped /\ StateTyped'  BY DEF TypeInv
  <2>2. CASE UNCHANGED money  BY <2>2 DEF money, BooksBalance, Net, Charges
  <2> QED  BY <2>1, <2>2, MoneyMoves, RefundBalances, ChargeBalances, OtherBalances
<1> QED  BY <1>1, BooksInit, BillingHolds, PTL DEF Spec
=============================================================================
