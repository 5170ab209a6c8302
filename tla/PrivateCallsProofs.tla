------------------------- MODULE PrivateCallsProofs -------------------------
(***************************************************************************)
(* Theorems about PrivateCalls, for any users, invitations, requests,      *)
(* prices and percentages: no wallet is ever overdrawn, and no user is in  *)
(* two live calls.  First what each update of the documents does to their  *)
(* types, then the steps of the handlers, which only combine updates.      *)
(***************************************************************************)
EXTENDS PrivateCalls, TLAPS

USE CallAssumption, NumberAssumption

Notes == [goal : Goals, call : Invites, final : {"none"} \cup Over, now : 0..MaxClock, seen : Docs,
          purse : 0..Cap, broke : BOOLEAN, found : SUBSET (Invites \X {"pending", "accepted"})]
Minutes == Seq(0..MaxClock)
Entries == [first : Nat, minutes : Minutes, refunds : Nat, back : Nat]

\* The documents of the database, and the local state of the handlers.
StateTyped ==
  /\ calls \in [Invites -> Docs]
  /\ due \subseteq {c \in Invites : Live(c)}
  /\ coins \in [Users -> 0..Cap] /\ earned \in [Users -> Nat] /\ agency \in Nat
  /\ funds \in [Users -> Int] /\ \A u \in Users : funds[u] <= MaxFunds
  /\ ledger \in [Invites -> Entries]

HandlersTyped ==
  /\ clock \in 0..MaxClock
  /\ at \in [Handlers -> Labels] /\ answer \in [Handlers -> Codes]
  /\ local \in [Handlers -> Notes]

TypeInv == StateTyped /\ HandlersTyped

\* No step but the creation of a call makes one live.
NoneRevived == \A c \in Invites : Live(c)' => Live(c)

StateKept == UNCHANGED <<calls, due, money>>

-----------------------------------------------------------------------------
\* A percentage of at most 100 of a number of coins is at most that number.
LEMMA PartOfWhole ==
  ASSUME NEW x \in Nat, NEW p \in 0..100
  PROVE  (x * p) \div 100 \in 0..x
  <1>1. x * p \in Nat /\ x * p <= 100 * x
    BY SMT
  <1>2. QED
    BY <1>1, SMT

\* calculateSplit gives nobody a negative share.
LEMMA SplitShares == \A s \in Splits : s.creator \in Nat /\ s.agency \in Nat
  <1> DEFINE platform == (Price * 2) \div 5
             side == Price - platform
             cut == (side * Percent) \div 100
  <1>1. side \in Nat
    BY SMT
  <1>2. cut \in 0..side
    BY <1>1, PartOfWhole
  <1> SUFFICES ASSUME NEW s \in Splits PROVE s.creator \in Nat /\ s.agency \in Nat
    OBVIOUS
  <1>3. \E a \in 0..side : s.creator = side - a /\ s.agency = a
    <2>1. PICK a \in {cut} \cup (IF cut > 0 THEN {cut - 1} ELSE {}) :
            s = [platform |-> platform, creator |-> side - a, agency |-> a]
      BY DEF Splits
    <2>2. QED
      BY <1>1, <1>2, <2>1
  <1>4. QED
    BY <1>1, <1>3

\* The charge of a minute needs, and leaves, a balance that is not negative.
LEMMA ChargeTyped ==
  ASSUME StateTyped, NEW c \in Invites, Charge(c), coins[From[c]] >= Price
  PROVE  /\ coins' \in [Users -> 0..Cap] /\ earned' \in [Users -> Nat] /\ agency' \in Nat
         /\ funds' = funds
  <1>1. PICK s \in Splits : /\ coins' = [coins EXCEPT ![From[c]] = @ - Price]
                            /\ earned' = [earned EXCEPT ![To[c]] = @ + s.creator]
                            /\ agency' = agency + s.agency
                            /\ funds' = funds
    BY DEF Charge
  <1>2. s.creator \in Nat /\ s.agency \in Nat
    BY SplitShares
  <1>3. From[c] \in Users /\ To[c] \in Users
    OBVIOUS
  <1>4. coins' \in [Users -> 0..Cap]
    BY <1>1, <1>3 DEF StateTyped
  <1>5. earned' \in [Users -> Nat]
    BY <1>1, <1>2, <1>3 DEF StateTyped
  <1>6. QED
    BY <1>1, <1>2, <1>4, <1>5 DEF StateTyped

\* A refund is added to a call's records.
LEMMA RefundRecorded ==
  ASSUME NEW records \in [Invites -> Entries], NEW c \in Invites, NEW back \in Nat
  PROVE  [records EXCEPT ![c].refunds = @ + 1, ![c].back = @ + back] \in [Invites -> Entries]
  <1>1. PICK r \in Entries : r = records[c]
    OBVIOUS
  <1>2. r.refunds + 1 \in Nat /\ r.back + back \in Nat
    BY <1>1 DEF Entries
  <1>3. [r EXCEPT !.refunds = @ + 1, !.back = @ + back] \in Entries
    BY <1>1, <1>2 DEF Entries
  <1>4. QED
    BY <1>1, <1>3

\* A refund fills the wallet up to the cap at most.
LEMMA RefundTyped ==
  ASSUME StateTyped, NEW c \in Invites, Refund(c)
  PROVE  /\ coins' \in [Users -> 0..Cap] /\ ledger' \in [Invites -> Entries]
         /\ earned' = earned /\ agency' = agency /\ funds' = funds
  <1> DEFINE room == Cap - coins[From[c]]
             back == IF room < Price THEN room ELSE Price
  <1>1. From[c] \in Users /\ room \in 0..Cap /\ back \in 0..room /\ back \in Nat
    BY DEF StateTyped
  <1>2. CASE UNCHANGED money
    BY <1>2 DEF money, StateTyped
  <1>3. CASE /\ coins' = [coins EXCEPT ![From[c]] = @ + back]
             /\ ledger' = [ledger EXCEPT ![c].refunds = @ + 1, ![c].back = @ + back]
             /\ UNCHANGED <<earned, agency, funds>>
    <2>1. coins' \in [Users -> 0..Cap]
      BY <1>1, <1>3 DEF StateTyped
    <2>2. ledger' \in [Invites -> Entries]
      BY <1>1, <1>3, RefundRecorded DEF StateTyped
    <2>3. QED
      BY <1>3, <2>1, <2>2
  <1>4. QED
    BY <1>2, <1>3 DEF Refund

\* A call that leaves the live ones also leaves due.
LEMMA StatusTyped ==
  ASSUME StateTyped, NEW c \in Invites, NEW final \in {"none"} \cup Over,
         calls' = [calls EXCEPT ![c].status = final], due' = due \ {c}
  PROVE  /\ calls' \in [Invites -> Docs] /\ due' \subseteq {d \in Invites : Live(d)'}
         /\ NoneRevived
  <1>1. calls' \in [Invites -> Docs]
    BY DEF StateTyped, Docs, Over
  <1>2. \A d \in Invites \ {c} : calls'[d] = calls[d]
    BY DEF StateTyped
  <1>3. calls'[c].status = final
    BY DEF StateTyped, Docs
  <1>4. final \notin {"pending", "accepted"}
    BY DEF Over
  <1>5. QED
    BY <1>1, <1>2, <1>3, <1>4 DEF StateTyped, Live, Status, NoneRevived

\* finalizePendingCall, with or without a refund, or too late.
LEMMA FinalizeTyped ==
  ASSUME StateTyped, NEW c \in Invites, NEW final \in {"none"} \cup Over, Finalize(c, final)
  PROVE  StateTyped' /\ NoneRevived
  <1>1. CASE UNCHANGED <<calls, due, money>>
    BY <1>1 DEF StateTyped, NoneRevived, Live, Status, money
  <1>2. CASE calls' = [calls EXCEPT ![c].status = final] /\ due' = due \ {c} /\ Refund(c)
    BY <1>2, StatusTyped, RefundTyped DEF StateTyped
  <1>3. QED
    BY <1>1, <1>2 DEF Finalize

\* The end of an accepted call.
LEMMA EndTyped ==
  ASSUME StateTyped, NEW c \in Invites, End(c)
  PROVE  StateTyped' /\ NoneRevived
  <1>1. /\ calls' \in [Invites -> Docs] /\ due' \subseteq {d \in Invites : Live(d)'}
        /\ NoneRevived
    <2>1. "ended" \in {"none"} \cup Over
      BY DEF Over
    <2>2. QED
      BY <2>1, StatusTyped DEF End
  <1>2. QED
    BY <1>1 DEF End, StateTyped, money

\* The acceptance of a pending call.
LEMMA ActivateTyped ==
  ASSUME StateTyped, NEW c \in Invites, Status(c) = "pending", Activate(c)
  PROVE  StateTyped' /\ NoneRevived
  <1>1. calls' \in [Invites -> Docs]
    BY DEF Activate, StateTyped, Docs
  <1>2. \A d \in Invites \ {c} : calls'[d] = calls[d]
    BY DEF Activate, StateTyped
  <1>3. due' \subseteq {d \in Invites : Live(d)'} /\ NoneRevived
    BY <1>1, <1>2 DEF Activate, StateTyped, Live, Status, NoneRevived
  <1>4. CASE UNCHANGED money
    BY <1>1, <1>3, <1>4 DEF StateTyped, money
  <1>5. CASE /\ coins[From[c]] >= Price /\ Charge(c)
             /\ ledger' = [ledger EXCEPT ![c].first = @ + 1]
    <2>1. ledger' \in [Invites -> Entries]
      BY <1>5 DEF StateTyped, Entries
    <2>2. QED
      BY <1>1, <1>3, <1>5, <2>1, ChargeTyped DEF StateTyped
  <1>6. QED
    BY <1>4, <1>5 DEF Activate

\* A tick that bills a minute: the balance is the one its snapshot showed.
LEMMA BillTyped ==
  ASSUME TypeInv, NEW r \in Requests, ~Conflict(r), Paying(r), Bill(r)
  PROVE  StateTyped' /\ NoneRevived
  <1> DEFINE c == local[r].call
  <1>1. c \in Invites /\ local[r].now \in 0..MaxClock
    BY DEF TypeInv, HandlersTyped, Notes, Handlers
  <1>2. coins[From[c]] >= Price
    BY DEF Conflict, Paying
  <1>3. /\ calls' \in [Invites -> Docs]
        /\ \A d \in Invites : calls'[d].status = calls[d].status
    BY <1>1, ZenonT(40) DEF Bill, TypeInv, StateTyped, Docs
  <1>4. due' \subseteq {d \in Invites : Live(d)'} /\ NoneRevived
    BY <1>3 DEF Bill, TypeInv, StateTyped, Live, Status, NoneRevived
  <1>5. ledger' \in [Invites -> Entries]
    <2>1. PICK e \in Entries : e = ledger[c]
      BY <1>1 DEF TypeInv, StateTyped
    <2>2. Append(e.minutes, local[r].now) \in Minutes
      BY <1>1, <2>1 DEF Entries, Minutes
    <2>3. [e EXCEPT !.minutes = Append(@, local[r].now)] \in Entries
      BY <2>1, <2>2 DEF Entries
    <2>4. QED
      BY <1>1, <2>1, <2>3 DEF Bill, TypeInv, StateTyped
  <1>6. QED
    BY <1>1, <1>2, <1>3, <1>4, <1>5, ChargeTyped DEF Bill, TypeInv, StateTyped

\* A tick that ends the call of a caller who cannot pay.
LEMMA EndUnpaidTyped ==
  ASSUME TypeInv, NEW r \in Requests, EndUnpaid(r)
  PROVE  StateTyped' /\ NoneRevived
  <1> DEFINE c == local[r].call
  <1>1. c \in Invites /\ local[r].now \in 0..MaxClock
    BY DEF TypeInv, HandlersTyped, Notes, Handlers
  <1>2. calls' \in [Invites -> Docs]
    <2>1. PICK doc \in Docs : doc = calls[c]
      BY <1>1 DEF TypeInv, StateTyped
    <2>2. [doc EXCEPT !.status = "ended", !.lastBilled = local[r].now] \in Docs
      BY <1>1, <2>1 DEF Docs, Over
    <2>3. QED
      BY <1>1, <2>1, <2>2 DEF EndUnpaid, TypeInv, StateTyped
  <1>3. \A d \in Invites \ {c} : calls'[d] = calls[d]
    BY DEF EndUnpaid, TypeInv, StateTyped
  <1>4. due' \subseteq {d \in Invites : Live(d)'} /\ NoneRevived
    <2>1. calls'[c].status = "ended"
      BY <1>1 DEF EndUnpaid, TypeInv, StateTyped, Docs
    <2>2. QED
      BY <1>3, <2>1 DEF EndUnpaid, TypeInv, StateTyped, Live, Status, NoneRevived
  <1>5. QED
    BY <1>2, <1>4 DEF EndUnpaid, TypeInv, StateTyped, money
-----------------------------------------------------------------------------
\* A step of a handler that leaves the documents alone.
LEMMA KeptTyped ==
  ASSUME StateTyped, StateKept
  PROVE  StateTyped' /\ NoneRevived
  BY DEF StateTyped, StateKept, money, NoneRevived, Live, Status

\* Moving a handler on, or answering, keeps the types of at and answer.
LEMMA MoveTyped ==
  ASSUME HandlersTyped, NEW h \in Handlers,
         \/ \E label \in Labels : Goto(h, label)
         \/ \E code \in Codes : Reply(h, code)
  PROVE  at' \in [Handlers -> Labels] /\ answer' \in [Handlers -> Codes]
  BY DEF HandlersTyped, Goto, Reply, Put, Labels

\* What each step keeps: the types, and that only Create makes a call live.
Kept == TypeInv' /\ NoneRevived

\* The steps of an invitation, but for the creation.
LEMMA InviteKept ==
  ASSUME TypeInv, NEW i \in Invites, List(i) \/ Sift(i) \/ Afford(i) \/ Replace(i) \/ Drop(i)
  PROVE  Kept
  <1> USE DEF Kept, TypeInv
  <1>0. i \in Handlers
    BY DEF Handlers
  <1>1. CASE List(i)
    <2>1. {<<c, Status(c)>> : c \in {d \in Invites : Live(d) /\ Of(d) \cap Of(i) # {}}}
            \in SUBSET (Invites \X {"pending", "accepted"})
      BY DEF Live
    <2>2. local' \in [Handlers -> Notes]
      BY <1>0, <1>1, <2>1 DEF List, HandlersTyped, Notes
    <2>3. QED
      BY <1>0, <1>1, <2>2, KeptTyped, MoveTyped DEF List, HandlersTyped, StateKept, Labels, Codes
  <1>2. CASE Sift(i)
    <2>1. CASE StateKept /\ UNCHANGED local /\ (Goto(i, "afford") \/ Reply(i, "busy"))
      BY <1>0, <1>2, <2>1, KeptTyped, MoveTyped DEF Sift, HandlersTyped, Labels, Codes
    <2>2. CASE \E f \in local[i].found :
                 /\ Finalize(f[1], "timeout") \/ StateKept
                 /\ local' = [local EXCEPT ![i].found = @ \ {f}] /\ UNCHANGED <<at, answer>>
      <3>1. PICK f \in local[i].found :
                 /\ Finalize(f[1], "timeout") \/ StateKept
                 /\ local' = [local EXCEPT ![i].found = @ \ {f}] /\ UNCHANGED <<at, answer>>
        BY <2>2
      <3>2. f[1] \in Invites
        BY <1>0 DEF HandlersTyped, Notes
      <3>3. local' \in [Handlers -> Notes]
        BY <1>0, <3>1 DEF HandlersTyped, Notes
      <3>4. StateTyped' /\ NoneRevived
        BY <3>1, <3>2, FinalizeTyped, KeptTyped DEF Over
      <3>5. QED
        BY <1>2, <3>1, <3>3, <3>4 DEF Sift, HandlersTyped
    <2>3. QED
      BY <1>2, <2>1, <2>2 DEF Sift, StateKept
  <1>3. CASE Afford(i)
    BY <1>0, <1>3, KeptTyped, MoveTyped DEF Afford, HandlersTyped, StateKept, Labels, Codes
  <1>4. CASE Replace(i)
    <2>1. {<<c, "pending">> : c \in {d \in Invites : Status(d) = "pending" /\ Of(d) = Of(i)}}
            \in SUBSET (Invites \X {"pending", "accepted"})
      OBVIOUS
    <2>2. local' \in [Handlers -> Notes]
      BY <1>0, <1>4, <2>1, SMTT(30) DEF Replace, HandlersTyped, Notes
    <2>3. QED
      BY <1>0, <1>4, <2>2, KeptTyped, MoveTyped DEF Replace, HandlersTyped, StateKept, Labels
  <1>5. CASE Drop(i)
    <2>1. CASE StateKept /\ UNCHANGED local /\ Goto(i, "create")
      BY <1>0, <1>5, <2>1, KeptTyped, MoveTyped DEF Drop, HandlersTyped, Labels
    <2>2. CASE \E f \in local[i].found :
                 /\ Finalize(f[1], "missed")
                 /\ local' = [local EXCEPT ![i].found = @ \ {f}] /\ UNCHANGED <<at, answer>>
      <3>1. PICK f \in local[i].found :
                 /\ Finalize(f[1], "missed")
                 /\ local' = [local EXCEPT ![i].found = @ \ {f}] /\ UNCHANGED <<at, answer>>
        BY <2>2
      <3>2. f[1] \in Invites
        BY <1>0 DEF HandlersTyped, Notes
      <3>3. local' \in [Handlers -> Notes]
        BY <1>0, <3>1 DEF HandlersTyped, Notes
      <3>4. StateTyped' /\ NoneRevived
        BY <3>1, <3>2, FinalizeTyped DEF Over
      <3>5. QED
        BY <1>5, <3>1, <3>3, <3>4 DEF Drop, HandlersTyped
    <2>3. QED
      BY <1>5, <2>1, <2>2 DEF Drop, StateKept
  <1>6. QED
    BY <1>1, <1>2, <1>3, <1>4, <1>5

\* The creation of a call keeps the types and, because of the index over the
\* participants of live calls, one live call per user.
LEMMA CreateKept ==
  ASSUME TypeInv, NEW i \in Invites, Create(i)
  PROVE  TypeInv' /\ (OneLiveCallPerUser => OneLiveCallPerUser')
  <1>0. i \in Handlers
    BY DEF Handlers
  <1>1. HandlersTyped'
    BY <1>0, MoveTyped DEF Create, TypeInv, HandlersTyped, Codes
  <1>2. CASE UNCHANGED calls
    BY <1>1, <1>2 DEF Create, TypeInv, StateTyped, money, Live, Status, OneLiveCallPerUser
  <1>3. CASE /\ \A c \in Invites : Live(c) => Of(c) \cap Of(i) = {}
             /\ calls' = [calls EXCEPT ![i].status = "pending"]
    <2>1. calls' \in [Invites -> Docs]
      BY <1>3 DEF TypeInv, StateTyped, Docs
    <2>2. \A c \in Invites \ {i} : calls'[c] = calls[c]
      BY <1>3 DEF TypeInv, StateTyped
    <2>3. calls'[i].status = "pending"
      BY <1>3 DEF TypeInv, StateTyped, Docs
    <2>4. \A c \in Invites : Live(c)' <=> Live(c) \/ c = i
      BY <2>2, <2>3 DEF Live, Status
    <2>5. StateTyped'
      BY <2>1, <2>4 DEF Create, TypeInv, StateTyped, money
    <2>6. ASSUME OneLiveCallPerUser PROVE OneLiveCallPerUser'
      BY <1>3, <2>4, <2>6 DEF OneLiveCallPerUser, Of
    <2>7. QED
      BY <1>1, <2>5, <2>6 DEF TypeInv
  <1>4. QED
    BY <1>2, <1>3 DEF Create
-----------------------------------------------------------------------------
\* The steps of respondCall, endCall and the reads.
LEMMA RequestKept ==
  ASSUME TypeInv, NEW r \in Requests, Start(r) \/ Read(r) \/ Conclude(r) \/ Hangup(r) \/ Accept(r)
  PROVE  Kept
  <1> USE DEF Kept, TypeInv
  <1>0. r \in Handlers /\ local[r].call \in Invites /\ local[r].final \in {"none"} \cup Over
    BY DEF Handlers, HandlersTyped, Notes
  <1>1. CASE Start(r)
    <2>1. PICK goal \in Goals, c \in Invites :
            /\ local' = [local EXCEPT ![r].goal = goal, ![r].call = c,
                                      ![r].now = IF goal = "tick" THEN clock ELSE 0]
            /\ Goto(r, IF goal = "tick" THEN "begin" ELSE "read")
      BY <1>1 DEF Start
    <2>2. local' \in [Handlers -> Notes]
      <3>1. PICK n \in Notes : n = local[r]
        BY <1>0 DEF HandlersTyped
      <3>2. (IF goal = "tick" THEN clock ELSE 0) \in 0..MaxClock
        BY DEF HandlersTyped
      <3>3. [n EXCEPT !.goal = goal, !.call = c, !.now = IF goal = "tick" THEN clock ELSE 0] \in Notes
        BY <3>1, <3>2 DEF Notes
      <3>4. QED
        BY <1>0, <2>1, <3>1, <3>3 DEF HandlersTyped
    <2>3. \E label \in Labels : Goto(r, label)
      BY <2>1 DEF Labels
    <2>4. QED
      BY <1>0, <1>1, <2>2, <2>3, KeptTyped, MoveTyped DEF Start, HandlersTyped, StateKept
  <1>2. CASE Read(r)
    <2>1. \/ UNCHANGED local
          \/ \E final \in {"none"} \cup Over : local' = [local EXCEPT ![r].final = final]
      BY <1>2 DEF Read, Over
    <2>2. local' \in [Handlers -> Notes]
      BY <1>0, <2>1, SMTT(30) DEF HandlersTyped, Notes
    <2>3. (\E label \in Labels : Goto(r, label)) \/ (\E code \in Codes : Reply(r, code))
      BY <1>2 DEF Read, Labels, Codes
    <2>4. QED
      BY <1>0, <1>2, <2>2, <2>3, KeptTyped, MoveTyped DEF Read, HandlersTyped, StateKept
  <1>3. CASE Conclude(r)
    <2>1. Finalize(local[r].call, local[r].final) \/ StateKept
      BY <1>3 DEF Conclude, StateKept
    <2>2. \E code \in Codes : Reply(r, code)
      BY <1>3 DEF Conclude, Codes
    <2>3. QED
      BY <1>0, <1>3, <2>1, <2>2, FinalizeTyped, KeptTyped, MoveTyped DEF Conclude, HandlersTyped
  <1>4. CASE Hangup(r)
    <2>1. End(local[r].call) \/ StateKept
      BY <1>4 DEF Hangup, StateKept
    <2>2. \E code \in Codes : Reply(r, code)
      BY <1>4 DEF Hangup, Codes
    <2>3. QED
      BY <1>0, <1>4, <2>1, <2>2, EndTyped, KeptTyped, MoveTyped DEF Hangup, HandlersTyped
  <1>5. CASE Accept(r)
    <2>1. (Status(local[r].call) = "pending" /\ Activate(local[r].call)) \/ StateKept
      BY <1>5 DEF Accept, StateKept
    <2>2. \E code \in Codes : Reply(r, code)
      BY <1>5 DEF Accept, Codes
    <2>3. QED
      BY <1>0, <1>5, <2>1, <2>2, ActivateTyped, KeptTyped, MoveTyped DEF Accept, HandlersTyped
  <1>6. QED
    BY <1>1, <1>2, <1>3, <1>4, <1>5

\* The steps of tickCall.
LEMMA TickKept ==
  ASSUME TypeInv, NEW r \in Requests, Tick(r)
  PROVE  Kept
  <1> USE DEF Kept, TypeInv
  <1>0. r \in Handlers /\ local[r].call \in Invites
    BY DEF Handlers, HandlersTyped, Notes
  <1>1. CASE TickBegin(r)
    <2>1. CASE UNCHANGED local /\ \E code \in Codes : Reply(r, code)
      BY <1>0, <1>1, <2>1, KeptTyped, MoveTyped DEF TickBegin, HandlersTyped, StateKept
    <2>2. CASE /\ local' = [local EXCEPT ![r].seen = calls[local[r].call],
                                         ![r].purse = coins[From[local[r].call]]]
               /\ Goto(r, "commit")
      <3>1. calls[local[r].call] \in Docs /\ coins[From[local[r].call]] \in 0..Cap
        BY <1>0 DEF StateTyped
      <3>2. local' \in [Handlers -> Notes]
        <4>1. PICK n \in Notes : n = local[r]
          BY <1>0 DEF HandlersTyped
        <4>2. [n EXCEPT !.seen = calls[local[r].call], !.purse = coins[From[local[r].call]]] \in Notes
          BY <3>1, <4>1 DEF Notes
        <4>3. QED
          BY <1>0, <2>2, <4>1, <4>2 DEF HandlersTyped
      <3>3. \E label \in Labels : Goto(r, label)
        BY <2>2 DEF Labels
      <3>4. QED
        BY <1>0, <1>1, <3>2, <3>3, KeptTyped, MoveTyped DEF TickBegin, HandlersTyped, StateKept
    <2>3. QED
      BY <1>1, <2>1, <2>2 DEF TickBegin, Codes
  <1>2. CASE TickApplied(r)
    <2>1. (Paying(r) /\ Bill(r)) \/ EndUnpaid(r)
      BY <1>2 DEF TickApplied
    <2>2. \E code \in Codes : Reply(r, code)
      BY <1>2 DEF TickApplied, Codes
    <2>3. QED
      BY <1>0, <1>2, <2>1, <2>2, BillTyped, EndUnpaidTyped, MoveTyped DEF TickApplied, HandlersTyped
  <1>3. CASE TickReruns(r)
    <2>1. local' \in [Handlers -> Notes]
      <3>1. \/ UNCHANGED local
            \/ \E b \in BOOLEAN : local' = [local EXCEPT ![r].broke = b]
        BY <1>0, <1>3 DEF TickReruns, HandlersTyped, Notes
      <3>2. QED
        BY <1>0, <3>1 DEF HandlersTyped, Notes
    <2>2. \E label \in Labels : Goto(r, label)
      BY <1>3 DEF TickReruns, Labels
    <2>3. QED
      BY <1>0, <1>3, <2>1, <2>2, KeptTyped, MoveTyped DEF TickReruns, HandlersTyped, StateKept
  <1>4. CASE TickFails(r)
    <2>1. \E code \in Codes : Reply(r, code)
      BY <1>4 DEF TickFails, Codes
    <2>2. QED
      BY <1>0, <1>4, <2>1, KeptTyped, MoveTyped DEF TickFails, HandlersTyped, StateKept
  <1>5. QED
    BY <1>1, <1>2, <1>3, <1>4 DEF Tick

\* Deadlines, the job, the clock and the rest of the platform.
LEMMA PlatformKept ==
  ASSUME TypeInv,
         \/ \E c \in Invites : Deadline(c) \/ Job(c)
         \/ \E u \in Payers : Other(u)
         \/ Tock
  PROVE  Kept
  <1> USE DEF Kept, TypeInv
  <1>1. ASSUME NEW c \in Invites, Deadline(c) PROVE Kept
    <2>1. due' \subseteq {d \in Invites : Live(d)'} /\ NoneRevived
      BY <1>1 DEF Deadline, StateTyped, Live, Status, NoneRevived
    <2>2. QED
      BY <1>1, <2>1 DEF Deadline, StateTyped, HandlersTyped, money
  <1>2. ASSUME NEW c \in Invites, Job(c) PROVE Kept
    <2>1. Finalize(c, "timeout") \/ End(c)
      BY <1>2 DEF Job
    <2>2. QED
      BY <1>2, <2>1, FinalizeTyped, EndTyped DEF Job, HandlersTyped, Over
  <1>3. ASSUME NEW u \in Payers, Other(u) PROVE Kept
    <2>1. u \in Users
      BY DEF Payers
    <2>2. PICK d \in {Price, -Price} :
            /\ coins[u] + d \in 0..Cap /\ funds[u] + d <= MaxFunds
            /\ coins' = [coins EXCEPT ![u] = @ + d] /\ funds' = [funds EXCEPT ![u] = @ + d]
      BY <1>3 DEF Other
    <2>3. coins' \in [Users -> 0..Cap]
      BY <2>1, <2>2 DEF StateTyped
    <2>4. funds' \in [Users -> Int] /\ \A v \in Users : funds'[v] <= MaxFunds
      BY <2>1, <2>2 DEF StateTyped
    <2>5. QED
      BY <1>3, <2>3, <2>4 DEF Other, StateTyped, HandlersTyped, NoneRevived, Live, Status
  <1>4. CASE Tock
    BY <1>4 DEF Tock, StateTyped, HandlersTyped, money, NoneRevived, Live, Status
  <1>5. QED
    BY <1>1, <1>2, <1>3, <1>4
-----------------------------------------------------------------------------
\* The initial state: nobody is in two calls, and every value has its type.
LEMMA InitInv == Init => TypeInv /\ OneLiveCallPerUser
  <1> SUFFICES ASSUME Init PROVE TypeInv /\ OneLiveCallPerUser
    OBVIOUS
  <1>1. calls \in [Invites -> Docs]
    BY DEF Init, NoCall, Docs
  <1>2. \A c \in Invites : Live(c) <=> c \in Debited
    BY DEF Init, NoCall, Live, Status
  <1>3. NoLocal \in Notes
    <2>1. (CHOOSE i \in Invites : TRUE) \in Invites
      OBVIOUS
    <2>2. NoCall \in Docs
      BY DEF NoCall, Docs
    <2>3. QED
      BY <2>1, <2>2 DEF NoLocal, Notes, Goals
  <1>4. <<>> \in Minutes
    BY DEF Minutes
  <1>5. ledger \in [Invites -> Entries]
    BY <1>4 DEF Init, NoEntries, Entries
  <1>6. coins \in [Users -> 0..Cap] /\ funds \in [Users -> Int] /\ \A u \in Users : funds[u] <= MaxFunds
    BY DEF Init
  <1>7. StateTyped
    BY <1>1, <1>5, <1>6 DEF Init, StateTyped
  <1>8. HandlersTyped
    BY <1>3 DEF Init, HandlersTyped, Labels, Codes
  <1>9. OneLiveCallPerUser
    BY <1>2 DEF OneLiveCallPerUser, Of
  <1>10. QED
    BY <1>7, <1>8, <1>9 DEF TypeInv

\* Every step keeps the types and one live call per user.
LEMMA NextInv ==
  ASSUME TypeInv, OneLiveCallPerUser, [Next]_vars
  PROVE  TypeInv' /\ OneLiveCallPerUser'
  <1>1. ASSUME Kept PROVE TypeInv' /\ OneLiveCallPerUser'
    BY <1>1 DEF Kept, NoneRevived, OneLiveCallPerUser, Of
  <1>2. ASSUME NEW i \in Invites, Invite(i) PROVE TypeInv' /\ OneLiveCallPerUser'
    BY <1>1, <1>2, InviteKept, CreateKept DEF Invite
  <1>3. ASSUME NEW r \in Requests, Request(r) PROVE Kept
    BY <1>3, RequestKept, TickKept DEF Request
  <1>4. CASE UNCHANGED vars
    BY <1>4 DEF vars, TypeInv, StateTyped, HandlersTyped, Live, Status, OneLiveCallPerUser
  <1>5. CASE Next
    BY <1>1, <1>2, <1>3, <1>5, PlatformKept DEF Next
  <1>6. QED
    BY <1>4, <1>5

\* Types hold in every behaviour: no wallet is ever overdrawn or over the cap,
\* though a tick debits a balance that other handlers change meanwhile.
THEOREM WalletsWithinBounds == Spec => []TypeOK
  <1>1. TypeInv => TypeOK
    BY DEF TypeInv, TypeOK, StateTyped, HandlersTyped
  <1>2. QED
    BY InitInv, NextInv, <1>1, PTL DEF Spec

\* However invitations, answers and expirations interleave, the index over the
\* participants of live calls keeps every user in at most one call.
THEOREM OneCallAtATime == Spec => []OneLiveCallPerUser
  BY InitInv, NextInv, PTL DEF Spec
=============================================================================
