---------------------------- MODULE PayoutLedger ----------------------------
(***************************************************************************)
(* What the withdrawal code promises a creator: an account with a balance, *)
(* at most one amount held for a withdrawal, and a total already settled.  *)
(* There are no requests, transactions, retries or payout documents here.  *)
(***************************************************************************)
EXTENDS Integers

CONSTANTS Creators, MinPayout

VARIABLES balance, held, settled, open

ledgerVars == <<balance, held, settled, open>>

Init ==
  /\ balance = [c \in Creators |-> 0]
  /\ held = [c \in Creators |-> 0]
  /\ settled = [c \in Creators |-> 0]
  /\ open = [c \in Creators |-> TRUE]

Earn(c) ==
  /\ open[c]
  /\ balance'[c] > balance[c]
  /\ balance' = [balance EXCEPT ![c] = balance'[c]]
  /\ UNCHANGED <<held, settled, open>>

\* A withdrawal takes the whole balance, and only one is under way.
Hold(c) ==
  /\ open[c] /\ held[c] = 0 /\ balance[c] >= MinPayout
  /\ held' = [held EXCEPT ![c] = balance[c]]
  /\ balance' = [balance EXCEPT ![c] = 0]
  /\ UNCHANGED <<settled, open>>

\* Rejection gives the held amount back.
Release(c) ==
  /\ open[c] /\ held[c] > 0
  /\ balance' = [balance EXCEPT ![c] = @ + held[c]]
  /\ held' = [held EXCEPT ![c] = 0]
  /\ UNCHANGED <<settled, open>>

\* Payment; an orphaned withdrawal of a deleted creator can still be paid.
Settle(c) ==
  /\ held[c] > 0
  /\ settled' = [settled EXCEPT ![c] = @ + held[c]]
  /\ held' = [held EXCEPT ![c] = 0]
  /\ UNCHANGED <<balance, open>>

\* The creator's account is deleted, with or without its withdrawal.
Close(c) ==
  /\ open[c]
  /\ open' = [open EXCEPT ![c] = FALSE]
  /\ balance' = [balance EXCEPT ![c] = 0]
  /\ held' \in {held, [held EXCEPT ![c] = 0]}
  /\ UNCHANGED settled

Next == \E c \in Creators : Earn(c) \/ Hold(c) \/ Release(c) \/ Settle(c) \/ Close(c)

Spec == Init /\ [][Next]_ledgerVars
=============================================================================
