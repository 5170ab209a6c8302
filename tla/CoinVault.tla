----------------------------- MODULE CoinVault ------------------------------
(***************************************************************************)
(* What the coin code promises: a wallet changes only by a credit from a   *)
(* source that still owes something, by no more than it owes and never     *)
(* past the cap, and by spending coins that are there.  There are no       *)
(* requests, transactions, deliveries or retries here.                     *)
(***************************************************************************)
EXTENDS Integers

CONSTANTS Users, Sources, Cap,
          Worth,   \* what a source credits at most, in all
          Holder   \* and to whom

VARIABLES coins, credited, spent

vaultVars == <<coins, credited, spent>>

Init ==
  /\ coins \in [Users -> 0..Cap]
  /\ credited = [s \in Sources |-> 0]
  /\ spent = [u \in Users |-> 0]

Credit(s, n) ==
  /\ coins[Holder[s]] + n <= Cap
  /\ coins' = [coins EXCEPT ![Holder[s]] = @ + n]
  /\ credited[s] + n <= Worth[s]
  /\ credited' = [credited EXCEPT ![s] = @ + n]
  /\ UNCHANGED spent

Spend(u, n) ==
  /\ n <= coins[u]
  /\ coins' = [coins EXCEPT ![u] = @ - n]
  /\ spent' = [spent EXCEPT ![u] = @ + n]
  /\ UNCHANGED credited

Next ==
  \E n \in 1..Cap :
    \/ \E s \in Sources : Credit(s, n)
    \/ \E u \in Users : Spend(u, n)

Spec == Init /\ [][Next]_vaultVars
=============================================================================
