--------------------------- MODULE MCCoinEconomy ---------------------------
(***************************************************************************)
(* The instance of CoinEconomy: a purchase, a gift, a paid room and two    *)
(* missions with their bonus, all of one user, by two requests at a time.  *)
(***************************************************************************)
EXTENDS CoinEconomy

CONSTANTS ann, order

AnnsOrder == [p \in {order} |-> ann]
=============================================================================
