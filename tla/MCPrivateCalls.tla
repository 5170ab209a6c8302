--------------------------- MODULE MCPrivateCalls ---------------------------
(***************************************************************************)
(* The instances of PrivateCalls.  In the first a caller's paid call is    *)
(* accepted, billed and ended by concurrent requests.  In the second a     *)
(* pending call that was paid in advance, an invitation the other way and  *)
(* one by a third user meet.                                               *)
(***************************************************************************)
EXTENDS PrivateCalls, TLC

CONSTANTS ann, bea, cleo, i1, i2, i3

SameRequests == Permutations(Requests)

OneFrom == i1 :> ann
OneTo == i1 :> bea

ThreeFrom == i1 :> ann @@ i2 :> bea @@ i3 :> cleo
ThreeTo == i1 :> bea @@ i2 :> ann @@ i3 :> ann
=============================================================================
