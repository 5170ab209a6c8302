--------------------------- MODULE MCRandomMatch ---------------------------
(***************************************************************************)
(* Instances of RandomMatch for TLC.                                       *)
(***************************************************************************)
EXTENDS RandomMatch, TLC

CONSTANTS u1, u2, u3

BlockedPairs == {{u1, u3}}
WaitingUsers == <<u3>>
CallSymmetry == Permutations(Calls)
=============================================================================
