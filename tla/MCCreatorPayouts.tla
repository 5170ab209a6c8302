-------------------------- MODULE MCCreatorPayouts --------------------------
(***************************************************************************)
(* Instances of CreatorPayouts for TLC.                                    *)
(***************************************************************************)
EXTENDS CreatorPayouts, TLC

CONSTANTS c1, c2, r1, r2, a1, a2

\* Two clicks of one creator, the first with a client key: two keys.
OwnerOne == [r \in Requests |-> c1]
KeyEach == [r \in Requests |-> r]

\* One key: sent twice by one creator, or colliding with another creator's.
OwnerTwo == [r \in Requests |-> IF r = r1 THEN c1 ELSE c2]
KeyShared == [r \in Requests |-> "k"]

RequestSymmetry == Permutations({r1, r2})
AdminSymmetry == Permutations({a1, a2})
=============================================================================
