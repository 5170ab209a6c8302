---------------------- MODULE MCSubscriptionLifecycle -----------------------
(***************************************************************************)
(* The instances of SubscriptionLifecycle: two concurrent requests.        *)
(***************************************************************************)
EXTENDS SubscriptionLifecycle, TLC

SameWorkers == Permutations(Workers)
=============================================================================
