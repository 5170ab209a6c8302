--------------------------- MODULE ProviderFence ----------------------------
(***************************************************************************)
(* What the subscription fence of an account promises, whoever dies or     *)
(* times out behind it: at most one call that changes something at the     *)
(* payment provider is under way, only while the door is shut, the door is *)
(* opened only when the outcome of that call is settled, and an account    *)
(* that is gone stays gone, with nothing under way.                        *)
(***************************************************************************)
CONSTANT Calls   \* the calls that change something at the provider

VARIABLES
  door,    \* "open", "shut" or "gone"
  flying   \* calls whose outcome is not settled

Init == door = "open" /\ flying = {}

Shut ==
  /\ door = "open"
  /\ door' = "shut"
  /\ UNCHANGED flying

Send(c) ==
  /\ door = "shut" /\ flying = {}
  /\ flying' = {c}
  /\ UNCHANGED door

Settle(c) ==
  /\ c \in flying
  /\ flying' = flying \ {c}
  /\ UNCHANGED door

Leave(next) ==
  /\ door = "shut" /\ flying = {}
  /\ door' = next
  /\ UNCHANGED flying

Next ==
  \/ Shut
  \/ \E c \in Calls : Send(c) \/ Settle(c)
  \/ \E next \in {"open", "gone"} : Leave(next)

Spec == Init /\ [][Next]_<<door, flying>>
=============================================================================
