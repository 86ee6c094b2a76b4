------------------------------- MODULE MCRelay -------------------------------
(* A small instance of Relay for TLC. *)
EXTENDS Relay, TLC

CONSTANTS q1, q2, ann, oncall, plain, dry

\* Ann is on call; somebody is named like the group and is in none.
TwoCallers ==
  {[name |-> ann, groups |-> <<oncall>>], [name |-> oncall, groups |-> << >>]}

\* A tool that is previewed or gated and pinned to one definition; moved to
\* other tiers, or off the list, with a pin on the other one or none.
ThreeLoads ==
  {[tiers |-> "L1", own |-> oncall :> "L2", pin |-> dry],
   [tiers |-> "refused", own |-> (oncall :> "L2") @@ (ann :> "L3"), pin |-> plain],
   [tiers |-> "L0", own |-> ann :> "refused", pin |-> None]}

Symmetry == Permutations(Requests)
=============================================================================
