------------------------------- MODULE MCGate -------------------------------
(* Small instances of Gate for TLC. *)
EXTENDS GateRefinement, GateInvariant, TLC

CONSTANTS c1, c2, c3, h1, r1, r2, r3, q1, q2

\* Modes and webhooks of the replicas.
AllOob == [r \in Replicas |-> "oob"]
AllInband == [r \in Replicas |-> "inband"]
FirstOob == [r \in Replicas |-> IF r = r1 THEN "oob" ELSE "inband"]
OneEnv == [r \in Replicas |-> "prod"]
TwoEnvs == [r \in Replicas |-> IF r = r3 THEN "dev" ELSE "prod"]

\* Policies: every request gated; or one of several tiers after a reload.
Gated == {[q \in Requests |-> "L2"]}
Reloaded == {[q \in Requests |-> "L2"],
             [q \in Requests |-> IF q = q1 THEN "L3" ELSE "L1"]}

Symmetry == Permutations(Calls)
=============================================================================
