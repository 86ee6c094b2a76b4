------------------------------ MODULE TierRules ------------------------------
(***************************************************************************)
(* What a tier makes of a tools/call: Engine.evaluate up to the window     *)
(* check, shared by the confirmation gate (Gate) and the relay of          *)
(* unconfirmed requests (Relay).                                           *)
(***************************************************************************)

\* "refused" stands for a tool that is not on the list, has no tier in the
\* environment, breaks a where rule or the per-call object limit.
Tiers == {"L0", "L1", "L2", "L3", "refused"}

\* dry is the value forwarded: "dry" True, "real" False, "asis" the argument
\* left as sent.
Decision(verdict, rule, dry, preview) ==
  [verdict |-> verdict, rule |-> rule, dry |-> dry, preview |-> preview]

Unsupported == Decision("deny", "dry_run.unsupported", "asis", TRUE)

Decide(t, dry, confirmed, sup) ==
  CASE t = "refused" -> Decision("deny", "policy.refused", "asis", TRUE)
    [] t = "L0" -> Decision("allow", "tier.L0.read", "asis", TRUE)
    [] t = "L1" /\ sup -> Decision("allow", "tier.L1.dry_run", "dry", TRUE)
    [] t = "L2" /\ dry /\ sup -> Decision("allow", "tier.L2.dry_run", "dry", TRUE)
    [] t = "L1" /\ ~sup -> Unsupported
    [] t = "L2" /\ dry /\ ~sup -> Unsupported
    [] t = "L2" /\ ~dry /\ confirmed ->
         Decision("allow", "tier.L2.confirmed", IF sup THEN "real" ELSE "asis", TRUE)
    [] t = "L2" /\ ~dry /\ ~confirmed ->
         Decision("confirm", "tier.L2.confirm", IF sup THEN "dry" ELSE "asis", sup)
    [] t = "L3" ->
         Decision("allow", "tier.L3.auto", IF dry /\ sup THEN "dry" ELSE "asis", TRUE)

\* _call asks the catalog for L1, L2 and an L3 that carries dry_run.
NeedsCatalog(t, dry) == t \in {"L1", "L2"} \/ (t = "L3" /\ dry)

\* Engine._counts: the decisions that are, or will be, charged to the window.
CountsFor(t, d) ==
  t # "L0" /\ (d.verdict = "confirm" \/ (d.verdict = "allow" /\ d.dry # "dry"))
=============================================================================
