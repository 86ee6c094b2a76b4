SPECIFICATION Spec
CONSTANTS
  Calls = {c1, c2}
  Clicks = {h1}
  None = None
  Replicas = {r1, r2, r3}
  Requests = {q1, q2}
  c1 = c1 c2 = c2 c3 = c3 h1 = h1 r1 = r1 r2 = r2 r3 = r3 q1 = q1 q2 = q2
  Mode <- FirstOob
  Webhook = {r1}
  Env <- TwoEnvs
  Policies <- Reloaded
  SharedStore = TRUE
  FixedSecret = TRUE
  TTL = 1
  MaxTime = 0
  MaxCrashes = 0
  StoreOutcomes = {"ok", "lost"}
  CatalogOutcomes = {"dry_run", "no_dry_run", "unavailable"}
  WindowOutcomes = {TRUE, FALSE}
  UpstreamOutcomes = {"ok", "failed", "not_sent", "input_required", "tool_error"}
  AuditMayFail = TRUE
SYMMETRY Symmetry
CHECK_DEADLOCK FALSE
INVARIANTS
  StrictNeedsApproval
  ConsentCoversExecution
  ChargeCoversExecution
  ConsentInv
