SPECIFICATION LiveSpec
CONSTANTS
  Calls = {c1, c2, c3}
  Clicks = {h1}
  None = None
  Replicas = {r1}
  Requests = {q1}
  c1 = c1 c2 = c2 c3 = c3 h1 = h1 r1 = r1 r2 = r2 r3 = r3 q1 = q1 q2 = q2
  Mode <- AllInband
  Webhook = {r1}
  Env <- OneEnv
  Policies <- Gated
  SharedStore = FALSE
  FixedSecret = FALSE
  TTL = 1
  MaxTime = 0
  MaxCrashes = 1
  StoreOutcomes = {"ok", "down"}
  CatalogOutcomes = {"no_dry_run"}
  WindowOutcomes = {TRUE}
  UpstreamOutcomes = {"ok", "not_sent"}
  AuditMayFail = FALSE
CHECK_DEADLOCK FALSE
INVARIANTS
  OnceInv
PROPERTY
  EveryRequestAnswered
