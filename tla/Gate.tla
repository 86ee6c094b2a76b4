-------------------------------- MODULE Gate --------------------------------
(***************************************************************************)
(* The confirmation gate of mcp-airlock: Airlock.handle/_call with         *)
(* verify_confirmation, Engine.evaluate/reserve/refund, the key table of   *)
(* the store and the approve page, on several replicas over one store.     *)
(*                                                                         *)
(* Every step below is what the code does between two awaits.  A tools/    *)
(* call is handled once, by one element of Calls; the prompt it may issue  *)
(* carries a fresh key (uuid4), so a key is named by the call that issued  *)
(* it.  Arguments, tool and principal are one element of Requests.         *)
(***************************************************************************)
EXTENDS Naturals, TierRules

CONSTANTS
  Calls,            \* tools/call requests, one HTTP exchange each
  Clicks,           \* POSTs on an approve link
  None,             \* no key, no replica, no request
  Replicas,
  Requests,         \* principal + tool + arguments (dry_run left out)
  Mode,             \* Mode[r]: AIRLOCK_APPROVAL_MODE of the replica
  Webhook,          \* the replicas with an approval webhook
  Env,              \* Env[r]: environment and upstream URL of the replica
  Policies,         \* policy files a replica may load: [Requests -> Tiers]
  SharedStore,      \* TRUE: PostgresStore, FALSE: MemoryStore
  FixedSecret,      \* TRUE: AIRLOCK_SECRET is set
  TTL,              \* confirm_ttl_s
  MaxTime,          \* bound on the clock
  MaxCrashes,       \* bound on process restarts
  StoreOutcomes,    \* what a store call may end in, see below
  CatalogOutcomes,  \* what tools/list may say about the tool
  WindowOutcomes,   \* whether the blast-radius window has room
  UpstreamOutcomes, \* how a forwarded call may end
  AuditMayFail      \* TRUE: an intent record may fail to be written

Answers == {"none", "accept", "decline"}

ASSUME NoneAssumption ==
  None \notin Calls /\ None \notin Replicas /\ None \notin Requests

\* Airlock.__init__ refuses oob without a webhook.
ASSUME ReplicaAssumption ==
  /\ Mode \in [Replicas -> {"oob", "inband"}]
  /\ Webhook \subseteq Replicas
  /\ \A r \in Replicas : Mode[r] = "oob" => r \in Webhook

ASSUME PolicyAssumption ==
  Policies # {} /\ Policies \subseteq [Requests -> Tiers]

\* The memory store of one process is nobody else's; a fixed secret without
\* the shared store is the setting the startup warnings name as unsafe.
ASSUME DeploymentAssumption ==
  /\ SharedStore \in BOOLEAN
  /\ FixedSecret \in BOOLEAN
  /\ ~SharedStore => (~FixedSecret /\ \A r, s \in Replicas : r = s)

ASSUME BoundAssumption ==
  TTL \in Nat \ {0} /\ MaxTime \in Nat /\ MaxCrashes \in Nat

\* "ok": done and answered; "down": not done, no answer within the deadline;
\* "lost": done by the server, the answer lost when the socket was cut.
ASSUME OutcomeAssumption ==
  /\ "ok" \in StoreOutcomes /\ StoreOutcomes \subseteq {"ok", "down", "lost"}
  /\ CatalogOutcomes # {}
  /\ CatalogOutcomes \subseteq {"dry_run", "no_dry_run", "unavailable"}
  /\ WindowOutcomes # {} /\ WindowOutcomes \subseteq BOOLEAN
  /\ "ok" \in UpstreamOutcomes
  /\ UpstreamOutcomes \subseteq
       {"not_sent", "failed", "input_required", "tool_error", "ok"}
  /\ AuditMayFail \in BOOLEAN

VARIABLES
  now,       \* the wall clock, the same for every replica
  exp,       \* exp[k]: expiry in the token issued by call k, 0: none issued
  dead,      \* keys whose signing secret went with its process
  crashes,   \* restarts so far
  consumed,  \* airlock_keys rows with consumed = true
  approved,  \* airlock_keys rows with approved = true
  policy,    \* policy[r]: engine.policy of the replica
  call,      \* what each tools/call is doing
  click      \* what each POST /approve is doing

vars == <<now, exp, dead, crashes, consumed, approved, policy, call, click>>
keys == <<consumed, approved>>
world == <<now, dead, crashes, policy, click>>

CallSteps == {"isConsumed", "isApproved", "catalog", "evaluate", "purge",
              "insert", "reserve", "forward", "reply", "refund", "notify"}
ClickSteps == {"isConsumed", "isApproved", "purge", "approve", "record"}

\* rule_id of the answer, and the outcomes that carry none.
Rules ==
  {"", "prompt", "lost", "mrtr.bad_signature", "mrtr.expired", "mrtr.mismatch",
   "mrtr.replay", "mrtr.declined", "mrtr.pending", "mrtr.upstream_input_required",
   "store.unavailable", "catalog.unavailable", "policy.refused",
   "dry_run.unsupported", "blast_radius.per_principal", "internal.error",
   "upstream.unreachable", "upstream.failed", "tier.L0.read", "tier.L1.dry_run",
   "tier.L2.dry_run", "tier.L2.confirm", "tier.L2.confirmed", "tier.L3.auto"}

Results ==
  {"", "lost", "400", "409", "already approved", "503", "500", "approved"}

\* mode "declining" is verify_confirmation about to burn for an answer that
\* is not an accept; took, sent and charge say what the store and the
\* upstream have had from the call; spent is history: the key was burned
\* when the request came in.
CallRec ==
  [pc     : {"new", "done"} \cup CallSteps,
   at     : Replicas \cup {None},
   req    : Requests \cup {None},
   dry    : BOOLEAN,
   key    : Calls \cup {None},
   ans    : Answers,
   tier   : Tiers,
   sup    : BOOLEAN,
   mode   : {"none", "accepted", "pending", "reissue", "declining"},
   took   : BOOLEAN,
   charge : {"none", "held", "returned"},
   sent   : BOOLEAN,
   spent  : BOOLEAN,
   rule   : Rules]

ClickRec ==
  [pc : {"new", "done"} \cup ClickSteps, at : Replicas \cup {None},
   key : Calls \cup {None}, took : BOOLEAN, logged : BOOLEAN,
   spent : BOOLEAN, res : Results]

NewCall ==
  [pc |-> "new", at |-> None, req |-> None, dry |-> FALSE, key |-> None,
   ans |-> "none", tier |-> "refused", sup |-> FALSE, mode |-> "none",
   took |-> FALSE, charge |-> "none", sent |-> FALSE, spent |-> FALSE,
   rule |-> ""]

NewClick ==
  [pc |-> "new", at |-> None, key |-> None, took |-> FALSE,
   logged |-> FALSE, spent |-> FALSE, res |-> ""]

Init ==
  /\ now = 0
  /\ exp = [k \in Calls |-> 0]
  /\ dead = {}
  /\ crashes = 0
  /\ consumed = {}
  /\ approved = {}
  /\ policy \in [Replicas -> Policies]
  /\ call = [c \in Calls |-> NewCall]
  /\ click = [h \in Clicks |-> NewClick]

-----------------------------------------------------------------------------
(* Tokens, rows and decisions *)

Issued(k) == exp[k] # 0

\* Variant: a secret that outlives the process that drew it.
VerifiesForgetful(r, k) == Issued(k) /\ (FixedSecret \/ call[k].at = r)

\* verify_token: the HMAC key of this process signed it.
Verifies(r, k) == Issued(k) /\ (FixedSecret \/ (call[k].at = r /\ k \notin dead))

Expired(k) == exp[k] < now

\* Variant: the purge takes the row in its last valid moment.
KeptEarly(rows) == {k \in rows : exp[k] > now}

\* The write of a store method starts with DELETE ... WHERE exp_ts < now.
Kept(rows) == {k \in rows : ~Expired(k)}

\* Variant: the environment is left out of the binding.
BindingNoEnv(r, q) == <<q>>

\* is_consumed: the row, without a look at its expiry.
Burned(k) == k \in consumed

\* What the token and the call must agree on.
Binding(r, q) == <<q, Env[r]>>

\* Variant: the mode in the token is not looked at.
StrictReplicaOnly(r, k) == Mode[r] = "oob"

\* The stricter of the two modes wins.
Strict(r, k) == Mode[r] = "oob" \/ Mode[call[k].at] # "inband"

\* A client can present a requestState it was given.
Presentable(k) == call[k].pc = "done" /\ call[k].rule = "prompt"

\* Engine.evaluate up to the window check.
DecisionOf(x) == Decide(x.tier, x.dry, x.mode = "accepted", x.sup)

Counts(x) == CountsFor(x.tier, DecisionOf(x))

Charged(x) == DecisionOf(x).verdict = "allow" /\ Counts(x)

\* A denial or a hold writes its intent record first; when that fails the
\* caller gets internal.error instead.
Said(rule) == {rule} \cup (IF AuditMayFail THEN {"internal.error"} ELSE {})

End(c, rule) == call' = [call EXCEPT ![c] = [@ EXCEPT !.pc = "done", !.rule = rule]]

Answer(c, rule) == \E s \in Said(rule) : End(c, s)

Goto(c, pc) == call' = [call EXCEPT ![c].pc = pc]

-----------------------------------------------------------------------------
(* verify_confirmation *)

AfterVerify(t, dry) == IF NeedsCatalog(t, dry) THEN "catalog" ELSE "evaluate"

\* The checks before the first await: where the call goes, in which mode,
\* with which answer when it is denied.
Entry(r, q, dry, k, a) ==
  LET on(mode) == [pc |-> AfterVerify(policy[r][q], dry), mode |-> mode, rule |-> ""]
      at(pc, mode) == [pc |-> pc, mode |-> mode, rule |-> ""]
      deny(rule) == [pc |-> "done", mode |-> "none", rule |-> rule]
  IN CASE k = None -> on("none")
       [] k # None /\ ~Verifies(r, k) -> deny("mrtr.bad_signature")
       [] k # None /\ Verifies(r, k) /\ Expired(k) -> deny("mrtr.expired")
       [] k # None /\ Verifies(r, k) /\ ~Expired(k)
            /\ Binding(r, q) # Binding(call[k].at, call[k].req) -> deny("mrtr.mismatch")
       [] OTHER ->
            IF a = "none" \/ (a = "accept" /\ Strict(r, k)) THEN at("isConsumed", "none")
            ELSE IF a = "accept" THEN on("accepted")
            ELSE at("purge", "declining")

\* handle takes the engine once: the tier is the one of this moment.
Receive(c, r, q, dry, k, a) ==
  /\ call[c].pc = "new"
  /\ IF k = None THEN a = "none" ELSE Presentable(k)
  /\ LET e == Entry(r, q, dry, k, a)
     IN \E s \in IF e.pc = "done" THEN Said(e.rule) ELSE {""} :
          call' = [call EXCEPT ![c] =
            [NewCall EXCEPT !.pc = e.pc, !.at = r, !.req = q, !.dry = dry, !.key = k,
                            !.ans = a, !.tier = policy[r][q], !.mode = e.mode,
                            !.spent = Burned(k), !.rule = s]]
  /\ UNCHANGED <<exp, keys, world>>

\* A call to the store ended without an answer.
StoreFailed(c) ==
  /\ StoreOutcomes \cap {"down", "lost"} # {}
  /\ Answer(c, "store.unavailable")

\* Variant: pending is answered without asking whether the key is burned.
CheckConsumedNever(c) ==
  /\ call[c].pc = "isConsumed"
  /\ Goto(c, "isApproved") \/ StoreFailed(c)
  /\ UNCHANGED <<exp, keys, world>>

CheckConsumed(c) ==
  /\ call[c].pc = "isConsumed"
  /\ \/ Burned(call[c].key) /\ Answer(c, "mrtr.replay")
     \/ ~Burned(call[c].key) /\ Goto(c, "isApproved")
     \/ StoreFailed(c)
  /\ UNCHANGED <<exp, keys, world>>

\* Variant: a client that may approve is taken to have approved.
ApprovalModeLenient(c) ==
  LET k == call[c].key r == call[c].at
  IN IF (k \in approved /\ ~Expired(k)) \/ ~Strict(r, k) THEN "accepted" ELSE "pending"

\* Approved, or nobody but the client can approve, or still waiting.
ApprovalMode(c) ==
  LET k == call[c].key r == call[c].at
  IN CASE k \in approved /\ ~Expired(k) -> "accepted"
       [] ~(k \in approved /\ ~Expired(k)) /\ ~Strict(r, k) /\ r \notin Webhook -> "reissue"
       [] OTHER -> "pending"

\* Variant: the request is held open until the approver answers.
CheckApprovedHolds(c) ==
  /\ call[c].pc = "isApproved"
  /\ ApprovalMode(c) # "pending"
  /\ call' = [call EXCEPT ![c] =
       [@ EXCEPT !.pc = AfterVerify(call[c].tier, call[c].dry), !.mode = ApprovalMode(c)]]
  /\ UNCHANGED <<exp, keys, world>>

CheckApproved(c) ==
  /\ call[c].pc = "isApproved"
  /\ \/ call' = [call EXCEPT ![c] =
          [@ EXCEPT !.pc = AfterVerify(call[c].tier, call[c].dry), !.mode = ApprovalMode(c)]]
     \/ StoreFailed(c)
  /\ UNCHANGED <<exp, keys, world>>

-----------------------------------------------------------------------------
(* consume_once, for an accept right before forwarding and for a decline:  *)
(* a DELETE of the expired rows, then the INSERT ... ON CONFLICT.          *)

PurgeKeys ==
  /\ consumed' = Kept(consumed)
  /\ approved' = Kept(approved)

Purge(c) ==
  /\ call[c].pc = "purge"
  /\ \/ /\ "ok" \in StoreOutcomes
        /\ PurgeKeys
        /\ Goto(c, "insert")
     \/ /\ "lost" \in StoreOutcomes
        /\ PurgeKeys
        /\ Answer(c, "store.unavailable")
     \/ /\ "down" \in StoreOutcomes
        /\ UNCHANGED keys
        /\ Answer(c, "store.unavailable")
  /\ UNCHANGED <<exp, world>>

\* Variant: the upsert without WHERE NOT consumed.
WinsAlways(k) == TRUE

\* The row decides: only the insert that finds none consumed wins.
Wins(k) == ~Burned(k)

BurnEnds(c, pc, rules) ==
  \E s \in rules :
    call' = [call EXCEPT ![c] =
      [@ EXCEPT !.pc = pc, !.rule = s, !.took = Wins(call[c].key)]]

\* The insert is answered: burned before, declined now, or on to the charge.
InsertOk(c) ==
  \/ ~Wins(call[c].key) /\ BurnEnds(c, "done", Said("mrtr.replay"))
  \/ /\ Wins(call[c].key) /\ call[c].mode = "declining"
     /\ BurnEnds(c, "done", Said("mrtr.declined"))
  \/ /\ Wins(call[c].key) /\ call[c].mode # "declining"
     /\ BurnEnds(c, "reserve", {""})

Insert(c) ==
  /\ call[c].pc = "insert"
  /\ \/ /\ "ok" \in StoreOutcomes
        /\ consumed' = consumed \cup {call[c].key}
        /\ InsertOk(c)
     \/ /\ "lost" \in StoreOutcomes
        /\ consumed' = consumed \cup {call[c].key}
        /\ BurnEnds(c, "done", Said("store.unavailable"))
     \/ /\ "down" \in StoreOutcomes
        /\ consumed' = consumed
        /\ Answer(c, "store.unavailable")
  /\ UNCHANGED <<exp, approved, world>>

-----------------------------------------------------------------------------
(* The rest of _call *)

\* _dry_run_property: the schema of the tool has a dry_run argument.
Declares(o) == o = "dry_run"

Catalog(c) ==
  /\ call[c].pc = "catalog"
  /\ \/ \E o \in CatalogOutcomes \ {"unavailable"} :
          call' = [call EXCEPT ![c] = [@ EXCEPT !.pc = "evaluate", !.sup = Declares(o)]]
     \/ "unavailable" \in CatalogOutcomes /\ Answer(c, "catalog.unavailable")
  /\ UNCHANGED <<exp, keys, world>>

\* Variant: the expiry is counted in another unit.
PromptInMillis(c) ==
  /\ exp' = [exp EXCEPT ![c] = now + 1000 * TTL]
  /\ End(c, "prompt")

\* The token is signed with a fresh key and the prompt posted to the webhook.
Prompt(c) ==
  /\ exp' = [exp EXCEPT ![c] = now + TTL]
  /\ IF call[c].at \in Webhook
     THEN Goto(c, "notify")
     ELSE End(c, "prompt")

\* Variant: the earlier look at the key is taken for the burn.
AfterEvaluateNoBurn(c) ==
  LET d == DecisionOf(call[c])
  IN CASE d.verdict = "confirm" /\ call[c].mode = "pending" -> "pending"
       [] d.verdict = "confirm" /\ call[c].mode # "pending" ->
            IF d.preview THEN "forward" ELSE "prompt"
       [] OTHER -> IF Charged(call[c]) THEN "reserve" ELSE "forward"

\* What follows a decision that was not a denial, after the window check.
AfterEvaluate(c) ==
  LET d == DecisionOf(call[c])
  IN CASE d.verdict = "confirm" /\ call[c].mode = "pending" -> "pending"
       [] d.verdict = "confirm" /\ call[c].mode # "pending" ->
            IF d.preview THEN "forward" ELSE "prompt"
       [] d.rule = "tier.L2.confirmed" -> "purge"
       [] OTHER -> IF Charged(call[c]) THEN "reserve" ELSE "forward"

\* The intent record comes before anything that follows is done.
Proceed(c, to) ==
  \/ /\ to = "pending"
     /\ Answer(c, "mrtr.pending")
     /\ exp' = exp
  \/ /\ to = "prompt"
     /\ Prompt(c)
  \/ /\ to \in {"purge", "reserve", "forward"}
     /\ Goto(c, to)
     /\ exp' = exp
  \/ /\ to \in {"prompt", "forward"} /\ AuditMayFail
     /\ End(c, "internal.error")
     /\ exp' = exp

Evaluate(c) ==
  /\ call[c].pc = "evaluate"
  /\ LET d == DecisionOf(call[c])
     IN \/ d.verdict = "deny" /\ Answer(c, d.rule) /\ exp' = exp
        \/ /\ Counts(call[c])
           /\ \/ StoreFailed(c)
              \/ FALSE \in WindowOutcomes /\ Answer(c, "blast_radius.per_principal")
           /\ exp' = exp
        \/ /\ d.verdict # "deny"
           /\ Counts(call[c]) => TRUE \in WindowOutcomes
           /\ Proceed(c, AfterEvaluate(c))
  /\ UNCHANGED <<keys, world>>

ChargeEnds(c, pc, rule, charge) ==
  call' = [call EXCEPT ![c] = [@ EXCEPT !.pc = pc, !.rule = rule, !.charge = charge]]

\* Engine.reserve, then the intent record of the real call.
Reserve(c) ==
  /\ call[c].pc = "reserve"
  /\ \/ /\ TRUE \in WindowOutcomes
        /\ \/ ChargeEnds(c, "forward", "", "held")
           \/ AuditMayFail /\ ChargeEnds(c, "done", "internal.error", "held")
           \/ "lost" \in StoreOutcomes /\ ChargeEnds(c, "done", "store.unavailable", "held")
     \/ FALSE \in WindowOutcomes /\ Answer(c, "blast_radius.per_principal")
     \/ StoreFailed(c)
  /\ UNCHANGED <<exp, keys, world>>

\* Only a failed connect is known not to have reached the upstream; the
\* charge of such a call is given back.
Forward(c) ==
  /\ call[c].pc = "forward"
  /\ \/ /\ "not_sent" \in UpstreamOutcomes
        /\ IF call[c].charge = "held"
           THEN Goto(c, "refund")
           ELSE End(c, "upstream.unreachable")
     \/ call' = [call EXCEPT ![c] = [@ EXCEPT !.pc = "reply", !.sent = TRUE]]
  /\ UNCHANGED <<exp, keys, world>>

\* engine.refund; a failing refund is only logged.
Refund(c) ==
  /\ call[c].pc = "refund"
  /\ \E o \in StoreOutcomes :
       ChargeEnds(c, "done", "upstream.unreachable",
                  IF o = "down" THEN "held" ELSE "returned")
  /\ UNCHANGED <<exp, keys, world>>

\* Variant: every upstream failure gives the charge back.
ReplyRefunds(c) ==
  /\ call[c].pc = "reply"
  /\ IF call[c].charge = "held" /\ "failed" \in UpstreamOutcomes
     THEN Goto(c, "refund")
     ELSE End(c, "upstream.failed")
  /\ UNCHANGED <<exp, keys, world>>

\* The upstream's answer, or its failure after it was reached.
Reply(c) ==
  LET d == DecisionOf(call[c])
      gated == d.rule \in {"tier.L2.confirm", "tier.L2.confirmed"}
  IN /\ call[c].pc = "reply"
     /\ \/ /\ "failed" \in UpstreamOutcomes
           /\ End(c, "upstream.failed")
           /\ exp' = exp
        \/ /\ "input_required" \in UpstreamOutcomes
           /\ End(c, IF gated THEN "mrtr.upstream_input_required" ELSE d.rule)
           /\ exp' = exp
        \/ /\ "tool_error" \in UpstreamOutcomes
           /\ End(c, d.rule)
           /\ exp' = exp
        \/ /\ "ok" \in UpstreamOutcomes
           /\ IF d.verdict = "confirm" THEN Prompt(c) ELSE End(c, d.rule) /\ exp' = exp
     /\ UNCHANGED <<keys, world>>

\* _notify: save_prompt and the webhook post; neither failure is raised.  The
\* memory store purges its expired keys on this write as well.
Notify(c) ==
  /\ call[c].pc = "notify"
  /\ End(c, "prompt")
  /\ IF SharedStore THEN UNCHANGED keys ELSE PurgeKeys
  /\ UNCHANGED <<exp, world>>

-----------------------------------------------------------------------------
(* POST /approve *)

ClickDone(h, res) ==
  click' = [click EXCEPT ![h] = [@ EXCEPT !.pc = "done", !.res = res]]

ClickFailed(h) ==
  StoreOutcomes \cap {"down", "lost"} # {} /\ ClickDone(h, "503")

\* The link of every prompt posted to a webhook is in somebody's hands.
Press(h, r, k) ==
  /\ click[h].pc = "new"
  /\ Issued(k) /\ call[k].at \in Webhook
  /\ LET ok == Verifies(r, k) /\ ~Expired(k)
     IN click' = [click EXCEPT ![h] =
          [NewClick EXCEPT !.pc = IF ok THEN "isConsumed" ELSE "done", !.at = r, !.key = k,
                           !.spent = Burned(k), !.res = IF ok THEN "" ELSE "400"]]
  /\ UNCHANGED <<now, exp, dead, crashes, keys, policy, call>>

\* Variant: the page looks only at the approval, not at the burn.
ClickConsumedNever(h) ==
  /\ click[h].pc = "isConsumed"
  /\ click' = [click EXCEPT ![h].pc = "isApproved"]
  /\ UNCHANGED <<now, exp, dead, crashes, keys, policy, call>>

ClickConsumed(h) ==
  /\ click[h].pc = "isConsumed"
  /\ \/ Burned(click[h].key) /\ ClickDone(h, "409")
     \/ ~Burned(click[h].key) /\ click' = [click EXCEPT ![h].pc = "isApproved"]
     \/ ClickFailed(h)
  /\ UNCHANGED <<now, exp, dead, crashes, keys, policy, call>>

ClickApproved(h) ==
  LET k == click[h].key
      is == k \in approved /\ ~Expired(k)
  IN /\ click[h].pc = "isApproved"
     /\ \/ is /\ ClickDone(h, "already approved")
        \/ ~is /\ click' = [click EXCEPT ![h].pc = "purge"]
        \/ ClickFailed(h)
     /\ UNCHANGED <<now, exp, dead, crashes, keys, policy, call>>

ClickPurge(h) ==
  /\ click[h].pc = "purge"
  /\ \/ "ok" \in StoreOutcomes /\ PurgeKeys /\ click' = [click EXCEPT ![h].pc = "approve"]
     \/ "lost" \in StoreOutcomes /\ PurgeKeys /\ ClickDone(h, "503")
     \/ "down" \in StoreOutcomes /\ UNCHANGED keys /\ ClickDone(h, "503")
  /\ UNCHANGED <<now, exp, dead, crashes, policy, call>>

\* INSERT ... ON CONFLICT DO UPDATE SET approved = true, whatever the row says.
ClickApprove(h) ==
  /\ click[h].pc = "approve"
  /\ \/ /\ approved' = approved \cup {click[h].key}
        /\ \/ click' = [click EXCEPT ![h] =
                [@ EXCEPT !.pc = "record", !.res = "", !.took = TRUE]]
           \/ /\ "lost" \in StoreOutcomes
              /\ click' = [click EXCEPT ![h] =
                   [@ EXCEPT !.pc = "done", !.res = "503", !.took = TRUE]]
     \/ /\ "down" \in StoreOutcomes
        /\ approved' = approved
        /\ ClickDone(h, "503")
  /\ UNCHANGED <<now, exp, dead, crashes, consumed, policy, call>>

\* Who pressed is resolved, then the approval goes to the audit.
ClickRecord(h) ==
  /\ click[h].pc = "record"
  /\ \/ click' = [click EXCEPT ![h] =
          [@ EXCEPT !.pc = "done", !.res = "approved", !.logged = TRUE]]
     \/ AuditMayFail /\ ClickDone(h, "500")
  /\ UNCHANGED <<now, exp, dead, crashes, keys, policy, call>>

-----------------------------------------------------------------------------
(* The process and its surroundings *)

Tick ==
  /\ now < MaxTime
  /\ now' = now + 1
  /\ UNCHANGED <<exp, dead, crashes, keys, policy, call, click>>

\* SIGHUP: a request keeps the engine it started with, the store carries over.
Reload(r) ==
  /\ \E p \in Policies : policy' = [policy EXCEPT ![r] = p]
  /\ UNCHANGED <<now, exp, dead, crashes, keys, call, click>>

\* The process dies and starts again: its requests are gone, and with a random
\* secret so are its tokens; the memory store starts empty.
Restart(r) ==
  /\ crashes < MaxCrashes
  /\ crashes' = crashes + 1
  /\ dead' = dead \cup (IF FixedSecret THEN {} ELSE {k \in Calls : call[k].at = r /\ Issued(k)})
  /\ consumed' = IF SharedStore THEN consumed ELSE {}
  /\ approved' = IF SharedStore THEN approved ELSE {}
  /\ call' = [c \in Calls |->
       IF call[c].at = r /\ call[c].pc # "done"
       THEN [call[c] EXCEPT !.pc = "done", !.rule = "lost"] ELSE call[c]]
  /\ click' = [h \in Clicks |->
       IF click[h].at = r /\ click[h].pc # "done"
       THEN [click[h] EXCEPT !.pc = "done", !.res = "lost"] ELSE click[h]]
  /\ UNCHANGED <<now, exp, policy>>

Handle(c) ==
  \/ CheckConsumed(c) \/ CheckApproved(c) \/ Purge(c) \/ Insert(c)
  \/ Catalog(c) \/ Evaluate(c) \/ Reserve(c) \/ Forward(c) \/ Refund(c)
  \/ Reply(c) \/ Notify(c)

Approve(h) ==
  \/ ClickConsumed(h) \/ ClickApproved(h) \/ ClickPurge(h) \/ ClickApprove(h)
  \/ ClickRecord(h)

Next ==
  \/ \E c \in Calls, r \in Replicas, q \in Requests, dry \in BOOLEAN,
        k \in Calls \cup {None}, a \in Answers : Receive(c, r, q, dry, k, a)
  \/ \E c \in Calls : Handle(c)
  \/ \E h \in Clicks, r \in Replicas, k \in Calls : Press(h, r, k)
  \/ \E h \in Clicks : Approve(h)
  \/ Tick
  \/ \E r \in Replicas : Reload(r) \/ Restart(r)

Spec == Init /\ [][Next]_vars

\* No step of a handler waits for ever: store calls end at their deadline, the
\* upstream at the HTTP timeout, everything else runs on the event loop.
Fairness ==
  /\ \A c \in Calls : WF_vars(Handle(c))
  /\ \A h \in Clicks : WF_vars(Approve(h))

LiveSpec == Spec /\ Fairness

-----------------------------------------------------------------------------
(* What the gate promises *)

\* Types of all the state.
TypeOK ==
  /\ now \in 0..MaxTime
  /\ exp \in [Calls -> 0..(MaxTime + TTL)]
  /\ dead \subseteq Calls
  /\ crashes \in 0..MaxCrashes
  /\ consumed \subseteq Calls
  /\ approved \subseteq Calls
  /\ policy \in [Replicas -> Policies]
  /\ call \in [Calls -> CallRec]
  /\ click \in [Clicks -> ClickRec]

\* The upstream was sent the call as a real one.
Ran(c) ==
  /\ call[c].sent
  /\ DecisionOf(call[c]).verdict = "allow"
  /\ DecisionOf(call[c]).dry # "dry"

\* ... behind the confirmation gate.
Confirmed(c) == Ran(c) /\ call[c].tier = "L2"

\* While a confirmation has not expired, two requests that carry it are not
\* both executed, on whatever replicas and however their steps interleave
\* with store failures and restarts (app.py, "burn the key first, atomically").
ExecutedOnceWhileLive ==
  \A c, d \in Calls :
    (c # d /\ Confirmed(c) /\ Confirmed(d) /\ call[c].key = call[d].key)
      => Expired(call[c].key)

\* A client that was told mrtr.declined for a confirmation never sees it
\* executed for another request while it is live, even one already past
\* verify_confirmation when the decline came.
DeclinedNeverRuns ==
  \A c, d \in Calls :
    (call[c].rule = "mrtr.declined" /\ Confirmed(d) /\ call[c].key = call[d].key)
      => Expired(call[c].key)

\* Where the token or the replica is in oob mode, nothing is executed without
\* an approval that reached the store over the approve link, whatever answer
\* the client put into inputResponses (the stricter mode wins).
StrictNeedsApproval ==
  \A c \in Calls :
    (Confirmed(c) /\ "oob" \in {Mode[call[c].at], Mode[call[call[c].key].at]})
      => \E h \in Clicks : click[h].took /\ click[h].key = call[c].key

\* What is executed is what was shown: the prompt of the key was issued by
\* another request with the same principal, tool, arguments, environment and
\* upstream, and was answered with an accept or approved over the link.
ConsentCoversExecution ==
  \A c \in Calls : Confirmed(c) =>
    /\ call[c].key \in Calls \ {c}
    /\ LET p == call[call[c].key]
       IN /\ Issued(call[c].key)
          /\ p.req = call[c].req /\ Env[p.at] = Env[call[c].at]
          /\ p.tier = "L2" /\ DecisionOf(p).verdict = "confirm"
    /\ \/ call[c].ans = "accept"
       \/ \E h \in Clicks : click[h].took /\ click[h].key = call[c].key

\* Everything executed is charged to the principal's window and stays so; a
\* charge is given back only when the upstream was not reached.
ChargeCoversExecution ==
  \A c \in Calls :
    /\ Ran(c) /\ call[c].tier # "L0" => call[c].charge = "held"
    /\ call[c].charge = "returned" => ~call[c].sent

\* A burned key is never un-burned while a token that carries it could still
\* be accepted by some replica.
NeverUnburned ==
  [][\A k \in consumed \ consumed' : Expired(k)' \/ k \in dead']_vars

\* A retry for a key that was executed or declined before the retry came is
\* refused as a replay, never held as pending (nor told to poll).
PendingIsOpen ==
  \A c \in Calls :
    (call[c].rule = "mrtr.pending" /\ call[c].spent) => Expired(call[c].key)

\* A POST that arrives when the key is already burned records no approval.
SpentIsNotApproved ==
  \A h \in Clicks :
    (click[h].took /\ click[h].spent) => Expired(click[h].key)

\* Every request that was received is answered or dies with its process: no
\* step waits for another request, for the approver or for the clock.
EveryRequestAnswered ==
  /\ \A c \in Calls : (call[c].pc # "new") ~> (call[c].pc = "done")
  /\ \A h \in Clicks : (click[h].pc # "new") ~> (click[h].pc = "done")

-----------------------------------------------------------------------------
(* Sentences of the repository the code does not keep *)

\* src/README.md:36 "the proxy executes it for real, once. Repeating it again is
\* refused"; src/README.md:456 "two replicas cannot both execute the same
\* confirmation".
ExecutedOnce ==
  \A c, d \in Calls :
    (c # d /\ Confirmed(c) /\ Confirmed(d)) => call[c].key # call[d].key

\* src/README.md:516 "once it has been executed or declined there is no button,
\* and a POST answers 409 without recording anything".
BurnedKeyIsNeverApproved ==
  [][\A h \in Clicks :
       (~click[h].took /\ click[h].took' /\ ~Expired(click[h].key))
         => click[h].key \notin consumed]_vars
=============================================================================
