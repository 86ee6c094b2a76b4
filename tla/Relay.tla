-------------------------------- MODULE Relay --------------------------------
(***************************************************************************)
(* One airlock process as a relay: Airlock.handle with its checks at the   *)
(* door, _passthrough (tools/list and server/discover), and _call for a    *)
(* request without a confirmation, with the steps of the engine, the       *)
(* audit records of every request and a SIGHUP at any await.  Confirmed    *)
(* calls are the module Gate's, what the catalog says is Catalog's.        *)
(*                                                                         *)
(* One tool stands for all of them: requests share only engine and pins.   *)
(***************************************************************************)
EXTENDS Naturals, Sequences, TierRules

CONSTANTS
  Requests,      \* HTTP requests to /mcp
  None,          \* nobody
  Callers,       \* [name, groups]: principals with their groups
  GroupKeys,     \* the keys "group:..." of a policy, which name groups
  Defs,          \* definitions the upstream may list of the tool
  Loads,         \* [tiers, own, pin]: the policy and pins files of one load
  StoreMayFail,  \* TRUE: a window step may find no store
  AuditMayFail   \* TRUE: a write to the audit log may raise

ASSUME NoneAssumption == None \notin Callers /\ None \notin Defs

\* A subject may happen to be named like a group.
ASSUME CallerAssumption == \A w \in Callers : w.groups \in Seq(GroupKeys)

\* The keys of a caller in the order they count: its own name first, unless
\* that is one of a group.
Keys(who) ==
  (IF who.name \in GroupKeys THEN << >> ELSE <<who.name>>) \o who.groups

\* Policy.tier
TierOf(load, who) ==
  LET keys == Keys(who)
      hits == {i \in DOMAIN keys : keys[i] \in DOMAIN load.own}
  IN IF hits = {} THEN load.tiers
     ELSE load.own[keys[CHOOSE i \in hits : \A j \in hits : i <= j]]

\* tiers is the tier of the environment, own what principals and groups have
\* instead; pin None: the tool has no pin.
ASSUME LoadAssumption ==
  /\ Loads # {}
  /\ \A l \in Loads :
       /\ l.tiers \in Tiers /\ l.pin \in Defs \cup {None}
       /\ \A w \in Callers : TierOf(l, w) \in Tiers

ASSUME FailureAssumption == StoreMayFail \in BOOLEAN /\ AuditMayFail \in BOOLEAN

VARIABLES
  engine,  \* self.engine and self.pins: one load
  req      \* what each request is doing

vars == <<engine, req>>

Rules ==
  {"", "bare", "protocol", "internal.error", "passthrough", "catalog.unavailable",
   "catalog.pin_mismatch", "store.unavailable", "blast_radius.per_principal",
   "policy.refused", "dry_run.unsupported", "upstream.unreachable",
   "upstream.failed", "mrtr.upstream_input_required", "tier.L0.read",
   "tier.L1.dry_run", "tier.L2.dry_run", "tier.L2.confirm", "tier.L2.confirmed",
   "tier.L3.auto"}

Records == [phase : {"intent", "outcome"}, rule : Rules]

\* load is what handle took on arrival, seen (history) every load in effect
\* since; sup: the catalog declares dry_run; fwd: the value forwarded; shown:
\* the definition a listing handed on; pinlog: the records of a dropped tool,
\* which have a call_id of their own; ans: rule_id of the answer.
ReqRec ==
  [pc     : {"new", "reading", "catalog", "window", "reserve", "upstream", "notify", "done"},
   kind   : {"list", "call"},
   who    : Callers \cup {None},
   dry    : BOOLEAN,
   load   : Loads,
   seen   : SUBSET Loads,
   sup    : BOOLEAN,
   fwd    : {"none", "asis", "dry", "real"},
   sent   : BOOLEAN,
   shown  : Defs \cup {None},
   log    : Seq(Records),
   pinlog : Seq(Records),
   ans    : Rules]

NewReq(l) ==
  [pc |-> "new", kind |-> "call", who |-> None, dry |-> FALSE, load |-> l,
   seen |-> {}, sup |-> FALSE, fwd |-> "none", sent |-> FALSE, shown |-> None,
   log |-> <<>>, pinlog |-> <<>>, ans |-> ""]

Init ==
  /\ engine \in Loads
  /\ req = [r \in Requests |-> NewReq(engine)]

-----------------------------------------------------------------------------
(* The audit records of a request.  Each operator is the set of states the *)
(* request may be in afterwards: a write that may fail has two ends.       *)

Log(x, phase, rule) ==
  [x EXCEPT !.log = Append(@, [phase |-> phase, rule |-> rule])]

Answered(x, rule) == [x EXCEPT !.pc = "done", !.ans = rule]

\* Variant: the answer is built after its outcome and may still raise.
EndedTwice(x, rule) ==
  LET y == Log(x, "outcome", rule)
  IN {Answered(y, rule), Answered(Log(y, "outcome", "internal.error"), "internal.error")}

\* _outcome, whose failure is only logged, and the answer.
Ended(x, rule) ==
  {Answered(y, rule) :
     y \in {Log(x, "outcome", rule)} \cup (IF AuditMayFail THEN {x} ELSE {})}

\* An exception inside handle's try: an outcome that may lack its intent.
Raised(x) == IF AuditMayFail THEN Ended(x, "internal.error") ELSE {}

\* An exception outside it, or in its own handlers: the server's bare 500.
Bare(x) == IF AuditMayFail THEN {Answered(x, "bare")} ELSE {}

\* _audit_deny from within the try.
Denied(x, rule) == Ended(Log(x, "intent", rule), rule) \cup Raised(x)

\* _audit_deny from _reject, for a missing principal, and for a store that
\* did not answer.
Refused(x, rule) == Ended(Log(x, "intent", rule), rule) \cup Bare(x)

\* Variant: a failing intent does not stop the request.
IntentOpen(x, rule) == {x, Log(x, "intent", rule)}

\* audit.write of an intent, without which the request goes no further.
Intent(x, rule) == {Log(x, "intent", rule)}

Forwarding(x, rule, fwd) ==
  {[y EXCEPT !.pc = "upstream", !.fwd = fwd] : y \in Intent(x, rule)} \cup Raised(x)

-----------------------------------------------------------------------------
(* The decision on a call *)

Tier(x) == TierOf(x.load, x.who)

DecisionOf(x) == Decide(Tier(x), x.dry, FALSE, x.sup)

\* After the window: a prompt without a preview, or the forward.
Ready(x) ==
  LET d == DecisionOf(x)
  IN IF d.verdict = "confirm" /\ ~d.preview
     THEN {[y EXCEPT !.pc = "notify"] : y \in Intent(x, d.rule)} \cup Raised(x)
     ELSE Forwarding(x, d.rule, d.dry)

\* Engine.evaluate up to its window check.
Judge(x) ==
  LET d == DecisionOf(x)
  IN IF d.verdict = "deny" THEN Denied(x, d.rule)
     ELSE IF CountsFor(Tier(x), d) THEN {[x EXCEPT !.pc = "window"]}
     ELSE Ready(x)

\* What handle does with a well-formed request of a known caller.
Start(x) ==
  IF x.kind = "list" THEN Forwarding(x, "passthrough", "asis")
  ELSE IF NeedsCatalog(Tier(x), x.dry) THEN {[x EXCEPT !.pc = "catalog"]}
  ELSE Judge(x)

\* Request r ends up in one of the states xs; nothing else moves.
Become(r, xs) ==
  /\ \E x \in xs : req' = [req EXCEPT ![r] = x]
  /\ engine' = engine

-----------------------------------------------------------------------------
(* Airlock.handle *)

\* The engine and the pins are taken before the body is read.
Arrive(r) ==
  /\ req[r].pc = "new"
  /\ Become(r, {[NewReq(engine) EXCEPT !.pc = "reading", !.seen = {engine}]})

\* Too large, not a single JSON-RPC request, refused by the SDK ladder, a
\* method that is not proxied, or no principal.
Reject(r) ==
  /\ req[r].pc = "reading"
  /\ Become(r, Refused(req[r], "protocol"))

\* The body is read and the caller resolved, up to the next await.
Identify(r) ==
  /\ req[r].pc = "reading"
  /\ \E w \in Callers, kind \in {"list", "call"}, dry \in BOOLEAN :
       /\ kind = "list" => ~dry
       /\ Become(r, Start([req[r] EXCEPT !.who = w, !.kind = kind, !.dry = dry]))

\* What _dry_run_property says, or CatalogUnavailable.
Consult(r) ==
  /\ req[r].pc = "catalog"
  /\ \/ \E sup \in BOOLEAN : Become(r, Judge([req[r] EXCEPT !.sup = sup]))
     \/ Become(r, Denied(req[r], "catalog.unavailable"))

\* usage_sum in evaluate: no answer, no room, or on to the charge of what
\* executes and to the preview of what is asked about.
Window(r) ==
  LET x == req[r]
  IN /\ x.pc = "window"
     /\ \/ StoreMayFail /\ Become(r, Refused(x, "store.unavailable"))
        \/ Become(r, Denied(x, "blast_radius.per_principal"))
        \/ Become(r, IF DecisionOf(x).verdict = "allow"
                     THEN {[x EXCEPT !.pc = "reserve"]} ELSE Ready(x))

\* usage_reserve: another call may have taken the room meanwhile.
Reserve(r) ==
  /\ req[r].pc = "reserve"
  /\ \/ StoreMayFail /\ Become(r, Refused(req[r], "store.unavailable"))
     \/ Become(r, Denied(req[r], "blast_radius.per_principal"))
     \/ Become(r, Ready(req[r]))

-----------------------------------------------------------------------------
(* The upstream and the answer *)

\* The connect failed: nothing left the proxy.
Unreachable(r) ==
  /\ req[r].pc = "upstream"
  /\ Become(r, Ended(req[r], "upstream.unreachable"))

\* A torn or encoded reply, not JSON, too deep or too large: sent all the same.
FailReply(r) ==
  /\ req[r].pc = "upstream"
  /\ Become(r, Ended([req[r] EXCEPT !.sent = TRUE], "upstream.failed"))

\* The reply to a call: a preview becomes a prompt, anything else an answer.
ReplyCall(r) ==
  LET x == [req[r] EXCEPT !.sent = TRUE]
      d == DecisionOf(x)
  IN /\ x.pc = "upstream" /\ x.kind = "call"
     /\ \/ Become(r, Ended(x, d.rule))
        \/ d.verdict = "confirm" /\ Become(r, Ended(x, "mrtr.upstream_input_required"))
        \/ d.verdict = "confirm" /\ Become(r, {[x EXCEPT !.pc = "notify"]})

\* _notify raises nothing; the prompt is answered after it.
Notify(r) ==
  /\ req[r].pc = "notify"
  /\ Become(r, Ended(req[r], DecisionOf(req[r]).rule))

\* Variant: the pins are those of the moment the reply is vetted.
ChangedNow(x, def) == engine.pin \notin {None, def}

\* pins.changed
Changed(x, def) == x.load.pin \notin {None, def}

\* _filter_tools: the tool has a tier for this caller.
Visible(x) == Tier(x) # "refused"

\* The records of a dropped tool, of which the outcome may fail to be written.
PinDenials ==
  LET deny == <<[phase |-> "intent", rule |-> "catalog.pin_mismatch"],
                [phase |-> "outcome", rule |-> "catalog.pin_mismatch"]>>
  IN {SubSeq(deny, 1, n) : n \in IF AuditMayFail THEN {1, 2} ELSE {2}}

\* _vet_tools drops the tool under a call_id of its own; when the intent of
\* that denial cannot be written the whole listing fails.
Dropped(x) ==
  (UNION {Ended([x EXCEPT !.pinlog = l], "passthrough") : l \in PinDenials})
    \cup Raised(x)

\* The reply to tools/list; server/discover is a listing that shows nothing.
ReplyList(r) ==
  LET x == [req[r] EXCEPT !.sent = TRUE]
  IN /\ x.pc = "upstream" /\ x.kind = "list"
     /\ \/ Become(r, Ended(x, "passthrough"))
        \/ \E def \in Defs :
             /\ Visible(x)
             /\ Become(r, IF Changed(x, def) THEN Dropped(x)
                          ELSE Ended([x EXCEPT !.shown = def], "passthrough"))

-----------------------------------------------------------------------------

\* Variant: the policy is swapped in before the pins are read.
ReloadHalf ==
  /\ \E l \in Loads : l # engine /\ engine' = [l EXCEPT !.pin = engine.pin]
  /\ UNCHANGED req

\* reload: both files load and are swapped in together, or nothing changes.
Reload ==
  \E l \in Loads :
    /\ l # engine
    /\ engine' = l
    /\ req' = [r \in Requests |->
         IF req[r].pc \in {"new", "done"} THEN req[r]
         ELSE [req[r] EXCEPT !.seen = @ \cup {l}]]

Handle(r) ==
  \/ Arrive(r) \/ Reject(r) \/ Identify(r)
  \/ Consult(r) \/ Window(r) \/ Reserve(r)
  \/ Unreachable(r) \/ FailReply(r) \/ ReplyCall(r) \/ Notify(r) \/ ReplyList(r)

Next == Reload \/ \E r \in Requests : Handle(r)

Spec == Init /\ [][Next]_vars

-----------------------------------------------------------------------------
(* Properties *)

\* Every variable has its type; the policy and the pins in effect are those
\* of one load of the two files.
TypeOK ==
  /\ engine \in Loads
  /\ req \in [Requests -> ReqRec]

\* What a listing shows passed the allowlist and the pins of one load, and a
\* call is sent as one load decides it, each a load that was in effect while
\* the request was open, whatever reloads came in between.
OneLoad ==
  \A r \in Requests :
    LET x == req[r]
    IN /\ x.shown # None =>
            \E l \in x.seen : /\ TierOf(l, x.who) # "refused"
                              /\ l.pin \in {None, x.shown}
       /\ x.kind = "call" /\ x.sent =>
            \E l \in x.seen :
              LET d == Decide(TierOf(l, x.who), x.dry, FALSE, x.sup)
              IN d.verdict # "deny" /\ d.dry = x.fwd

\* At most one record of each phase, the intent first.
Paired(log) ==
  /\ \A i, j \in DOMAIN log : log[i].phase = log[j].phase => i = j
  /\ \A i \in DOMAIN log : log[i].phase = "intent" => i = 1

\* The audit holds at most one intent and one outcome of a call_id, the
\* intent first, and the outcome names the rule the caller was answered with.
OnePair ==
  \A r \in Requests :
    LET x == req[r]
    IN /\ Paired(x.log) /\ Paired(x.pinlog)
       /\ \A i \in DOMAIN x.log : x.log[i].phase = "outcome" => x.ans = x.log[i].rule

\* No request is forwarded to the upstream (what the proxy asks it on its own to
\* learn of dry_run is none), and no answer reaches the caller, without an intent
\* on record, except the two answers that say that something failed.
OnRecord ==
  \A r \in Requests :
    LET x == req[r]
    IN x.sent \/ (x.pc = "done" /\ x.ans \notin {"internal.error", "bare"})
         => x.log # <<>> /\ x.log[1].phase = "intent"
=============================================================================
