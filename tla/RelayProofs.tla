----------------------------- MODULE RelayProofs -----------------------------
(* Relay: its types, that every request is decided, forwarded and shown    *)
(* things by one load of policy and pins, and what of it is on record, for *)
(* any number of requests, callers, definitions and loads.                 *)
EXTENDS Relay, TLAPS

-----------------------------------------------------------------------------
(* The tier of a caller *)

\* Somebody who is in no group has no tier of one, whatever his name is.
THEOREM GroupNameIsNoGroup ==
  ASSUME NEW l \in Loads, NEW w \in Callers,
         w.name \in GroupKeys, w.groups = << >>
  PROVE  TierOf(l, w) = l.tiers
<1>1. Keys(w) = << >>
  BY DEF Keys
<1> QED BY <1>1 DEF TierOf

-----------------------------------------------------------------------------
(* What is true of one request.  It is said of a request record, not of a  *)
(* state: requests meet only in the engine and pins they take on arrival.  *)

PinLogOK(x) ==
  /\ Len(x.pinlog) <= 2
  /\ Len(x.pinlog) >= 1 => x.pinlog[1].phase = "intent"
  /\ Len(x.pinlog) = 2 => x.pinlog[2].phase = "outcome"

\* The call is forwarded as its load decides.
Fits(x) ==
  x.kind = "call" => DecisionOf(x).verdict # "deny" /\ DecisionOf(x).dry = x.fwd

Sound(x) ==
  /\ x \in ReqRec
  /\ x.load \in x.seen
  /\ x.sent => x.who \in Callers /\ Fits(x)
  /\ x.shown # None => x.who \in Callers /\ Visible(x) /\ ~Changed(x, x.shown)
  /\ PinLogOK(x)

\* Nothing is on record yet, and nothing has left the process.
Open(x) == Sound(x) /\ x.log = << >> /\ ~x.sent /\ x.shown = None

Logged(x) == Sound(x) /\ Len(x.log) = 1 /\ x.log[1].phase = "intent"

\* The answer is given.
Closed(x) ==
  /\ Sound(x) /\ x.pc = "done"
  /\ Len(x.log) <= 2
  /\ \/ Len(x.log) >= 1 /\ x.log[1].phase = "intent"
     \/ /\ ~x.sent /\ x.ans \in {"internal.error", "bare"}
        /\ Len(x.log) <= 1
  /\ \A i \in DOMAIN x.log :
       /\ x.log[i].phase = "intent" => i = 1
       /\ x.log[i].phase = "outcome" =>
            x.ans = x.log[i].rule /\ (i = 1 => Len(x.log) = 1)

\* A call whose caller is known and whose decision is not a refusal.
Allowed(x) == x.kind = "call" /\ x.who \in Callers /\ DecisionOf(x).verdict # "deny"

ReqOK(x) ==
  /\ x \in ReqRec
  /\ \/ x.pc = "new" /\ x.shown = None /\ ~x.sent /\ x.log = << >> /\ x.pinlog = << >>
     \/ x.pc = "reading" /\ Open(x)
     \/ x.pc = "catalog" /\ Open(x) /\ x.kind = "call" /\ x.who \in Callers
     \/ x.pc \in {"window", "reserve"} /\ Open(x) /\ Allowed(x)
     \/ x.pc = "upstream" /\ Logged(x) /\ x.who \in Callers /\ Fits(x)
     \/ x.pc = "notify" /\ Logged(x) /\ Allowed(x)
     \/ Closed(x)

IInv ==
  /\ engine \in Loads
  /\ req \in [Requests -> ReqRec]
  /\ \A r \in Requests : ReqOK(req[r])

LEMMA DecideType ==
  ASSUME NEW t \in Tiers, NEW dry \in BOOLEAN, NEW sup \in BOOLEAN
  PROVE  LET d == Decide(t, dry, FALSE, sup)
         IN /\ d.verdict \in {"deny", "allow", "confirm"}
            /\ d.rule \in Rules /\ d.rule \notin {"bare", "internal.error"}
            /\ d.dry \in {"asis", "dry", "real"}
            /\ d.preview \in BOOLEAN
BY DEF Tiers, Decide, Decision, Unsupported, Rules

LEMMA DecisionType ==
  ASSUME NEW x \in ReqRec, x.who \in Callers
  PROVE  /\ DecisionOf(x).verdict \in {"deny", "allow", "confirm"}
         /\ DecisionOf(x).rule \in Rules
         /\ DecisionOf(x).rule \notin {"bare", "internal.error"}
         /\ DecisionOf(x).dry \in {"asis", "dry", "real"}
         /\ DecisionOf(x).preview \in BOOLEAN
<1>1. Tier(x) \in Tiers /\ x.dry \in BOOLEAN /\ x.sup \in BOOLEAN
  BY LoadAssumption DEF ReqRec, Tier
<1> QED BY <1>1, DecideType DEF DecisionOf

-----------------------------------------------------------------------------
(* The audit records *)

LEMMA LogType ==
  ASSUME NEW x \in ReqRec, NEW phase \in {"intent", "outcome"}, NEW rule \in Rules,
         NEW y, y = Log(x, phase, rule)
  PROVE  /\ y \in ReqRec
         /\ y.log \in Seq(Records)
         /\ y = [x EXCEPT !.log = y.log]
         /\ Len(y.log) = Len(x.log) + 1
         /\ y.log[Len(x.log) + 1] = [phase |-> phase, rule |-> rule]
         /\ \A i \in 1..Len(x.log) : y.log[i] = x.log[i]
         /\ DOMAIN y.log = 1..(Len(x.log) + 1)
<1> DEFINE rec == [phase |-> phase, rule |-> rule]
<1>1. rec \in Records
  BY DEF Records
<1>2. x.log \in Seq(Records)
  BY DEF ReqRec
<1>3. y = [x EXCEPT !.log = Append(x.log, rec)]
  BY DEF Log
<1> HIDE DEF rec
<1>4. Append(x.log, rec) \in Seq(Records)
  BY <1>1, <1>2
<1>5. y.log = Append(x.log, rec)
  BY <1>3 DEF ReqRec
<1>6. y \in ReqRec
  BY <1>3, <1>4 DEF ReqRec
<1>7. /\ Len(y.log) = Len(x.log) + 1
      /\ y.log[Len(x.log) + 1] = rec
      /\ \A i \in 1..Len(x.log) : y.log[i] = x.log[i]
      /\ DOMAIN y.log = 1..(Len(x.log) + 1)
  BY <1>1, <1>2, <1>5
<1> QED BY <1>3, <1>4, <1>5, <1>6, <1>7 DEF rec

\* Records and the answer are no part of the decision.
LEMMA SoundKeeps ==
  ASSUME NEW x, Sound(x), NEW y \in ReqRec,
         y.load = x.load, y.seen = x.seen, y.who = x.who, y.kind = x.kind,
         y.dry = x.dry, y.sup = x.sup, y.fwd = x.fwd, y.sent = x.sent,
         y.shown = x.shown, y.pinlog = x.pinlog
  PROVE  Sound(y)
BY DEF Sound, Fits, Visible, Changed, PinLogOK, DecisionOf, Tier

LEMMA EndedOK ==
  ASSUME NEW x, NEW rule \in Rules, NEW y \in Ended(x, rule),
         \/ Logged(x)
         \/ Open(x) /\ rule \in {"internal.error", "bare"}
  PROVE  Closed(y)
<1>0. x \in ReqRec /\ Sound(x)
  BY DEF Logged, Open, Sound
<1> PICK z : z = Log(x, "outcome", rule)
  OBVIOUS
<1>z. /\ z \in ReqRec /\ z = [x EXCEPT !.log = z.log]
      /\ Len(z.log) = Len(x.log) + 1 /\ DOMAIN z.log = 1..(Len(x.log) + 1)
      /\ z.log[Len(x.log) + 1] = [phase |-> "outcome", rule |-> rule]
      /\ \A i \in 1..Len(x.log) : z.log[i] = x.log[i]
  BY <1>0, LogType
<1>1. PICK w \in {z, x} : y = Answered(w, rule)
  BY DEF Ended
<1>2. w \in ReqRec
  BY <1>0, <1>z
<1>3. y = [w EXCEPT !.pc = "done", !.ans = rule]
  BY <1>1 DEF Answered
<1>4. y \in ReqRec /\ y.pc = "done" /\ y.ans = rule /\ y.log = w.log
  BY <1>2, <1>3 DEF ReqRec
<1>5. Sound(y) /\ y.sent = x.sent
  <2>1. w = [x EXCEPT !.log = w.log]
    BY <1>0, <1>z DEF ReqRec
  <2> QED BY <1>0, <1>2, <1>3, <1>4, <2>1, SoundKeeps, ZenonT(60) DEF ReqRec
<1>6. Len(x.log) \in Nat /\ DOMAIN x.log = 1..Len(x.log)
  BY <1>0 DEF ReqRec
<1>7. CASE w = x
  <2>1. CASE Logged(x)
    <3>1. Len(y.log) = 1 /\ DOMAIN y.log = 1..1 /\ y.log[1].phase = "intent"
      BY <1>4, <1>6, <1>7, <2>1 DEF Logged
    <3>2. \A i \in DOMAIN y.log : i = 1
      BY <3>1
    <3> QED BY <1>4, <1>5, <3>1, <3>2 DEF Closed
  <2>2. CASE Open(x) /\ rule \in {"internal.error", "bare"}
    <3>1. Len(y.log) = 0 /\ DOMAIN y.log = {} /\ ~y.sent
      BY <1>4, <1>5, <1>6, <1>7, <2>2 DEF Open
    <3> QED BY <1>4, <1>5, <2>2, <3>1 DEF Closed
  <2> QED BY <2>1, <2>2
<1>8. CASE w = z
  <2>1. /\ Len(w.log) = Len(x.log) + 1 /\ DOMAIN w.log = 1..(Len(x.log) + 1)
        /\ w.log[Len(x.log) + 1] = [phase |-> "outcome", rule |-> rule]
        /\ \A i \in 1..Len(x.log) : w.log[i] = x.log[i]
    BY <1>8, <1>z
  <2>2. CASE Logged(x)
    <3>1. Len(w.log) = 2 /\ DOMAIN w.log = 1..2 /\ w.log[1].phase = "intent"
          /\ w.log[2] = [phase |-> "outcome", rule |-> rule]
      BY <2>1, <2>2 DEF Logged
    <3> QED BY <1>4, <1>5, <3>1 DEF Closed
  <2>3. CASE Open(x) /\ rule \in {"internal.error", "bare"}
    <3>1. Len(w.log) = 1 /\ DOMAIN w.log = 1..1
          /\ w.log[1] = [phase |-> "outcome", rule |-> rule]
      BY <2>1, <2>3 DEF Open
    <3> QED BY <1>4, <1>5, <2>3, <3>1 DEF Closed, Open
  <2> QED BY <2>2, <2>3
<1> QED BY <1>7, <1>8

LEMMA RaisedOK ==
  ASSUME NEW x, Logged(x) \/ Open(x), NEW y \in Raised(x)
  PROVE  Closed(y)
<1>1. y \in Ended(x, "internal.error")
  BY DEF Raised
<1>2. "internal.error" \in Rules
  BY DEF Rules
<1> QED BY <1>1, <1>2, EndedOK

LEMMA BareOK ==
  ASSUME NEW x, Open(x), NEW y \in Bare(x)
  PROVE  Closed(y)
<1>0. x \in ReqRec /\ Sound(x)
  BY DEF Open, Sound
<1>1. y = [x EXCEPT !.pc = "done", !.ans = "bare"]
  BY DEF Bare, Answered
<1>2. y \in ReqRec
  BY <1>0, <1>1, ZenonT(60) DEF ReqRec, Rules
<1>a. /\ y.load = x.load /\ y.seen = x.seen /\ y.who = x.who /\ y.kind = x.kind
      /\ y.dry = x.dry /\ y.sup = x.sup /\ y.sent = x.sent /\ y.log = x.log
      /\ y.fwd = x.fwd /\ y.shown = x.shown /\ y.pinlog = x.pinlog
  BY <1>0, <1>1 DEF ReqRec
<1>3. Sound(y)
  BY <1>0, <1>2, <1>a, SoundKeeps
<1> QED BY <1>0, <1>1, <1>3 DEF Open, Closed, ReqRec

\* An intent on record.
LEMMA IntentOK ==
  ASSUME NEW x, Open(x), NEW rule \in Rules
  PROVE  /\ Logged(Log(x, "intent", rule))
         /\ Log(x, "intent", rule) \in ReqRec
         /\ \E l \in Seq(Records) : Log(x, "intent", rule) = [x EXCEPT !.log = l]
<1>0. x \in ReqRec /\ Sound(x)
  BY DEF Open, Sound
<1>a. x.log = << >>
  BY DEF Open
<1>z. PICK z : z = Log(x, "intent", rule)
  OBVIOUS
<1>1. z \in ReqRec /\ z.log \in Seq(Records) /\ z = [x EXCEPT !.log = z.log]
      /\ Len(z.log) = Len(x.log) + 1
      /\ z.log[Len(x.log) + 1] = [phase |-> "intent", rule |-> rule]
  BY <1>0, <1>z, LogType
<1>2. Sound(z)
  BY <1>0, <1>1, SoundKeeps DEF ReqRec
<1>3. Len(z.log) = 1 /\ z.log[1].phase = "intent"
  BY <1>a, <1>1
<1> QED BY <1>z, <1>1, <1>2, <1>3 DEF Logged

LEMMA DeniedOK ==
  ASSUME NEW x, Open(x), NEW rule \in Rules, NEW y \in Denied(x, rule)
  PROVE  Closed(y)
BY IntentOK, EndedOK, RaisedOK DEF Denied

LEMMA RefusedOK ==
  ASSUME NEW x, Open(x), NEW rule \in Rules, NEW y \in Refused(x, rule)
  PROVE  Closed(y)
BY IntentOK, EndedOK, BareOK DEF Refused

LEMMA ClosedOK == \A x : Closed(x) => ReqOK(x)
BY DEF Closed, ReqOK, Sound

-----------------------------------------------------------------------------
(* The decision on a call *)

\* An intent on record, the request goes to the upstream.
LEMMA ForwardingOK ==
  ASSUME NEW x, Open(x), x.who \in Callers, NEW rule \in Rules,
         NEW fwd \in {"asis", "dry", "real"},
         x.kind = "call" => DecisionOf(x).verdict # "deny" /\ DecisionOf(x).dry = fwd,
         NEW y \in Forwarding(x, rule, fwd)
  PROVE  ReqOK(y)
<1>0. x \in ReqRec
  BY DEF Open, Sound
<1>1. CASE y \in Raised(x)
  BY <1>1, RaisedOK, ClosedOK
<1>2. CASE y \notin Raised(x)
  <2>1. PICK z : z = Log(x, "intent", rule)
    OBVIOUS
  <2>2. y = [z EXCEPT !.pc = "upstream", !.fwd = fwd]
    BY <1>2, <2>1 DEF Forwarding, Intent
  <2>3. Logged(z) /\ z \in ReqRec
    BY <2>1, IntentOK
  <2>4. PICK l \in Seq(Records) : z = [x EXCEPT !.log = l]
    BY <2>1, IntentOK
  <2>5. y \in ReqRec /\ y.pc = "upstream" /\ y.fwd = fwd
    BY <2>2, <2>3 DEF ReqRec
  <2>6. /\ y.load = x.load /\ y.seen = x.seen /\ y.who = x.who /\ y.kind = x.kind
        /\ y.dry = x.dry /\ y.sup = x.sup /\ y.sent = x.sent /\ y.log = z.log
        /\ y.shown = x.shown /\ y.pinlog = x.pinlog
    BY <1>0, <2>2, <2>3, <2>4 DEF ReqRec
  <2>7. Fits(y)
    BY <2>5, <2>6 DEF Fits, DecisionOf, Tier
  <2>8. Sound(y)
    BY <2>5, <2>6 DEF Sound, PinLogOK, Open
  <2> QED BY <2>3, <2>5, <2>6, <2>7, <2>8 DEF ReqOK, Logged
<1> QED BY <1>1, <1>2

LEMMA ReadyOK ==
  ASSUME NEW x, Open(x), Allowed(x), NEW y \in Ready(x)
  PROVE  ReqOK(y)
<1> DEFINE d == DecisionOf(x)
<1>0. x \in ReqRec /\ x.who \in Callers
  BY DEF Open, Sound, Allowed
<1>1. d.rule \in Rules /\ d.dry \in {"asis", "dry", "real"} /\ d.verdict # "deny"
  BY <1>0, DecisionType DEF Allowed
<1>2. CASE d.verdict = "confirm" /\ ~d.preview
  <2>1. CASE y \in Raised(x)
    BY <2>1, RaisedOK, ClosedOK
  <2>2. CASE y \notin Raised(x)
    <3>1. PICK z : z = Log(x, "intent", d.rule)
      OBVIOUS
    <3>2. y = [z EXCEPT !.pc = "notify"]
      BY <1>2, <2>2, <3>1 DEF Ready, Intent
    <3>3. Logged(z) /\ z \in ReqRec
      BY <1>1, <3>1, IntentOK
    <3>4. PICK l \in Seq(Records) : z = [x EXCEPT !.log = l]
      BY <1>1, <3>1, IntentOK
    <3>5. y \in ReqRec /\ y.pc = "notify"
      BY <3>2, <3>3 DEF ReqRec
    <3>6. /\ y.load = x.load /\ y.seen = x.seen /\ y.who = x.who /\ y.kind = x.kind
          /\ y.dry = x.dry /\ y.sup = x.sup /\ y.sent = x.sent /\ y.log = z.log
          /\ y.fwd = x.fwd /\ y.shown = x.shown /\ y.pinlog = x.pinlog
      BY <1>0, <3>2, <3>3, <3>4 DEF ReqRec
    <3>7. Allowed(y)
      BY <3>6 DEF Allowed, DecisionOf, Tier
    <3>8. Sound(y)
      BY <3>5, <3>6, SoundKeeps DEF Open
    <3> QED BY <3>3, <3>5, <3>6, <3>7, <3>8 DEF ReqOK, Logged
  <2> QED BY <2>1, <2>2
<1>3. CASE ~(d.verdict = "confirm" /\ ~d.preview)
  <2>1. y \in Forwarding(x, d.rule, d.dry)
    BY <1>3 DEF Ready
  <2> QED BY <1>0, <1>1, <2>1, ForwardingOK
<1> QED BY <1>2, <1>3

\* A request that waits without a record.
LEMMA WaitOK ==
  ASSUME NEW x, Open(x), x.kind = "call", x.who \in Callers,
         NEW pc \in {"catalog", "window", "reserve"},
         pc # "catalog" => Allowed(x)
  PROVE  ReqOK([x EXCEPT !.pc = pc])
<1> DEFINE y == [x EXCEPT !.pc = pc]
<1>0. x \in ReqRec
  BY DEF Open, Sound
<1>1. y \in ReqRec /\ y.pc = pc
  BY <1>0 DEF ReqRec
<1>2. /\ y.load = x.load /\ y.seen = x.seen /\ y.who = x.who /\ y.kind = x.kind
      /\ y.dry = x.dry /\ y.sup = x.sup /\ y.sent = x.sent /\ y.log = x.log
      /\ y.fwd = x.fwd /\ y.shown = x.shown /\ y.pinlog = x.pinlog
  BY <1>0 DEF ReqRec
<1>3. Open(y)
  BY <1>1, <1>2, SoundKeeps DEF Open
<1>4. Allowed(x) => Allowed(y)
  BY <1>2 DEF Allowed, DecisionOf, Tier
<1> HIDE DEF y
<1> QED BY <1>1, <1>2, <1>3, <1>4 DEF ReqOK, y

LEMMA JudgeOK ==
  ASSUME NEW x, Open(x), x.kind = "call", x.who \in Callers, NEW y \in Judge(x)
  PROVE  ReqOK(y)
<1> DEFINE d == DecisionOf(x)
<1>0. x \in ReqRec
  BY DEF Open, Sound
<1>1. d.rule \in Rules
  BY <1>0, DecisionType
<1>2. CASE d.verdict = "deny"
  BY <1>1, <1>2, DeniedOK, ClosedOK DEF Judge
<1>3. CASE d.verdict # "deny" /\ CountsFor(Tier(x), d)
  BY <1>3, WaitOK DEF Judge, Allowed
<1>4. CASE d.verdict # "deny" /\ ~CountsFor(Tier(x), d)
  BY <1>4, ReadyOK DEF Judge, Allowed
<1> QED BY <1>2, <1>3, <1>4

LEMMA StartOK ==
  ASSUME NEW x, Open(x), x.who \in Callers, NEW y \in Start(x)
  PROVE  ReqOK(y)
<1>0. x \in ReqRec /\ x.kind \in {"list", "call"}
  BY DEF Open, Sound, ReqRec
<1>1. CASE x.kind = "list"
  <2>1. "passthrough" \in Rules
    BY DEF Rules
  <2> QED BY <1>1, <2>1, ForwardingOK DEF Start
<1>2. CASE x.kind = "call"
  BY <1>2, WaitOK, JudgeOK DEF Start
<1> QED BY <1>0, <1>1, <1>2

-----------------------------------------------------------------------------
(* One lemma per action *)

\* One request moves to a sound record; the others and the engine stay.
LEMMA BecomeOK ==
  ASSUME IInv, NEW r \in Requests, NEW xs, \A y \in xs : ReqOK(y), Become(r, xs)
  PROVE  IInv'
<1>1. PICK x \in xs : req' = [req EXCEPT ![r] = x]
  BY DEF Become
<1>2. ReqOK(x) /\ x \in ReqRec
  BY <1>1 DEF ReqOK
<1>3. req' \in [Requests -> ReqRec]
  BY <1>1, <1>2 DEF IInv
<1>4. \A q \in Requests : ReqOK(req'[q])
  BY <1>1, <1>2 DEF IInv
<1> QED BY <1>3, <1>4 DEF IInv, Become

LEMMA NewReqType ==
  ASSUME NEW l \in Loads
  PROVE  NewReq(l) \in ReqRec
<1>1. << >> \in Seq(Records) /\ "" \in Rules /\ {} \in SUBSET Loads
  BY DEF Rules
<1> QED BY <1>1 DEF NewReq, ReqRec

LEMMA ArriveOK ==
  ASSUME IInv, NEW r \in Requests, Arrive(r)
  PROVE  IInv'
<1> DEFINE x == [NewReq(engine) EXCEPT !.pc = "reading", !.seen = {engine}]
<1>0. NewReq(engine) \in ReqRec /\ engine \in Loads
  BY NewReqType DEF IInv
<1>1. x \in ReqRec
  BY <1>0 DEF ReqRec
<1>2. /\ x.pc = "reading" /\ x.load = engine /\ x.seen = {engine} /\ ~x.sent
      /\ x.shown = None /\ x.log = << >> /\ x.pinlog = << >>
  BY DEF NewReq
<1>3. ReqOK(x)
  BY <1>1, <1>2 DEF ReqOK, Open, Sound, PinLogOK
<1>4. Become(r, {x})
  BY DEF Arrive
<1> HIDE DEF x
<1> QED BY <1>3, <1>4, BecomeOK

LEMMA RejectOK ==
  ASSUME IInv, NEW r \in Requests, Reject(r)
  PROVE  IInv'
<1>1. Open(req[r])
  BY DEF IInv, ReqOK, Reject, Logged, Closed
<1>2. "protocol" \in Rules
  BY DEF Rules
<1>3. \A y \in Refused(req[r], "protocol") : ReqOK(y)
  BY <1>1, <1>2, RefusedOK, ClosedOK
<1> QED BY <1>3, BecomeOK DEF Reject

LEMMA IdentifyOK ==
  ASSUME IInv, NEW r \in Requests, Identify(r)
  PROVE  IInv'
<1>1. Open(req[r]) /\ req[r] \in ReqRec
  BY DEF IInv, ReqOK, Identify, Logged, Closed
<1>2. PICK w \in Callers, kind \in {"list", "call"}, dry \in BOOLEAN :
        Become(r, Start([req[r] EXCEPT !.who = w, !.kind = kind, !.dry = dry]))
  BY DEF Identify
<1> DEFINE x == [req[r] EXCEPT !.who = w, !.kind = kind, !.dry = dry]
<1>3. x \in ReqRec /\ x.who = w
  BY <1>1 DEF ReqRec
<1>4. /\ x.load = req[r].load /\ x.seen = req[r].seen /\ x.sent = req[r].sent
      /\ x.shown = req[r].shown /\ x.log = req[r].log /\ x.pinlog = req[r].pinlog
  BY <1>1 DEF ReqRec
<1> HIDE DEF x
<1>5. Open(x)
  BY <1>1, <1>3, <1>4 DEF Open, Sound, PinLogOK
<1>6. \A y \in Start(x) : ReqOK(y)
  BY <1>3, <1>5, StartOK
<1> QED BY <1>2, <1>6, BecomeOK DEF x

LEMMA ConsultOK ==
  ASSUME IInv, NEW r \in Requests, Consult(r)
  PROVE  IInv'
<1>1. /\ Open(req[r]) /\ req[r] \in ReqRec
      /\ req[r].kind = "call" /\ req[r].who \in Callers
  BY DEF IInv, ReqOK, Consult, Logged, Closed
<1>2. ASSUME NEW sup \in BOOLEAN, Become(r, Judge([req[r] EXCEPT !.sup = sup]))
      PROVE  IInv'
  <2> DEFINE x == [req[r] EXCEPT !.sup = sup]
  <2>1. x \in ReqRec
    BY <1>1 DEF ReqRec
  <2>2. /\ x.load = req[r].load /\ x.seen = req[r].seen /\ x.sent = req[r].sent
        /\ x.shown = req[r].shown /\ x.log = req[r].log /\ x.pinlog = req[r].pinlog
        /\ x.kind = req[r].kind /\ x.who = req[r].who
    BY <1>1 DEF ReqRec
  <2> HIDE DEF x
  <2>3. Open(x)
    BY <1>1, <2>1, <2>2 DEF Open, Sound, PinLogOK
  <2>4. \A y \in Judge(x) : ReqOK(y)
    BY <1>1, <2>2, <2>3, JudgeOK
  <2> QED BY <1>2, <2>4, BecomeOK DEF x
<1>3. ASSUME Become(r, Denied(req[r], "catalog.unavailable"))
      PROVE  IInv'
  <2>1. "catalog.unavailable" \in Rules
    BY DEF Rules
  <2>2. \A y \in Denied(req[r], "catalog.unavailable") : ReqOK(y)
    BY <1>1, <2>1, DeniedOK, ClosedOK
  <2> QED BY <1>3, <2>2, BecomeOK
<1> QED BY <1>2, <1>3 DEF Consult

\* The two answers of the store that end a call.
LEMMA StoreOK ==
  ASSUME NEW x, Open(x)
  PROVE  /\ \A y \in Refused(x, "store.unavailable") : ReqOK(y)
         /\ \A y \in Denied(x, "blast_radius.per_principal") : ReqOK(y)
<1>1. {"store.unavailable", "blast_radius.per_principal"} \subseteq Rules
  BY DEF Rules
<1> QED BY <1>1, RefusedOK, DeniedOK, ClosedOK

LEMMA WindowOK ==
  ASSUME IInv, NEW r \in Requests, Window(r)
  PROVE  IInv'
<1> DEFINE x == req[r]
<1>1. Open(x) /\ Allowed(x)
  BY DEF IInv, ReqOK, Window, Logged, Closed
<1>2. \A y \in IF DecisionOf(x).verdict = "allow"
               THEN {[x EXCEPT !.pc = "reserve"]} ELSE Ready(x) : ReqOK(y)
  BY <1>1, WaitOK, ReadyOK DEF Allowed
<1> HIDE DEF x
<1>3. \/ Become(r, Refused(x, "store.unavailable"))
      \/ Become(r, Denied(x, "blast_radius.per_principal"))
      \/ Become(r, IF DecisionOf(x).verdict = "allow"
                   THEN {[x EXCEPT !.pc = "reserve"]} ELSE Ready(x))
  BY DEF Window, x
<1> QED BY <1>1, <1>2, <1>3, StoreOK, BecomeOK

LEMMA ReserveOK ==
  ASSUME IInv, NEW r \in Requests, Reserve(r)
  PROVE  IInv'
<1>1. Open(req[r]) /\ Allowed(req[r])
  BY DEF IInv, ReqOK, Reserve, Logged, Closed
<1>2. \A y \in Ready(req[r]) : ReqOK(y)
  BY <1>1, ReadyOK
<1> QED BY <1>1, <1>2, StoreOK, BecomeOK DEF Reserve

\* A request with its intent on record stays so when it is sent.
LEMMA SentOK ==
  ASSUME NEW x, Logged(x), x.who \in Callers, Fits(x)
  PROVE  LET y == [x EXCEPT !.sent = TRUE]
         IN /\ Logged(y) /\ y \in ReqRec /\ y.sent /\ y.log = x.log
            /\ y.who \in Callers /\ y.pc = x.pc /\ y.kind = x.kind /\ y.load = x.load
            /\ DecisionOf(y) = DecisionOf(x)
<1> DEFINE y == [x EXCEPT !.sent = TRUE]
<1>0. x \in ReqRec
  BY DEF Logged, Sound
<1>1. y \in ReqRec /\ y.sent
  BY <1>0 DEF ReqRec
<1>2. /\ y.load = x.load /\ y.seen = x.seen /\ y.who = x.who /\ y.kind = x.kind
      /\ y.dry = x.dry /\ y.sup = x.sup /\ y.pc = x.pc /\ y.log = x.log
      /\ y.fwd = x.fwd /\ y.shown = x.shown /\ y.pinlog = x.pinlog
  BY <1>0 DEF ReqRec
<1> HIDE DEF y
<1>3. DecisionOf(y) = DecisionOf(x)
  BY <1>2 DEF DecisionOf, Tier
<1>4. Logged(y)
  BY <1>1, <1>2, <1>3 DEF Logged, Sound, Fits, Visible, Tier, Changed, PinLogOK
<1> QED BY <1>1, <1>2, <1>3, <1>4 DEF y

LEMMA UpstreamOK ==
  ASSUME IInv, NEW r \in Requests, req[r].pc = "upstream"
  PROVE  Logged(req[r]) /\ req[r].who \in Callers /\ Fits(req[r])
BY DEF IInv, ReqOK, Open, Closed

LEMMA UnreachableOK ==
  ASSUME IInv, NEW r \in Requests, Unreachable(r)
  PROVE  IInv'
<1>1. "upstream.unreachable" \in Rules
  BY DEF Rules
<1>2. \A y \in Ended(req[r], "upstream.unreachable") : ReqOK(y)
  BY <1>1, UpstreamOK, EndedOK, ClosedOK DEF Unreachable
<1> QED BY <1>2, BecomeOK DEF Unreachable

LEMMA FailReplyOK ==
  ASSUME IInv, NEW r \in Requests, FailReply(r)
  PROVE  IInv'
<1> DEFINE x == [req[r] EXCEPT !.sent = TRUE]
<1>1. "upstream.failed" \in Rules
  BY DEF Rules
<1>2. Logged(x)
  BY UpstreamOK, SentOK DEF FailReply
<1>3. Become(r, Ended(x, "upstream.failed"))
  BY DEF FailReply
<1> HIDE DEF x
<1>4. \A y \in Ended(x, "upstream.failed") : ReqOK(y)
  BY <1>1, <1>2, EndedOK, ClosedOK
<1> QED BY <1>3, <1>4, BecomeOK

LEMMA ReplyCallOK ==
  ASSUME IInv, NEW r \in Requests, ReplyCall(r)
  PROVE  IInv'
<1> DEFINE x == [req[r] EXCEPT !.sent = TRUE]
           d == DecisionOf(x)
<1>0. req[r].pc = "upstream" /\ req[r].kind = "call"
  <2>1. req[r] \in ReqRec
    BY DEF IInv
  <2> QED BY <2>1 DEF ReplyCall, ReqRec
<1>1. Logged(x) /\ x \in ReqRec /\ x.who \in Callers /\ x.kind = "call"
  BY <1>0, UpstreamOK, SentOK
<1>2. d.rule \in Rules /\ "mrtr.upstream_input_required" \in Rules
  BY <1>1, DecisionType DEF Rules
<1>3. \/ Become(r, Ended(x, d.rule))
      \/ d.verdict = "confirm" /\ Become(r, Ended(x, "mrtr.upstream_input_required"))
      \/ d.verdict = "confirm" /\ Become(r, {[x EXCEPT !.pc = "notify"]})
  BY DEF ReplyCall
<1> HIDE DEF x
<1>4. \A y \in Ended(x, d.rule) \cup Ended(x, "mrtr.upstream_input_required") : ReqOK(y)
  BY <1>1, <1>2, EndedOK, ClosedOK
<1>5. ASSUME d.verdict = "confirm"
      PROVE  \A y \in {[x EXCEPT !.pc = "notify"]} : ReqOK(y)
  <2> DEFINE y == [x EXCEPT !.pc = "notify"]
  <2>1. y \in ReqRec /\ y.pc = "notify"
    BY <1>1 DEF ReqRec
  <2>2. /\ y.load = x.load /\ y.seen = x.seen /\ y.who = x.who /\ y.kind = x.kind
        /\ y.dry = x.dry /\ y.sup = x.sup /\ y.sent = x.sent /\ y.log = x.log
        /\ y.fwd = x.fwd /\ y.shown = x.shown /\ y.pinlog = x.pinlog
    BY <1>1 DEF ReqRec
  <2> HIDE DEF y
  <2>3. Logged(y)
    BY <1>1, <2>1, <2>2, SoundKeeps DEF Logged
  <2>4. Allowed(y)
    BY <1>1, <1>5, <2>2 DEF Allowed, DecisionOf, Tier
  <2> QED BY <2>1, <2>3, <2>4 DEF ReqOK, y
<1> QED BY <1>3, <1>4, <1>5, BecomeOK

LEMMA NotifyOK ==
  ASSUME IInv, NEW r \in Requests, Notify(r)
  PROVE  IInv'
<1>1. Logged(req[r]) /\ Allowed(req[r]) /\ req[r] \in ReqRec
  BY DEF IInv, ReqOK, Notify, Open, Closed
<1>2. DecisionOf(req[r]).rule \in Rules
  BY <1>1, DecisionType DEF Allowed
<1>3. \A y \in Ended(req[r], DecisionOf(req[r]).rule) : ReqOK(y)
  BY <1>1, <1>2, EndedOK, ClosedOK
<1> QED BY <1>3, BecomeOK DEF Notify

LEMMA PinDenialOK ==
  ASSUME NEW l \in PinDenials
  PROVE  /\ l \in Seq(Records) /\ Len(l) <= 2
         /\ l[1].phase = "intent"
         /\ Len(l) = 2 => l[2].phase = "outcome"
<1> DEFINE deny == <<[phase |-> "intent", rule |-> "catalog.pin_mismatch"],
                     [phase |-> "outcome", rule |-> "catalog.pin_mismatch"]>>
<1>1. deny \in Seq(Records) /\ Len(deny) = 2
  BY DEF Records, Rules
<1>2. deny[1].phase = "intent" /\ deny[2].phase = "outcome"
  OBVIOUS
<1>3. PICK n \in {1, 2} : l = SubSeq(deny, 1, n)
  BY DEF PinDenials
<1> HIDE DEF deny
<1>4. l \in Seq(Records) /\ Len(l) = n /\ \A i \in 1..n : l[i] = deny[i]
  BY <1>1, <1>3
<1> QED BY <1>2, <1>4

LEMMA DroppedOK ==
  ASSUME NEW x, Logged(x), NEW y \in Dropped(x)
  PROVE  ReqOK(y)
<1>0. x \in ReqRec /\ Sound(x)
  BY DEF Logged, Sound
<1>1. CASE y \in Raised(x)
  BY <1>1, RaisedOK, ClosedOK
<1>2. CASE y \notin Raised(x)
  <2> DEFINE Ends(l) == Ended([x EXCEPT !.pinlog = l], "passthrough")
  <2>0. Dropped(x) = (UNION {Ends(l) : l \in PinDenials}) \cup Raised(x)
    BY DEF Dropped
  <2>1. PICK l \in PinDenials : y \in Ends(l)
    <3> HIDE DEF Ends
    <3> QED BY <1>2, <2>0
  <2>5. /\ l \in Seq(Records) /\ Len(l) <= 2
        /\ l[1].phase = "intent" /\ (Len(l) = 2 => l[2].phase = "outcome")
    BY PinDenialOK
  <2>6. PICK z : z = [x EXCEPT !.pinlog = l]
    OBVIOUS
  <2>7. z \in ReqRec /\ z.pinlog = l
    BY <1>0, <2>5, <2>6 DEF ReqRec
  <2>8. /\ z.load = x.load /\ z.seen = x.seen /\ z.who = x.who /\ z.kind = x.kind
        /\ z.dry = x.dry /\ z.sup = x.sup /\ z.sent = x.sent /\ z.log = x.log
        /\ z.fwd = x.fwd /\ z.shown = x.shown
    BY <1>0, <2>6 DEF ReqRec
  <2>9. Logged(z)
    <3>1. PinLogOK(z)
      BY <2>5, <2>7 DEF PinLogOK
    <3>2. DecisionOf(z) = DecisionOf(x) /\ Tier(z) = Tier(x)
      BY <2>8 DEF DecisionOf, Tier
    <3>3. Sound(z)
      BY <1>0, <2>7, <2>8, <3>1, <3>2 DEF Sound, Fits, Visible, Changed
    <3> QED BY <2>8, <3>3 DEF Logged
  <2>10. "passthrough" \in Rules
    BY DEF Rules
  <2>11. y \in Ended(z, "passthrough")
    BY <2>1, <2>6
  <2> QED BY <2>9, <2>10, <2>11, EndedOK, ClosedOK
<1> QED BY <1>1, <1>2

LEMMA ReplyListOK ==
  ASSUME IInv, NEW r \in Requests, ReplyList(r)
  PROVE  IInv'
<1> DEFINE x == [req[r] EXCEPT !.sent = TRUE]
<1>0. req[r].pc = "upstream" /\ req[r].kind = "list"
  <2>1. req[r] \in ReqRec
    BY DEF IInv
  <2> QED BY <2>1 DEF ReplyList, ReqRec
<1>1. Logged(x) /\ x \in ReqRec /\ x.who \in Callers /\ x.kind = "list"
  BY <1>0, UpstreamOK, SentOK
<1>2. "passthrough" \in Rules
  BY DEF Rules
<1>3. \/ Become(r, Ended(x, "passthrough"))
      \/ \E def \in Defs :
           /\ Visible(x)
           /\ Become(r, IF Changed(x, def) THEN Dropped(x)
                        ELSE Ended([x EXCEPT !.shown = def], "passthrough"))
  BY DEF ReplyList
<1> HIDE DEF x
<1>4. CASE Become(r, Ended(x, "passthrough"))
  <2>1. \A y \in Ended(x, "passthrough") : ReqOK(y)
    BY <1>1, <1>2, EndedOK, ClosedOK
  <2> QED BY <1>4, <2>1, BecomeOK
<1>5. ASSUME NEW def \in Defs, Visible(x), Changed(x, def), Become(r, Dropped(x))
      PROVE  IInv'
  BY <1>1, <1>5, DroppedOK, BecomeOK
<1>6. ASSUME NEW def \in Defs, Visible(x), ~Changed(x, def),
             Become(r, Ended([x EXCEPT !.shown = def], "passthrough"))
      PROVE  IInv'
  <2>1. PICK z : z = [x EXCEPT !.shown = def]
    OBVIOUS
  <2>2. z \in ReqRec /\ z.shown = def
    BY <1>1, <2>1 DEF ReqRec
  <2>3. /\ z.load = x.load /\ z.seen = x.seen /\ z.who = x.who /\ z.kind = x.kind
        /\ z.dry = x.dry /\ z.sup = x.sup /\ z.sent = x.sent /\ z.log = x.log
        /\ z.fwd = x.fwd /\ z.pinlog = x.pinlog
    BY <1>1, <2>1 DEF ReqRec
  <2>4. Logged(z)
    BY <1>1, <1>6, <2>2, <2>3
       DEF Logged, Sound, Fits, Visible, Changed, PinLogOK, Tier
  <2>5. \A y \in Ended(z, "passthrough") : ReqOK(y)
    BY <1>2, <2>4, EndedOK, ClosedOK
  <2> QED BY <1>6, <2>1, <2>5, BecomeOK
<1> QED BY <1>3, <1>4, <1>5, <1>6

\* A request keeps the load it took while other loads come into effect.
LEMMA SeenOK ==
  ASSUME NEW x, ReqOK(x), x.pc \notin {"new", "done"}, NEW l \in Loads
  PROVE  ReqOK([x EXCEPT !.seen = @ \cup {l}])
<1> DEFINE y == [x EXCEPT !.seen = @ \cup {l}]
<1>0. x \in ReqRec
  BY DEF ReqOK
<1>1. y \in ReqRec /\ y.seen = x.seen \cup {l}
  BY <1>0 DEF ReqRec
<1>2. /\ y.load = x.load /\ y.pc = x.pc /\ y.who = x.who /\ y.kind = x.kind
      /\ y.dry = x.dry /\ y.sup = x.sup /\ y.sent = x.sent /\ y.log = x.log
      /\ y.fwd = x.fwd /\ y.shown = x.shown /\ y.pinlog = x.pinlog
  BY <1>0 DEF ReqRec
<1> HIDE DEF y
<1>3. DecisionOf(y) = DecisionOf(x) /\ Tier(y) = Tier(x)
  BY <1>2 DEF DecisionOf, Tier
<1>4. (Fits(x) => Fits(y)) /\ (Allowed(x) => Allowed(y))
  BY <1>2, <1>3 DEF Fits, Allowed
<1>5. Sound(x) => Sound(y)
  BY <1>1, <1>2, <1>3, <1>4 DEF Sound, Visible, Changed, PinLogOK
<1>6. (Open(x) => Open(y)) /\ (Logged(x) => Logged(y))
  BY <1>2, <1>5 DEF Open, Logged
<1> QED BY <1>1, <1>2, <1>4, <1>6 DEF ReqOK, Closed, y

LEMMA ReloadOK ==
  ASSUME IInv, Reload
  PROVE  IInv'
<1>1. PICK l \in Loads :
        /\ engine' = l
        /\ req' = [r \in Requests |->
             IF req[r].pc \in {"new", "done"} THEN req[r]
             ELSE [req[r] EXCEPT !.seen = @ \cup {l}]]
  BY DEF Reload
<1>2. \A r \in Requests : ReqOK(req'[r])
  <2> TAKE r \in Requests
  <2>1. CASE req[r].pc \in {"new", "done"}
    BY <1>1, <2>1 DEF IInv
  <2>2. CASE req[r].pc \notin {"new", "done"}
    BY <1>1, <2>2, SeenOK DEF IInv
  <2> QED BY <2>1, <2>2
<1>3. req' \in [Requests -> ReqRec]
  BY <1>1, <1>2 DEF ReqOK
<1> QED BY <1>1, <1>2, <1>3 DEF IInv

-----------------------------------------------------------------------------
(* The invariant and the theorems *)

LEMMA InitIInv == Init => IInv
<1> SUFFICES ASSUME Init PROVE IInv
  OBVIOUS
<1>1. engine \in Loads /\ req = [r \in Requests |-> NewReq(engine)]
  BY DEF Init
<1>2. NewReq(engine) \in ReqRec
  BY <1>1, NewReqType
<1>3. ReqOK(NewReq(engine))
  BY <1>2 DEF ReqOK, NewReq
<1> QED BY <1>1, <1>2, <1>3 DEF IInv

LEMMA StepIInv == IInv /\ [Next]_vars => IInv'
<1> SUFFICES ASSUME IInv, [Next]_vars PROVE IInv'
  OBVIOUS
<1>1. CASE UNCHANGED vars
  BY <1>1 DEF vars, IInv
<1>2. CASE Reload
  BY <1>2, ReloadOK
<1>3. ASSUME NEW r \in Requests, Handle(r)
      PROVE  IInv'
  BY <1>3, ArriveOK, RejectOK, IdentifyOK, ConsultOK, WindowOK, ReserveOK,
     UnreachableOK, FailReplyOK, ReplyCallOK, NotifyOK, ReplyListOK DEF Handle
<1> QED BY <1>1, <1>2, <1>3 DEF Next

LEMMA Invariant == Spec => []IInv
BY InitIInv, StepIInv, PTL DEF Spec

\* The policy and the pins in effect are those of one load, and every request
\* holds a value of its type, for every number of requests and loads.
THEOREM TypeCorrect == Spec => []TypeOK
<1>1. IInv => TypeOK
  BY DEF IInv, TypeOK
<1> QED BY <1>1, Invariant, PTL

\* However many reloads a request lives through, what it forwards and what
\* it shows are decided by one load that was in effect meanwhile.
THEOREM LoadIsOne == Spec => []OneLoad
<1>1. ASSUME IInv PROVE OneLoad
  <2> SUFFICES ASSUME NEW r \in Requests
               PROVE  LET x == req[r]
                      IN /\ x.shown # None =>
                              \E l \in x.seen : /\ TierOf(l, x.who) # "refused"
                                                /\ l.pin \in {None, x.shown}
                         /\ x.kind = "call" /\ x.sent =>
                              \E l \in x.seen :
                                LET d == Decide(TierOf(l, x.who), x.dry, FALSE, x.sup)
                                IN d.verdict # "deny" /\ d.dry = x.fwd
    BY DEF OneLoad
  <2> DEFINE x == req[r]
  <2>1. Sound(x) \/ (x.shown = None /\ ~x.sent)
    BY <1>1 DEF IInv, ReqOK, Open, Logged, Closed
  <2> HIDE DEF x
  <2>2. CASE x.shown = None /\ ~x.sent
    BY <2>2 DEF x
  <2>3. CASE Sound(x)
    <3>1. x.shown # None =>
            TierOf(x.load, x.who) # "refused" /\ x.load.pin \in {None, x.shown}
      BY <2>3 DEF Sound, Visible, Tier, Changed
    <3>2. x.kind = "call" /\ x.sent =>
            LET d == Decide(TierOf(x.load, x.who), x.dry, FALSE, x.sup)
            IN d.verdict # "deny" /\ d.dry = x.fwd
      BY <2>3 DEF Sound, Fits, DecisionOf, Tier
    <3>3. x.load \in x.seen
      BY <2>3 DEF Sound
    <3> QED BY <3>1, <3>2, <3>3 DEF x
  <2> QED BY <2>1, <2>2, <2>3
<1> QED BY <1>1, Invariant, PTL

LEMMA LogsPaired ==
  ASSUME NEW x, ReqOK(x)
  PROVE  /\ Paired(x.log) /\ Paired(x.pinlog)
         /\ \A i \in DOMAIN x.log : x.log[i].phase = "outcome" => x.ans = x.log[i].rule
<1>0. x \in ReqRec
  BY DEF ReqOK
<1>1. /\ x.log \in Seq(Records) /\ x.pinlog \in Seq(Records)
      /\ DOMAIN x.log = 1..Len(x.log) /\ DOMAIN x.pinlog = 1..Len(x.pinlog)
      /\ Len(x.log) \in Nat /\ Len(x.pinlog) \in Nat
  BY <1>0 DEF ReqRec
<1>2. /\ \A i \in DOMAIN x.log : x.log[i].phase \in {"intent", "outcome"}
      /\ \A i \in DOMAIN x.pinlog : x.pinlog[i].phase \in {"intent", "outcome"}
  <2>1. \A i \in DOMAIN x.log : x.log[i] \in Records
    BY <1>1
  <2>2. \A i \in DOMAIN x.pinlog : x.pinlog[i] \in Records
    BY <1>1
  <2> QED BY <2>1, <2>2 DEF Records
<1>3. Paired(x.pinlog)
  <2>1. CASE x.pc = "new" /\ x.pinlog = << >>
    BY <2>1 DEF Paired
  <2>2. CASE PinLogOK(x)
    <3>1. DOMAIN x.pinlog \subseteq {1, 2}
      BY <1>1, <2>2 DEF PinLogOK
    <3>2. /\ 1 \in DOMAIN x.pinlog => x.pinlog[1].phase = "intent"
          /\ 2 \in DOMAIN x.pinlog => x.pinlog[2].phase = "outcome"
      <4>1. 1 \in DOMAIN x.pinlog => Len(x.pinlog) >= 1
        BY <1>1
      <4>2. 2 \in DOMAIN x.pinlog => Len(x.pinlog) = 2
        <5>1. \A n \in Nat : n <= 2 /\ 2 \in 1..n => n = 2
          OBVIOUS
        <5> QED BY <1>1, <2>2, <5>1 DEF PinLogOK
      <4> QED BY <2>2, <4>1, <4>2 DEF PinLogOK
    <3> QED BY <3>1, <3>2 DEF Paired
  <2> QED BY <2>1, <2>2 DEF ReqOK, Open, Logged, Closed, Sound
<1>4. CASE x.log = << >>
  BY <1>3, <1>4 DEF Paired
<1>5. CASE Logged(x)
  <2>1. DOMAIN x.log = {1} /\ x.log[1].phase = "intent"
    BY <1>1, <1>5 DEF Logged
  <2> QED BY <1>3, <2>1 DEF Paired
<1>6. CASE Closed(x)
  <2>1. /\ DOMAIN x.log \subseteq {1, 2}
        /\ \A i \in DOMAIN x.log :
             /\ x.log[i].phase = "intent" => i = 1
             /\ x.log[i].phase = "outcome" => x.ans = x.log[i].rule
    BY <1>1, <1>6 DEF Closed
  <2>2. \A i, j \in DOMAIN x.log : x.log[i].phase = x.log[j].phase => i = j
    <3> SUFFICES ASSUME NEW i \in DOMAIN x.log, NEW j \in DOMAIN x.log,
                        x.log[i].phase = x.log[j].phase, i # j
                 PROVE  FALSE
      OBVIOUS
    <3>1. x.log[i].phase = "outcome" /\ x.log[j].phase = "outcome"
      BY <1>2, <2>1
    <3>2. i = 1 \/ j = 1
      BY <2>1
    <3>3. Len(x.log) = 1
      BY <1>6, <3>1, <3>2 DEF Closed
    <3> QED BY <1>1, <3>3
  <2> QED BY <1>3, <2>1, <2>2 DEF Paired
<1> QED BY <1>4, <1>5, <1>6 DEF ReqOK, Open

\* A call_id has at most one intent and one outcome, in this order, and the
\* caller's answer is the one on record, whichever write fails.
THEOREM PairIsOne == Spec => []OnePair
<1>1. IInv => OnePair
  BY LogsPaired DEF IInv, OnePair
<1> QED BY <1>1, Invariant, PTL

\* Nothing leaves the process, and no answer but those of a failure is given,
\* unless the intent is on record.
THEOREM AllOnRecord == Spec => []OnRecord
<1>1. ASSUME IInv PROVE OnRecord
  <2> SUFFICES ASSUME NEW r \in Requests, req[r].sent \/
                        (req[r].pc = "done" /\ req[r].ans \notin {"internal.error", "bare"})
               PROVE  req[r].log # <<>> /\ req[r].log[1].phase = "intent"
    BY DEF OnRecord
  <2>1. ReqOK(req[r])
    BY <1>1 DEF IInv
  <2>2. Logged(req[r]) \/ (Closed(req[r]) /\ Len(req[r].log) >= 1
                             /\ req[r].log[1].phase = "intent")
    BY <2>1 DEF ReqOK, Open, Closed
  <2>3. Len(req[r].log) >= 1 /\ req[r].log[1].phase = "intent"
    BY <2>2 DEF Logged
  <2> QED BY <2>3
<1> QED BY <1>1, Invariant, PTL
=============================================================================
