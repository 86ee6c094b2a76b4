---------------------------- MODULE GateInvariant ----------------------------
(***************************************************************************)
(* The inductive strengthenings of the safety properties of Gate: why a    *)
(* confirmation is executed once (OnceInv), and why what is executed was   *)
(* agreed to and is charged (ConsentInv).                                  *)
(***************************************************************************)
EXTENDS Gate

BeforeBurn == {"new", "isConsumed", "isApproved", "catalog", "evaluate", "purge", "insert"}
AfterBurn == {"reserve", "forward", "reply", "refund"}

InFlight(x) == x.pc \notin {"new", "done"}

\* The decision under which a request is executed for its confirmation.
Redeems(x) == DecisionOf(x).rule = "tier.L2.confirmed"

(* What one request's record always satisfies *)

\* The replica is known once the request is received.
Placed(x) == x.pc # "new" => x.at \in Replicas

\* Nothing is sent, and nothing answered, before its time.
Unsent(x) == x.pc \in BeforeBurn => ~x.sent
Silent(x) == x.pc # "done" => x.rule = ""

\* The burn comes before the execution it is for.
BurnsFirst(x) == Redeems(x) /\ (x.pc \in AfterBurn \/ x.sent) => x.took

\* Declined and pending are said only after the burn and after the wait.
DeclineBurns(x) == x.rule = "mrtr.declined" => x.took /\ x.mode = "declining"
PendingWaits(x) == x.rule = "mrtr.pending" => x.mode = "pending"

RecordInv(x) ==
  Placed(x) /\ Unsent(x) /\ Silent(x) /\ BurnsFirst(x) /\ DeclineBurns(x) /\ PendingWaits(x)

(* What relates the requests to the store and the secrets *)

\* A request that issued a prompt is past it, so no expiry ever changes.
PromptLast(k) == Issued(k) => call[k].pc \in {"notify", "done"}

\* A request under way carries a token whose secret is alive.
CarriesLive(c) ==
  (InFlight(call[c]) /\ call[c].key \in Calls) =>
    LET k == call[c].key
    IN Issued(k) /\ k \notin dead /\ (FixedSecret \/ call[k].at = call[c].at)

\* The burn outlives every token it could be needed against.
BurnKept(c) ==
  call[c].took =>
    LET k == call[c].key
    IN k \in Calls /\ Issued(k) /\ (k \in consumed \/ Expired(k) \/ k \in dead)

\* Two requests win the burn of one key only across its expiry.
BurnedOnce(c, d) ==
  (c # d /\ call[c].took /\ call[d].took /\ call[c].key = call[d].key)
    => Expired(call[c].key)

\* A request whose key was burned when it came in finds it so.
SpentKept(c) ==
  call[c].spent =>
    LET k == call[c].key
    IN /\ k \in Calls /\ Issued(k)
       /\ InFlight(call[c]) => k \in consumed \/ Expired(k)

SpentSeen(c) ==
  (call[c].spent /\ (call[c].pc = "isApproved" \/ call[c].mode = "pending"))
    => Expired(call[c].key)

\* Only issued keys are burned, and a fixed secret is never lost.
Ledger ==
  /\ \A k \in consumed : Issued(k)
  /\ FixedSecret => dead = {}

\* The inductive invariant: records, tokens, burns and the ledger agree.
OnceInv ==
  /\ \A c \in Calls : RecordInv(call[c])
  /\ \A k \in Calls : PromptLast(k)
  /\ \A c \in Calls : CarriesLive(c)
  /\ \A c \in Calls : BurnKept(c)
  /\ \A c, d \in Calls : BurnedOnce(c, d)
  /\ \A c \in Calls : SpentKept(c) /\ SpentSeen(c)
  /\ Ledger
-----------------------------------------------------------------------------
(* What relates an execution to the consent and the charge it rests on *)

OverLink(k) == \E h \in Clicks : click[h].took /\ click[h].key = k

\* A key is looked at before it is taken, and taken before anything is sent.
Untaken(x) ==
  /\ x.pc \in BeforeBurn => ~x.took
  /\ x.pc \in BeforeBurn \cup {"reserve", "forward", "refund"} => ~x.sent
  /\ x.pc \in {"new", "isConsumed", "isApproved"} => x.mode = "none"

\* What counts is sent only with its charge, which nobody returns after that.
Held(x) ==
  /\ Charged(x) /\ (x.pc \in {"forward", "reply"} \/ x.sent) => x.charge = "held"
  /\ x.charge = "returned" => x.pc = "done" /\ ~x.sent

\* The key of a request is another one's, whose prompt the client was shown.
Shown(c) ==
  call[c].key \in Calls =>
    /\ call[c].key # c
    /\ call[call[c].key].pc = "done" /\ call[call[c].key].rule = "prompt"

\* A prompt carries a token, and a token comes from a decision to ask.
Asked(k) ==
  /\ call[k].pc = "notify" \/ call[k].rule = "prompt" => Issued(k)
  /\ Issued(k) => call[k].tier = "L2" /\ DecisionOf(call[k]).verdict = "confirm"

\* The token was read for a call like the one it was issued for.
Bound(c) ==
  call[c].mode # "none" \/ call[c].pc \in {"isConsumed", "isApproved", "purge", "insert"} =>
    LET k == call[c].key
    IN Binding(call[c].at, call[c].req) = Binding(call[k].at, call[k].req)

\* Whoever had to agree did.
Agreed(c) ==
  call[c].mode = "accepted" =>
    \/ OverLink(call[c].key)
    \/ call[c].ans = "accept" /\ ~Strict(call[c].at, call[c].key)

\* A POST under way carries an issued token, and finds the burn it came after.
ClickLive(h) ==
  click[h].pc \notin {"new", "done"} =>
    LET k == click[h].key
    IN /\ Issued(k) /\ click[h].at \in Replicas
       /\ click[h].spent =>
            Expired(k) \/ (click[h].pc = "isConsumed" /\ k \in consumed)

ClickPast(h) ==
  click[h].took =>
    LET k == click[h].key
    IN /\ click[h].pc # "new"
       /\ k \in Calls /\ Issued(k)
       /\ click[h].spent => Expired(k)

\* The inductive invariant of the consent and the charge.
ConsentInv ==
  /\ \A c \in Calls : Untaken(call[c]) /\ Held(call[c])
  /\ \A c \in Calls : Shown(c) /\ Asked(c) /\ Bound(c) /\ Agreed(c)
  /\ \A k \in approved : OverLink(k)
  /\ \A h \in Clicks : ClickLive(h) /\ ClickPast(h)
  /\ \A k \in dead : Issued(k)
=============================================================================
