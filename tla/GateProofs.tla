----------------------------- MODULE GateProofs -----------------------------
(***************************************************************************)
(* Gate, for any number of requests, approvers, replicas, policies and     *)
(* restarts: type correctness; OnceInv of GateInvariant is inductive, so a *)
(* confirmation is executed at most once while it is live; ConsentInv is   *)
(* inductive next to it, so that what is executed was agreed to and is     *)
(* charged; and the gate implements the one-shot confirmation.             *)
(***************************************************************************)
EXTENDS GateInvariant, GateRefinement, TLAPS

-----------------------------------------------------------------------------
(*                       PART ONE: TYPE CORRECTNESS                        *)

-----------------------------------------------------------------------------
(* Records of requests and clicks *)

CallPc == {"new", "done"} \cup CallSteps
ClickPc == {"new", "done"} \cup ClickSteps
CallModes == {"none", "accepted", "pending", "reissue", "declining"}
Charges == {"none", "held", "returned"}

\* The steps a request takes to the rows of its key.
KeySteps == {"isConsumed", "isApproved", "purge", "insert"}

\* A request on its way to the key table carries a key, and so does one whose
\* confirmation was looked at.
Keyed(x) == (x.mode # "none" \/ x.pc \in KeySteps) => x.key \in Calls
KeyedClick(x) == x.pc \notin {"new", "done"} => x.key \in Calls

KeyedCall == {x \in CallRec : Keyed(x)}
KeyedClicks == {x \in ClickRec : KeyedClick(x)}

\* Where a request may go without breaking Keyed.
Moves(x) == {pc \in CallPc : pc \in KeySteps => x.key \in Calls}

LEMMA FreeMoves ==
  ASSUME NEW x
  PROVE  CallPc \ KeySteps \subseteq Moves(x)
BY DEF Moves

\* The updates the handlers make keep a request's record well formed.
LEMMA CallUpdate ==
  ASSUME NEW x \in KeyedCall, NEW pc \in Moves(x)
  PROVE  /\ [x EXCEPT !.pc = pc] \in KeyedCall
         /\ \A rule \in Rules : [x EXCEPT !.pc = pc, !.rule = rule] \in KeyedCall
         /\ \A t \in BOOLEAN : [x EXCEPT !.pc = pc, !.sup = t] \in KeyedCall
         /\ \A t \in BOOLEAN : [x EXCEPT !.pc = pc, !.sent = t] \in KeyedCall
         /\ \A rule \in Rules, t \in BOOLEAN :
              [x EXCEPT !.pc = pc, !.rule = rule, !.took = t] \in KeyedCall
         /\ \A rule \in Rules, ch \in Charges :
              [x EXCEPT !.pc = pc, !.rule = rule, !.charge = ch] \in KeyedCall
<1> USE DEF KeyedCall, Keyed, Moves, CallPc, CallRec
<1>1. [x EXCEPT !.pc = pc] \in KeyedCall
  OBVIOUS
<1>2. ASSUME NEW rule \in Rules
      PROVE  [x EXCEPT !.pc = pc, !.rule = rule] \in KeyedCall
  OBVIOUS
<1>3. ASSUME NEW t \in BOOLEAN
      PROVE  [x EXCEPT !.pc = pc, !.sup = t] \in KeyedCall
  OBVIOUS
<1>4. ASSUME NEW t \in BOOLEAN
      PROVE  [x EXCEPT !.pc = pc, !.sent = t] \in KeyedCall
  OBVIOUS
<1>5. ASSUME NEW rule \in Rules, NEW t \in BOOLEAN
      PROVE  [x EXCEPT !.pc = pc, !.rule = rule, !.took = t] \in KeyedCall
  OBVIOUS
<1>6. ASSUME NEW rule \in Rules, NEW ch \in Charges
      PROVE  [x EXCEPT !.pc = pc, !.rule = rule, !.charge = ch] \in KeyedCall
  BY ZenonT(60) DEF Charges
<1> HIDE DEF KeyedCall
<1> QED
  BY <1>1, <1>2, <1>3, <1>4, <1>5, <1>6

\* A request that carries a key gets the answer about it.
LEMMA ModeUpdate ==
  ASSUME NEW x \in KeyedCall, x.key \in Calls, NEW pc \in CallPc, NEW mode \in CallModes
  PROVE  [x EXCEPT !.pc = pc, !.mode = mode] \in KeyedCall
BY ZenonT(60) DEF KeyedCall, Keyed, CallRec, CallPc, CallModes

\* The same for a POST on the approve link.
LEMMA ClickUpdate ==
  ASSUME NEW x \in KeyedClicks, NEW pc \in ClickPc, pc = "done" \/ x.key \in Calls
  PROVE  /\ [x EXCEPT !.pc = pc] \in KeyedClicks
         /\ \A res \in Results : [x EXCEPT !.pc = pc, !.res = res] \in KeyedClicks
         /\ \A res \in Results, t \in BOOLEAN :
              /\ [x EXCEPT !.pc = pc, !.res = res, !.took = t] \in KeyedClicks
              /\ [x EXCEPT !.pc = pc, !.res = res, !.logged = t] \in KeyedClicks
BY ZenonT(60) DEF KeyedClicks, KeyedClick, ClickRec, ClickPc

\* What a request and a click start with.
LEMMA FirstRecords == NewCall \in KeyedCall /\ NewClick \in KeyedClicks
BY DEF NewCall, NewClick, KeyedCall, Keyed, KeySteps, KeyedClicks, KeyedClick,
       CallRec, ClickRec, Answers, Tiers, Rules, Results

\* The record a request has once verify_confirmation has looked at it.
Received(pc, r, q, dry, k, a, t, mode, sp, rule) ==
  [NewCall EXCEPT !.pc = pc, !.at = r, !.req = q, !.dry = dry, !.key = k,
                  !.ans = a, !.tier = t, !.mode = mode, !.spent = sp, !.rule = rule]

LEMMA ReceivedType ==
  ASSUME NEW pc \in CallPc, NEW r \in Replicas, NEW q \in Requests, NEW dry \in BOOLEAN,
         NEW k \in Calls \cup {None}, NEW a \in Answers, NEW t \in Tiers,
         NEW mode \in CallModes, NEW sp \in BOOLEAN, NEW rule \in Rules,
         mode # "none" \/ pc \in KeySteps => k \in Calls
  PROVE  Received(pc, r, q, dry, k, a, t, mode, sp, rule) \in KeyedCall
<1> DEFINE x == Received(pc, r, q, dry, k, a, t, mode, sp, rule)
<1>1. x \in CallRec
  BY ZenonT(60) DEF Received, NewCall, CallRec, CallPc, CallModes
<1>2. x.pc = pc /\ x.mode = mode /\ x.key = k
  BY DEF Received, NewCall
<1> HIDE DEF x
<1>3. x \in KeyedCall
  BY <1>1, <1>2 DEF KeyedCall, Keyed
<1> QED
  BY <1>3 DEF x

\* ... and the one of a click on an open link, or on one no longer valid.
Pressed(pc, r, k, sp, res) ==
  [NewClick EXCEPT !.pc = pc, !.at = r, !.key = k, !.spent = sp, !.res = res]

LEMMA PressedType ==
  ASSUME NEW pc \in ClickPc, NEW r \in Replicas, NEW k \in Calls, NEW sp \in BOOLEAN,
         NEW res \in Results
  PROVE  Pressed(pc, r, k, sp, res) \in KeyedClicks
BY DEF Pressed, NewClick, KeyedClicks, KeyedClick, ClickRec, ClickPc

\* The intent record's failure changes the answer to another one.
LEMMA SaidType ==
  ASSUME NEW rule \in Rules
  PROVE  Said(rule) \subseteq Rules
BY DEF Said, Rules

\* The rule of a decision, and who reaches the burn with it.
LEMMA DecisionType ==
  ASSUME NEW x \in CallRec
  PROVE  /\ DecisionOf(x).rule \in Rules
         /\ DecisionOf(x).rule = "tier.L2.confirmed" => x.mode = "accepted"
BY ZenonT(60) DEF CallRec, DecisionOf, Decide, Decision, Unsupported, Tiers, Rules

LEMMA Truths ==
  ASSUME NEW k, NEW o
  PROVE  Burned(k) \in BOOLEAN /\ Wins(k) \in BOOLEAN /\ Declares(o) \in BOOLEAN
BY DEF Burned, Wins, Declares

-----------------------------------------------------------------------------
(* Type correctness *)

Expiries == 0..(MaxTime + TTL)

\* The types, with the keyed records: TypeOK alone lets None into the table.
TypeInv ==
  /\ now \in 0..MaxTime
  /\ exp \in [Calls -> Expiries]
  /\ dead \subseteq Calls
  /\ crashes \in 0..MaxCrashes
  /\ consumed \subseteq Calls
  /\ approved \subseteq Calls
  /\ policy \in [Replicas -> Policies]
  /\ call \in [Calls -> KeyedCall]
  /\ click \in [Clicks -> KeyedClicks]

\* One request's record replaced by another.
LEMMA CallStep ==
  ASSUME TypeInv, NEW c \in Calls, NEW x \in KeyedCall, call' = [call EXCEPT ![c] = x]
  PROVE  call' \in [Calls -> KeyedCall]
BY DEF TypeInv

LEMMA ClickStep ==
  ASSUME TypeInv, NEW h \in Clicks, NEW x \in KeyedClicks, click' = [click EXCEPT ![h] = x]
  PROVE  click' \in [Clicks -> KeyedClicks]
BY DEF TypeInv

\* Answering and moving on.
LEMMA EndType ==
  ASSUME TypeInv, NEW c \in Calls, NEW rule \in Rules, End(c, rule)
  PROVE  call' \in [Calls -> KeyedCall]
<1>1. call[c] \in KeyedCall /\ "done" \in Moves(call[c])
  BY FreeMoves DEF TypeInv, CallPc, KeySteps
<1>2. [call[c] EXCEPT !.pc = "done", !.rule = rule] \in KeyedCall
  BY <1>1, CallUpdate
<1> QED
  BY <1>2, CallStep DEF End

LEMMA AnswerType ==
  ASSUME TypeInv, NEW c \in Calls, NEW rule \in Rules, Answer(c, rule)
  PROVE  call' \in [Calls -> KeyedCall]
BY SaidType, EndType DEF Answer

LEMMA GotoType ==
  ASSUME TypeInv, NEW c \in Calls, NEW pc \in Moves(call[c]), Goto(c, pc)
  PROVE  call' \in [Calls -> KeyedCall]
<1>1. [call[c] EXCEPT !.pc = pc] \in KeyedCall
  BY CallUpdate DEF TypeInv
<1> QED
  BY <1>1, CallStep DEF Goto

\* The store call that ends without an answer.
LEMMA StoreFailedType ==
  ASSUME TypeInv, NEW c \in Calls, StoreFailed(c)
  PROVE  call' \in [Calls -> KeyedCall]
BY AnswerType DEF StoreFailed, Rules

\* A new prompt carries an expiry within the clock's range.
LEMMA PromptType ==
  ASSUME TypeInv, NEW c \in Calls, Prompt(c)
  PROVE  exp' \in [Calls -> Expiries] /\ call' \in [Calls -> KeyedCall]
<1>1. now + TTL \in Expiries
  BY BoundAssumption DEF TypeInv, Expiries
<1>2. exp' \in [Calls -> Expiries]
  BY <1>1 DEF Prompt, TypeInv
<1>3. "notify" \in Moves(call[c])
  BY FreeMoves DEF CallPc, CallSteps, KeySteps
<1>4. call' \in [Calls -> KeyedCall]
  BY <1>3, GotoType, EndType DEF Prompt, Rules
<1> QED
  BY <1>2, <1>4

\* Where verify_confirmation sends a request.
LEMMA EntryType ==
  ASSUME NEW r \in Replicas, NEW q \in Requests, NEW dry \in BOOLEAN,
         NEW k \in Calls \cup {None}, NEW a \in Answers
  PROVE  /\ Entry(r, q, dry, k, a).pc \in CallPc
         /\ Entry(r, q, dry, k, a).mode \in CallModes
         /\ Entry(r, q, dry, k, a).rule \in Rules
         /\ (Entry(r, q, dry, k, a).mode # "none" \/ Entry(r, q, dry, k, a).pc \in KeySteps)
              => k \in Calls
BY DEF Entry, AfterVerify, CallPc, CallSteps, CallModes, Rules, KeySteps

\* A request that is received.
LEMMA ReceiveType ==
  ASSUME TypeInv, NEW c \in Calls, NEW r \in Replicas, NEW q \in Requests,
         NEW dry \in BOOLEAN, NEW k \in Calls \cup {None}, NEW a \in Answers,
         Receive(c, r, q, dry, k, a)
  PROVE  TypeInv'
<1> DEFINE e == Entry(r, q, dry, k, a)
<1>1. e.pc \in CallPc /\ e.mode \in CallModes /\ e.rule \in Rules
      /\ (e.mode # "none" \/ e.pc \in KeySteps => k \in Calls)
  BY EntryType
<1>2. PICK s \in IF e.pc = "done" THEN Said(e.rule) ELSE {""} :
        call' = [call EXCEPT ![c] =
          Received(e.pc, r, q, dry, k, a, policy[r][q], e.mode, Burned(k), s)]
  BY DEF Receive, Received
<1> HIDE DEF e
<1>3. s \in Rules
  BY <1>1, <1>2, SaidType, ZenonT(60) DEF Rules
<1>4. policy[r][q] \in Tiers
  BY PolicyAssumption DEF TypeInv
<1>5. Received(e.pc, r, q, dry, k, a, policy[r][q], e.mode, Burned(k), s) \in KeyedCall
  BY <1>1, <1>3, <1>4, Truths, ReceivedType
<1>6. call' \in [Calls -> KeyedCall]
  BY <1>2, <1>5, CallStep
<1> QED
  BY <1>6 DEF TypeInv, Receive, keys, world

\* The burn answered, lost or refused.
LEMMA BurnEndsType ==
  ASSUME TypeInv, NEW c \in Calls, NEW pc \in CallPc \ KeySteps, NEW rules \in SUBSET Rules,
         BurnEnds(c, pc, rules)
  PROVE  call' \in [Calls -> KeyedCall]
<1>1. PICK s \in rules :
        call' = [call EXCEPT ![c] =
          [@ EXCEPT !.pc = pc, !.rule = s, !.took = Wins(call[c].key)]]
  BY DEF BurnEnds
<1>2. pc \in Moves(call[c]) /\ Wins(call[c].key) \in BOOLEAN
  BY FreeMoves, Truths
<1>3. [call[c] EXCEPT !.pc = pc, !.rule = s, !.took = Wins(call[c].key)] \in KeyedCall
  BY <1>2, CallUpdate DEF TypeInv
<1> QED
  BY <1>1, <1>3, CallStep

LEMMA ChargeEndsType ==
  ASSUME TypeInv, NEW c \in Calls, NEW pc \in CallPc \ KeySteps, NEW rule \in Rules,
         NEW ch \in Charges, ChargeEnds(c, pc, rule, ch)
  PROVE  call' \in [Calls -> KeyedCall]
<1>1. [call[c] EXCEPT !.pc = pc, !.rule = rule, !.charge = ch] \in KeyedCall
  BY FreeMoves, CallUpdate DEF TypeInv
<1> QED
  BY <1>1, CallStep DEF ChargeEnds

\* The steps of a request after it is received.
LEMMA HandleType ==
  ASSUME TypeInv, NEW c \in Calls, Handle(c)
  PROVE  TypeInv'
<1> USE DEF keys, world
<1>1. call[c] \in KeyedCall /\ call[c] \in CallRec
  BY DEF TypeInv, KeyedCall
<1>2. \A pc \in {"done", "catalog", "evaluate", "reserve", "forward", "reply", "refund",
                 "notify"} : pc \in CallPc \ KeySteps /\ pc \in Moves(call[c])
  BY DEF Moves, CallPc, CallSteps, KeySteps
<1>3. call[c].pc \in KeySteps => call[c].key \in Calls /\ KeySteps \subseteq Moves(call[c])
  BY <1>1 DEF KeyedCall, Keyed, Moves, CallPc, CallSteps, KeySteps
<1>4. consumed \subseteq Calls /\ approved \subseteq Calls
  BY DEF TypeInv
<1>5. CASE CheckConsumed(c)
  <2>1. "isApproved" \in Moves(call[c])
    BY <1>3, <1>5 DEF CheckConsumed, KeySteps
  <2>2. call' \in [Calls -> KeyedCall]
    BY <1>5, <2>1, AnswerType, GotoType, StoreFailedType DEF CheckConsumed, Rules
  <2> QED
    BY <1>5, <2>2 DEF CheckConsumed, TypeInv
<1>6. CASE CheckApproved(c)
  <2>1. ApprovalMode(c) \in CallModes
    BY DEF ApprovalMode, CallModes
  <2>2. AfterVerify(call[c].tier, call[c].dry) \in CallPc
    BY DEF AfterVerify, CallPc, CallSteps
  <2>3. call[c].key \in Calls
    BY <1>3, <1>6 DEF CheckApproved, KeySteps
  <2>4. [call[c] EXCEPT !.pc = AfterVerify(call[c].tier, call[c].dry),
                        !.mode = ApprovalMode(c)] \in KeyedCall
    BY <1>1, <2>1, <2>2, <2>3, ModeUpdate
  <2>5. call' \in [Calls -> KeyedCall]
    BY <1>6, <2>4, CallStep, StoreFailedType DEF CheckApproved
  <2> QED
    BY <1>6, <2>5 DEF CheckApproved, TypeInv
<1>7. CASE Purge(c)
  <2>1. "insert" \in Moves(call[c])
    BY <1>3, <1>7 DEF Purge, KeySteps
  <2>2. call' \in [Calls -> KeyedCall]
    BY <1>7, <2>1, AnswerType, GotoType DEF Purge, Rules
  <2>3. consumed' \subseteq Calls /\ approved' \subseteq Calls
    BY <1>4, <1>7 DEF Purge, PurgeKeys, Kept
  <2> QED
    BY <1>7, <2>2, <2>3 DEF Purge, TypeInv
<1>8. CASE Insert(c)
  <2>1. \A rule \in {"mrtr.replay", "mrtr.declined", "store.unavailable"} :
          Said(rule) \in SUBSET Rules
    BY SaidType DEF Rules
  <2>2. {""} \in SUBSET Rules
    BY DEF Rules
  <2>3. InsertOk(c) => call' \in [Calls -> KeyedCall]
    BY <1>2, <2>1, <2>2, BurnEndsType DEF InsertOk
  <2>4. BurnEnds(c, "done", Said("store.unavailable")) => call' \in [Calls -> KeyedCall]
    BY <1>2, <2>1, BurnEndsType
  <2>5. call' \in [Calls -> KeyedCall]
    BY <1>8, <2>3, <2>4, AnswerType DEF Insert, Rules
  <2>6. consumed' \subseteq Calls
    BY <1>3, <1>4, <1>8 DEF Insert, KeySteps
  <2> QED
    BY <1>8, <2>5, <2>6 DEF Insert, TypeInv
<1>9. CASE Catalog(c)
  <2>1. ASSUME NEW o
        PROVE  [call[c] EXCEPT !.pc = "evaluate", !.sup = Declares(o)] \in KeyedCall
    BY <1>1, <1>2, Truths, CallUpdate
  <2>2. call' \in [Calls -> KeyedCall]
    BY <1>9, <2>1, CallStep, AnswerType DEF Catalog, Rules
  <2> QED
    BY <1>9, <2>2 DEF Catalog, TypeInv
<1>10. CASE Evaluate(c)
  <2>1. DecisionOf(call[c]).rule \in Rules
    BY <1>1, DecisionType
  <2>2. AfterEvaluate(c) = "purge" => "purge" \in Moves(call[c])
    <3> SUFFICES ASSUME AfterEvaluate(c) = "purge" PROVE call[c].key \in Calls
      BY DEF Moves, CallPc, CallSteps
    <3>1. DecisionOf(call[c]).rule = "tier.L2.confirmed"
      BY DEF AfterEvaluate
    <3>2. call[c].mode = "accepted"
      BY <1>1, <3>1, DecisionType
    <3> QED
      BY <1>1, <3>2 DEF KeyedCall, Keyed
  <2>3. Proceed(c, AfterEvaluate(c))
          => call' \in [Calls -> KeyedCall] /\ exp' \in [Calls -> Expiries]
    <3>1. exp \in [Calls -> Expiries]
      BY DEF TypeInv
    <3> QED
      BY <1>2, <2>2, <3>1, AnswerType, PromptType, GotoType, EndType DEF Proceed, Rules
  <2>4. call' \in [Calls -> KeyedCall] /\ exp' \in [Calls -> Expiries]
    <3>1. exp \in [Calls -> Expiries]
      BY DEF TypeInv
    <3> QED
      BY <1>10, <2>1, <2>3, <3>1, AnswerType, StoreFailedType DEF Evaluate, Rules
  <2> QED
    BY <1>10, <2>4 DEF Evaluate, TypeInv
<1>11. CASE Reserve(c)
  <2>1. call' \in [Calls -> KeyedCall]
    BY <1>2, <1>11, ChargeEndsType, AnswerType, StoreFailedType
       DEF Reserve, Rules, Charges
  <2> QED
    BY <1>11, <2>1 DEF Reserve, TypeInv
<1>12. CASE Forward(c)
  <2>1. [call[c] EXCEPT !.pc = "reply", !.sent = TRUE] \in KeyedCall
    BY <1>1, <1>2, CallUpdate
  <2>2. call' \in [Calls -> KeyedCall]
    BY <1>2, <1>12, <2>1, CallStep, GotoType, EndType DEF Forward, Rules
  <2> QED
    BY <1>12, <2>2 DEF Forward, TypeInv
<1>13. CASE Refund(c)
  <2>1. PICK ch \in Charges : ChargeEnds(c, "done", "upstream.unreachable", ch)
    BY <1>13 DEF Refund, Charges
  <2>2. call' \in [Calls -> KeyedCall]
    BY <1>2, <2>1, ChargeEndsType DEF Rules
  <2> QED
    BY <1>13, <2>2 DEF Refund, TypeInv
<1>14. CASE Reply(c)
  <2>1. DecisionOf(call[c]).rule \in Rules
    BY <1>1, DecisionType
  <2>2. exp \in [Calls -> Expiries]
    BY DEF TypeInv
  <2>3. call' \in [Calls -> KeyedCall] /\ exp' \in [Calls -> Expiries]
    BY <1>14, <2>1, <2>2, PromptType, EndType DEF Reply, Rules
  <2> QED
    BY <1>14, <2>3 DEF Reply, TypeInv
<1>15. CASE Notify(c)
  <2>1. call' \in [Calls -> KeyedCall]
    BY <1>15, EndType DEF Notify, Rules
  <2>2. consumed' \subseteq Calls /\ approved' \subseteq Calls
    BY <1>4, <1>15 DEF Notify, PurgeKeys, Kept
  <2> QED
    BY <1>15, <2>1, <2>2 DEF Notify, TypeInv
<1> QED
  BY <1>5, <1>6, <1>7, <1>8, <1>9, <1>10, <1>11, <1>12, <1>13, <1>14, <1>15 DEF Handle

-----------------------------------------------------------------------------
(* The approve page, the process and the theorem *)

LEMMA ClickDoneType ==
  ASSUME TypeInv, NEW h \in Clicks, NEW res \in Results, ClickDone(h, res)
  PROVE  click' \in [Clicks -> KeyedClicks]
<1>1. [click[h] EXCEPT !.pc = "done", !.res = res] \in KeyedClicks
  BY ClickUpdate DEF TypeInv, ClickPc
<1> QED
  BY <1>1, ClickStep DEF ClickDone

LEMMA PressType ==
  ASSUME TypeInv, NEW h \in Clicks, NEW r \in Replicas, NEW k \in Calls, Press(h, r, k)
  PROVE  TypeInv'
<1> DEFINE ok == Verifies(r, k) /\ ~Expired(k)
           pc == IF ok THEN "isConsumed" ELSE "done"
           res == IF ok THEN "" ELSE "400"
<1>1. pc \in ClickPc /\ res \in Results
  BY DEF ClickPc, ClickSteps, Results
<1>2. click' = [click EXCEPT ![h] = Pressed(pc, r, k, Burned(k), res)]
  BY DEF Press, Pressed
<1> HIDE DEF pc, res
<1>3. Pressed(pc, r, k, Burned(k), res) \in KeyedClicks
  BY <1>1, Truths, PressedType
<1>4. click' \in [Clicks -> KeyedClicks]
  BY <1>2, <1>3, ClickStep
<1> QED
  BY <1>4 DEF Press, TypeInv, keys

\* The steps of a POST on the approve link.
LEMMA ApproveType ==
  ASSUME TypeInv, NEW h \in Clicks, Approve(h)
  PROVE  TypeInv'
<1> USE DEF keys
<1>1. click[h] \in KeyedClicks
  BY DEF TypeInv
<1>2. click[h].pc \in ClickSteps => click[h].key \in Calls
  BY <1>1 DEF KeyedClicks, KeyedClick, ClickSteps
<1>3. consumed \subseteq Calls /\ approved \subseteq Calls
  BY DEF TypeInv
<1>4. ASSUME click[h].pc \in ClickSteps, NEW pc \in ClickSteps,
             click' = [click EXCEPT ![h].pc = pc]
      PROVE  click' \in [Clicks -> KeyedClicks]
  <2>1. [click[h] EXCEPT !.pc = pc] \in KeyedClicks
    BY <1>1, <1>2, <1>4, ClickUpdate DEF ClickPc
  <2> QED
    BY <1>4, <2>1, ClickStep
<1>5. \A res \in {"409", "already approved", "503", "500"} :
        ClickDone(h, res) => click' \in [Clicks -> KeyedClicks]
  BY ClickDoneType DEF Results
<1>6. ClickFailed(h) => click' \in [Clicks -> KeyedClicks]
  BY <1>5 DEF ClickFailed
<1>7. CASE ClickConsumed(h)
  <2>1. click' \in [Clicks -> KeyedClicks]
    BY <1>4, <1>5, <1>6, <1>7 DEF ClickConsumed, ClickSteps
  <2> QED
    BY <1>7, <2>1 DEF ClickConsumed, TypeInv
<1>8. CASE ClickApproved(h)
  <2>1. click' \in [Clicks -> KeyedClicks]
    BY <1>4, <1>5, <1>6, <1>8 DEF ClickApproved, ClickSteps
  <2> QED
    BY <1>8, <2>1 DEF ClickApproved, TypeInv
<1>9. CASE ClickPurge(h)
  <2>1. click' \in [Clicks -> KeyedClicks]
    BY <1>4, <1>5, <1>9 DEF ClickPurge, ClickSteps
  <2>2. consumed' \subseteq Calls /\ approved' \subseteq Calls
    BY <1>3, <1>9 DEF ClickPurge, PurgeKeys, Kept
  <2> QED
    BY <1>9, <2>1, <2>2 DEF ClickPurge, TypeInv
<1>10. CASE ClickApprove(h)
  <2>1. click[h].key \in Calls
    BY <1>2, <1>10 DEF ClickApprove, ClickSteps
  <2>2. /\ [click[h] EXCEPT !.pc = "record", !.res = "", !.took = TRUE] \in KeyedClicks
        /\ [click[h] EXCEPT !.pc = "done", !.res = "503", !.took = TRUE] \in KeyedClicks
    BY <1>1, <2>1, ClickUpdate DEF ClickPc, ClickSteps, Results
  <2>3. click' \in [Clicks -> KeyedClicks]
    BY <1>5, <1>10, <2>2, ClickStep DEF ClickApprove
  <2>4. approved' \subseteq Calls
    BY <1>3, <1>10, <2>1 DEF ClickApprove
  <2> QED
    BY <1>10, <2>3, <2>4 DEF ClickApprove, TypeInv
<1>11. CASE ClickRecord(h)
  <2>1. [click[h] EXCEPT !.pc = "done", !.res = "approved", !.logged = TRUE] \in KeyedClicks
    BY <1>1, ClickUpdate DEF ClickPc, Results
  <2>2. click' \in [Clicks -> KeyedClicks]
    BY <1>5, <1>11, <2>1, ClickStep DEF ClickRecord
  <2> QED
    BY <1>11, <2>2 DEF ClickRecord, TypeInv
<1> QED
  BY <1>7, <1>8, <1>9, <1>10, <1>11 DEF Approve

\* A process that dies answers none of its requests.
LEMMA RestartType ==
  ASSUME TypeInv, NEW r \in Replicas, Restart(r)
  PROVE  TypeInv'
<1>1. \A c \in Calls : [call[c] EXCEPT !.pc = "done", !.rule = "lost"] \in KeyedCall
  BY FreeMoves, CallUpdate DEF TypeInv, CallPc, KeySteps, Rules
<1>2. call' \in [Calls -> KeyedCall]
  BY <1>1 DEF Restart, TypeInv
<1>3. \A h \in Clicks : [click[h] EXCEPT !.pc = "done", !.res = "lost"] \in KeyedClicks
  BY ClickUpdate DEF TypeInv, ClickPc, Results
<1>4. click' \in [Clicks -> KeyedClicks]
  BY <1>3 DEF Restart, TypeInv
<1>5. crashes' \in 0..MaxCrashes
  <2>1. crashes \in 0..MaxCrashes /\ crashes < MaxCrashes /\ crashes' = crashes + 1
    BY DEF Restart, TypeInv
  <2> QED
    BY <2>1, BoundAssumption
<1>6. dead' \subseteq Calls /\ consumed' \subseteq Calls /\ approved' \subseteq Calls
  BY DEF Restart, TypeInv
<1> QED
  BY <1>2, <1>4, <1>5, <1>6 DEF Restart, TypeInv

LEMMA InitType == Init => TypeInv
<1> SUFFICES ASSUME Init PROVE TypeInv
  OBVIOUS
<1>1. 0 \in 0..MaxTime /\ 0 \in Expiries /\ 0 \in 0..MaxCrashes
  BY BoundAssumption DEF Expiries
<1> QED
  BY <1>1, FirstRecords DEF Init, TypeInv

LEMMA NextType == TypeInv /\ [Next]_vars => TypeInv'
<1> SUFFICES ASSUME TypeInv, [Next]_vars PROVE TypeInv'
  OBVIOUS
<1>1. ASSUME NEW c \in Calls, NEW r \in Replicas, NEW q \in Requests, NEW dry \in BOOLEAN,
             NEW k \in Calls \cup {None}, NEW a \in Answers, Receive(c, r, q, dry, k, a)
      PROVE  TypeInv'
  BY <1>1, ReceiveType
<1>2. ASSUME NEW c \in Calls, Handle(c) PROVE TypeInv'
  BY <1>2, HandleType
<1>3. ASSUME NEW h \in Clicks, NEW r \in Replicas, NEW k \in Calls, Press(h, r, k)
      PROVE  TypeInv'
  BY <1>3, PressType
<1>4. ASSUME NEW h \in Clicks, Approve(h) PROVE TypeInv'
  BY <1>4, ApproveType
<1>5. CASE Tick
  BY <1>5, BoundAssumption DEF Tick, TypeInv, keys
<1>6. ASSUME NEW r \in Replicas, Reload(r) PROVE TypeInv'
  BY <1>6 DEF Reload, TypeInv, keys
<1>7. ASSUME NEW r \in Replicas, Restart(r) PROVE TypeInv'
  BY <1>7, RestartType
<1>8. CASE UNCHANGED vars
  BY <1>8 DEF vars, TypeInv
<1> QED
  BY <1>1, <1>2, <1>3, <1>4, <1>5, <1>6, <1>7, <1>8 DEF Next

LEMMA TypeInvImplies == TypeInv => TypeOK
<1> SUFFICES ASSUME TypeInv PROVE TypeOK
  OBVIOUS
<1>1. KeyedCall \subseteq CallRec /\ KeyedClicks \subseteq ClickRec
  BY DEF KeyedCall, KeyedClicks
<1> QED
  BY <1>1 DEF TypeInv, TypeOK, Expiries

\* The types, with a key in every record that is about to touch the key table,
\* hold in every reachable state.
THEOREM KeyedTypes == Spec => []TypeInv
BY InitType, NextType, PTL DEF Spec

\* No handler, however it interleaves with others, restarts, reloads and store
\* failures, leaves the types of the state; every time a token carries lies
\* within TTL of the clock's range.
THEOREM TypeCorrect == Spec => []TypeOK
BY KeyedTypes, TypeInvImplies, PTL

-----------------------------------------------------------------------------
(*                    PART TWO: EXECUTED AT MOST ONCE                      *)

-----------------------------------------------------------------------------
(* Facts about records, expiries and purges *)

\* A purge, or no purge: only expired keys leave the ledger.
Purged == consumed' = consumed \/ consumed' = Kept(consumed)

LEMMA PurgedFacts ==
  ASSUME Purged
  PROVE  /\ consumed' \subseteq consumed
         /\ \A k \in consumed : k \in consumed' \/ Expired(k)
BY DEF Purged, Kept

\* Only the record of request c changes.
LEMMA OneRecord ==
  ASSUME TypeInv, NEW c \in Calls, NEW x, call' = [call EXCEPT ![c] = x]
  PROVE  call'[c] = x /\ \A d \in Calls \ {c} : call'[d] = call[d]
BY DEF TypeInv

\* Nothing already issued changes its expiry.
Reissues(c) == ~Issued(c) /\ exp' = [exp EXCEPT ![c] = now + TTL]

LEMMA ExpiryStays ==
  ASSUME TypeInv, NEW c \in Calls, exp' = exp \/ Reissues(c), now' = now
  PROVE  \A k \in Calls : Issued(k) => Issued(k)' /\ (Expired(k)' <=> Expired(k))
<1>1. exp \in [Calls -> Expiries]
  BY DEF TypeInv
<1> QED
  BY <1>1 DEF Reissues, Issued, Expired

\* A request that waits for the approver has a key.
LEMMA KeyedRecord ==
  ASSUME TypeInv, NEW c \in Calls
  PROVE  call[c].mode # "none" \/ call[c].pc \in KeySteps => call[c].key \in Calls
BY DEF TypeInv, KeyedCall, Keyed

-----------------------------------------------------------------------------
(* A step that leaves the requests alone *)

\* The clock, the approve page and a reload keep the invariant.
LEMMA QuietStep ==
  ASSUME TypeInv, OnceInv, call' = call, exp' = exp, dead' = dead, Purged,
         now' = now \/ now' = now + 1
  PROVE  OnceInv'
<1>1. \A k \in Calls : /\ Issued(k)' <=> Issued(k)
                       /\ Expired(k) => Expired(k)'
  <2>1. exp \in [Calls -> Expiries] /\ now \in 0..MaxTime
    BY DEF TypeInv
  <2> QED
    BY <2>1, BoundAssumption DEF Issued, Expired, Expiries
<1>2. consumed' \subseteq consumed /\ \A k \in consumed : k \in consumed' \/ Expired(k)
  BY PurgedFacts
<1>3. consumed \subseteq Calls
  BY DEF TypeInv
<1>4. \A d \in Calls : RecordInv(call[d])'
  BY DEF OnceInv
<1>5. \A k \in Calls : PromptLast(k)'
  BY <1>1 DEF OnceInv, PromptLast
<1>6. \A d \in Calls : CarriesLive(d)'
  BY <1>1 DEF OnceInv, CarriesLive
<1>7. \A d \in Calls : BurnKept(d)'
  BY <1>1, <1>2 DEF OnceInv, BurnKept
<1>8. \A d, e \in Calls : BurnedOnce(d, e)'
  BY <1>1 DEF OnceInv, BurnedOnce, BurnKept
<1>9. ASSUME NEW d \in Calls PROVE SpentKept(d)' /\ SpentSeen(d)'
  <2>1. SpentKept(d) /\ SpentSeen(d)
    BY DEF OnceInv
  <2>2. SpentKept(d)'
    BY <1>1, <1>2, <2>1 DEF SpentKept, OnceInv
  <2>3. SpentSeen(d)'
    BY <1>1, <2>1, KeyedRecord DEF SpentSeen, KeySteps
  <2> QED
    BY <2>2, <2>3
<1>10. Ledger'
  BY <1>1, <1>2, <1>3 DEF OnceInv, Ledger
<1> QED
  BY <1>4, <1>5, <1>6, <1>7, <1>8, <1>9, <1>10 DEF OnceInv

-----------------------------------------------------------------------------
(* A step of one request *)

\* What every step of request c that is under way does to its record: x takes
\* the place of call[c], the key and the replica stay.
Steps(c, x) ==
  /\ call' = [call EXCEPT ![c] = x]
  /\ InFlight(call[c])
  /\ x.pc # "new"
  /\ x.key = call[c].key /\ x.at = call[c].at /\ x.spent = call[c].spent
  /\ RecordInv(x)
  /\ Issued(c) => x.pc \in {"notify", "done"}
  /\ exp' = exp \/ (Reissues(c) /\ x.pc \in {"notify", "done"})
  /\ (x.pc = "isApproved" \/ x.mode = "pending") =>
       (call[c].pc = "isApproved" \/ call[c].mode = "pending" \/ call[c].key \notin consumed)
  /\ now' = now /\ dead' = dead

\* A step that does not burn.
Carries(c, x) == Steps(c, x) /\ x.took = call[c].took /\ Purged

\* The insert into the key table.
Burns(c, x) ==
  /\ Steps(c, x)
  /\ call[c].key \in Calls
  /\ x.took = Wins(call[c].key)
  /\ consumed' = consumed \cup {call[c].key}

\* What such a step keeps whether it burns or not.
LEMMA MoveKeeps ==
  ASSUME TypeInv, OnceInv, NEW c \in Calls, NEW x, Steps(c, x),
         \A k \in consumed : k \in consumed' \/ Expired(k)
  PROVE  /\ \A d \in Calls : RecordInv(call[d])'
         /\ \A k \in Calls : PromptLast(k)'
         /\ \A d \in Calls : CarriesLive(d)'
         /\ \A d \in Calls : SpentKept(d)' /\ SpentSeen(d)'
<1>1. call'[c] = x /\ \A d \in Calls \ {c} : call'[d] = call[d]
  BY OneRecord DEF Steps
<1>2. \A k \in Calls : Issued(k) => Issued(k)' /\ (Expired(k)' <=> Expired(k))
  BY ExpiryStays DEF Steps
<1>3. \A d \in Calls : d # c => (Issued(d)' <=> Issued(d))
  BY DEF Steps, Reissues, Issued, TypeInv
<1>4. \A d \in Calls : RecordInv(call[d])'
  BY <1>1 DEF OnceInv, Steps
<1>5. ASSUME NEW k \in Calls PROVE PromptLast(k)'
  <2>1. CASE k # c
    BY <1>1, <1>3, <2>1 DEF OnceInv, PromptLast
  <2>2. CASE k = c
    BY <1>1, <2>2 DEF Steps, Reissues, Issued, PromptLast
  <2> QED
    BY <2>1, <2>2
<1>6. ASSUME NEW d \in Calls PROVE CarriesLive(d)'
  <2>1. call'[d].key = call[d].key /\ call'[d].at = call[d].at
    BY <1>1 DEF Steps
  <2>2. \A k \in Calls : call'[k].at = call[k].at
    BY <1>1 DEF Steps
  <2>3. InFlight(call'[d]) => InFlight(call[d])
    BY <1>1 DEF Steps
  <2>4. dead' = dead
    BY DEF Steps
  <2> QED
    BY <1>2, <2>1, <2>2, <2>3, <2>4 DEF OnceInv, CarriesLive
<1>7. ASSUME NEW d \in Calls PROVE SpentKept(d)' /\ SpentSeen(d)'
  <2>1. SpentKept(d) /\ SpentSeen(d)
    BY DEF OnceInv
  <2>2. call'[d].key = call[d].key /\ call'[d].spent = call[d].spent
    BY <1>1 DEF Steps
  <2>3. \A k \in Calls : Issued(k) /\ (k \in consumed \/ Expired(k))
                           => k \in consumed' \/ Expired(k)'
    BY <1>2
  <2>4. InFlight(call'[d]) => InFlight(call[d])
    BY <1>1 DEF Steps
  <2>5. SpentKept(d)'
    BY <1>2, <2>1, <2>2, <2>3, <2>4 DEF SpentKept
  <2>6. SpentSeen(d)'
    <3>1. CASE d # c
      BY <1>1, <1>2, <2>1, <3>1 DEF SpentKept, SpentSeen
    <3>2. CASE d = c
      <4>1. InFlight(call[c])
        BY DEF Steps
      <4>2. x.spent /\ (x.pc = "isApproved" \/ x.mode = "pending") => Expired(call[c].key)
        BY <2>1, <3>2, <4>1 DEF Steps, SpentKept, SpentSeen
      <4> QED
        BY <1>1, <1>2, <2>1, <2>2, <3>2, <4>2 DEF SpentKept, SpentSeen
    <3> QED
      BY <3>1, <3>2
  <2> QED
    BY <2>5, <2>6
<1> QED
  BY <1>4, <1>5, <1>6, <1>7

\* The burns on record stay on record.
LEMMA CarryStep ==
  ASSUME TypeInv, OnceInv, NEW c \in Calls, NEW x, Carries(c, x)
  PROVE  OnceInv'
<1>1. call'[c] = x /\ \A d \in Calls \ {c} : call'[d] = call[d]
  BY OneRecord DEF Carries, Steps
<1>2. \A k \in Calls : Issued(k) => Issued(k)' /\ (Expired(k)' <=> Expired(k))
  BY ExpiryStays DEF Carries, Steps
<1>3. consumed' \subseteq consumed /\ \A k \in consumed : k \in consumed' \/ Expired(k)
  BY PurgedFacts DEF Carries
<1>4. \A d \in Calls : call'[d].took = call[d].took /\ call'[d].key = call[d].key
  BY <1>1 DEF Carries, Steps
<1>5. dead' = dead /\ consumed \subseteq Calls
  BY DEF Carries, Steps, TypeInv
<1>6. \A d \in Calls : BurnKept(d)'
  BY <1>2, <1>3, <1>4, <1>5 DEF OnceInv, BurnKept
<1>7. ASSUME NEW d \in Calls, NEW e \in Calls PROVE BurnedOnce(d, e)'
  <2>1. BurnKept(d) /\ BurnedOnce(d, e)
    BY DEF OnceInv
  <2> QED
    BY <1>2, <1>4, <2>1 DEF BurnKept, BurnedOnce
<1>8. Ledger'
  BY <1>2, <1>3, <1>5 DEF OnceInv, Ledger
<1>9. Steps(c, x)
  BY DEF Carries
<1> QED
  BY <1>3, <1>6, <1>7, <1>8, <1>9, MoveKeeps DEF OnceInv

\* A burn wins only over burns of an expired confirmation.
LEMMA BurnStep ==
  ASSUME TypeInv, OnceInv, NEW c \in Calls, NEW x, Burns(c, x)
  PROVE  OnceInv'
<1>0. PICK key \in Calls : key = call[c].key
  BY DEF Burns
<1>1. call'[c] = x /\ \A d \in Calls \ {c} : call'[d] = call[d]
  BY OneRecord DEF Burns, Steps
<1>2. \A k \in Calls : Issued(k) => Issued(k)' /\ (Expired(k)' <=> Expired(k))
  BY ExpiryStays DEF Burns, Steps
<1>3. consumed' = consumed \cup {key} /\ dead' = dead /\ key \in Calls
  BY <1>0 DEF Burns, Steps
<1>4. Issued(key) /\ key \notin dead
  BY <1>0 DEF Burns, Steps, OnceInv, CarriesLive
<1>5. \A d \in Calls : call'[d].key = call[d].key
  BY <1>1 DEF Burns, Steps
<1>6. call'[c].took <=> key \notin consumed
  BY <1>0, <1>1 DEF Burns, Wins, Burned
<1>7. ASSUME NEW d \in Calls PROVE BurnKept(d)'
  <2>1. CASE d = c
    BY <1>0, <1>2, <1>3, <1>4, <1>5, <2>1 DEF BurnKept
  <2>2. CASE d # c
    BY <1>1, <1>2, <1>3, <2>2 DEF OnceInv, BurnKept
  <2> QED
    BY <2>1, <2>2
<1>8. ASSUME NEW d \in Calls, d # c, call[d].took, call[d].key = key, call'[c].took
      PROVE  Expired(key)
  BY <1>4, <1>6, <1>8 DEF OnceInv, BurnKept
<1>9. ASSUME NEW d \in Calls, NEW e \in Calls PROVE BurnedOnce(d, e)'
  <2>1. CASE d # c /\ e # c
    <3>1. BurnKept(d) /\ BurnedOnce(d, e)
      BY DEF OnceInv
    <3> QED
      BY <1>1, <1>2, <2>1, <3>1 DEF BurnKept, BurnedOnce
  <2>2. Expired(key) => Expired(key)'
    BY <1>2, <1>4
  <2>3. CASE d = c /\ e # c
    BY <1>0, <1>1, <1>5, <1>8, <2>2, <2>3 DEF BurnedOnce
  <2>4. CASE d # c /\ e = c
    BY <1>0, <1>1, <1>5, <1>8, <2>2, <2>4 DEF BurnedOnce
  <2> QED
    BY <2>1, <2>3, <2>4 DEF BurnedOnce
<1>10. Ledger'
  BY <1>2, <1>3, <1>4 DEF OnceInv, Ledger, TypeInv
<1>11. \A k \in consumed : k \in consumed' \/ Expired(k)
  BY <1>3
<1>12. Steps(c, x)
  BY DEF Burns
<1> QED
  BY <1>7, <1>9, <1>10, <1>11, <1>12, MoveKeeps DEF OnceInv

-----------------------------------------------------------------------------
(* The steps of a request *)

\* A record that changes only its place and its answer.
Same(x, y) ==
  /\ y.at = x.at /\ y.req = x.req /\ y.dry = x.dry /\ y.key = x.key /\ y.ans = x.ans
  /\ y.tier = x.tier /\ y.spent = x.spent

\* A decision looks at four fields only.
LEMMA DecisionFields ==
  ASSUME NEW x, NEW y, y.tier = x.tier, y.dry = x.dry, y.mode = x.mode, y.sup = x.sup
  PROVE  DecisionOf(y) = DecisionOf(x)
BY DEF DecisionOf

\* A step that leaves what decides about the request and what it has done.
LEMMA StayStep ==
  ASSUME TypeInv, OnceInv, NEW c \in Calls, NEW x, call' = [call EXCEPT ![c] = x],
         InFlight(call[c]), Same(call[c], x), x.mode = call[c].mode, x.sup = call[c].sup,
         x.took = call[c].took, x.sent = call[c].sent,
         now' = now, dead' = dead, Purged,
         x.pc # "new", x.pc \in BeforeBurn => ~x.sent, x.pc # "done" => x.rule = "",
         Redeems(call[c]) /\ x.pc \in AfterBurn => x.took,
         x.rule # "mrtr.declined", x.rule = "mrtr.pending" => x.mode = "pending",
         exp' = exp \/ (Reissues(c) /\ x.pc \in {"notify", "done"}),
         Issued(c) => x.pc \in {"notify", "done"},
         x.pc = "isApproved" => call[c].key \notin consumed
  PROVE  OnceInv'
<1>1. RecordInv(call[c])
  BY DEF OnceInv
<1>2. Redeems(x) <=> Redeems(call[c])
  BY DecisionFields DEF Redeems, Same
<1>3. Placed(x)
  BY <1>1 DEF RecordInv, Placed, Same, InFlight
<1>4. BurnsFirst(x)
  BY <1>1, <1>2 DEF RecordInv, BurnsFirst
<1>5. RecordInv(x)
  BY <1>3, <1>4 DEF RecordInv, Unsent, Silent, DeclineBurns, PendingWaits
<1>6. Steps(c, x)
  BY <1>5 DEF Steps, Same
<1> QED
  BY <1>6, CarryStep DEF Carries

\* Nobody but a request that is done, or telling the approver, has issued a prompt.
LEMMA NotIssued ==
  ASSUME OnceInv, NEW c \in Calls, call[c].pc \notin {"notify", "done"}
  PROVE  ~Issued(c)
BY DEF OnceInv, PromptLast

LEMMA EndStep ==
  ASSUME TypeInv, OnceInv, NEW c \in Calls, InFlight(call[c]), NEW rule, End(c, rule),
         rule # "mrtr.declined", rule = "mrtr.pending" => call[c].mode = "pending",
         now' = now, dead' = dead, Purged, exp' = exp \/ Reissues(c)
  PROVE  OnceInv'
<1>1. call[c] \in CallRec
  BY DEF TypeInv, KeyedCall
<1> DEFINE x == [call[c] EXCEPT !.pc = "done", !.rule = rule]
<1>2. /\ Same(call[c], x) /\ x.pc = "done" /\ x.rule = rule /\ x.mode = call[c].mode
      /\ x.sup = call[c].sup /\ x.took = call[c].took /\ x.sent = call[c].sent
  BY <1>1 DEF CallRec, Same
<1>3. call' = [call EXCEPT ![c] = x]
  BY DEF End
<1> HIDE DEF x
<1> QED
  BY <1>2, <1>3, StayStep DEF BeforeBurn, AfterBurn

LEMMA AnswerStep ==
  ASSUME TypeInv, OnceInv, NEW c \in Calls, InFlight(call[c]), NEW rule, Answer(c, rule),
         rule # "mrtr.declined", rule = "mrtr.pending" => call[c].mode = "pending",
         now' = now, dead' = dead, Purged, exp' = exp
  PROVE  OnceInv'
<1>1. PICK s \in Said(rule) : End(c, s)
  BY DEF Answer
<1>2. s = rule \/ s = "internal.error"
  BY <1>1 DEF Said
<1> QED
  BY <1>1, <1>2, EndStep

LEMMA GotoStep ==
  ASSUME TypeInv, OnceInv, NEW c \in Calls, InFlight(call[c]), NEW pc, Goto(c, pc),
         pc \in CallSteps, pc \in BeforeBurn => ~call[c].sent,
         Redeems(call[c]) /\ pc \in AfterBurn => call[c].took,
         pc = "isApproved" => call[c].key \notin consumed,
         now' = now, dead' = dead, Purged,
         exp' = exp \/ (Reissues(c) /\ pc = "notify"), Issued(c) => pc = "notify"
  PROVE  OnceInv'
<1>1. call[c] \in CallRec
  BY DEF TypeInv, KeyedCall
<1>2. call[c].rule = ""
  BY DEF OnceInv, RecordInv, Silent, InFlight
<1> DEFINE x == [call[c] EXCEPT !.pc = pc]
<1>3. /\ Same(call[c], x) /\ x.pc = pc /\ x.rule = "" /\ x.mode = call[c].mode
      /\ x.sup = call[c].sup /\ x.took = call[c].took /\ x.sent = call[c].sent
  BY <1>1, <1>2 DEF CallRec, Same
<1>4. call' = [call EXCEPT ![c] = x]
  BY DEF Goto, TypeInv
<1>5. pc # "new"
  BY DEF CallSteps
<1> HIDE DEF x
<1> QED
  BY <1>3, <1>4, <1>5, StayStep

LEMMA StoreFailedStep ==
  ASSUME TypeInv, OnceInv, NEW c \in Calls, InFlight(call[c]), StoreFailed(c),
         now' = now, dead' = dead, Purged, exp' = exp
  PROVE  OnceInv'
BY AnswerStep DEF StoreFailed

\* A prompt leaves the request for good.
LEMMA PromptStep ==
  ASSUME TypeInv, OnceInv, NEW c \in Calls, InFlight(call[c]), Prompt(c),
         call[c].pc # "notify", now' = now, dead' = dead, consumed' = consumed
  PROVE  OnceInv'
<1>1. Reissues(c)
  BY NotIssued DEF Reissues, Prompt, InFlight
<1>2. Purged
  BY DEF Purged
<1>3. CASE call[c].at \in Webhook
  BY <1>1, <1>2, <1>3, GotoStep DEF Prompt, CallSteps, BeforeBurn, AfterBurn
<1>4. CASE call[c].at \notin Webhook
  BY <1>1, <1>2, <1>4, EndStep DEF Prompt
<1> QED
  BY <1>3, <1>4

\* The record after the key was burned, or found burned.
LEMMA BurnEndsStep ==
  ASSUME TypeInv, OnceInv, NEW c \in Calls, call[c].pc = "insert",
         NEW pc \in {"done", "reserve"}, NEW rules, BurnEnds(c, pc, rules),
         pc = "reserve" => rules = {""} /\ Wins(call[c].key),
         "mrtr.declined" \in rules => Wins(call[c].key) /\ call[c].mode = "declining",
         "mrtr.pending" \notin rules,
         consumed' = consumed \cup {call[c].key},
         now' = now, dead' = dead, exp' = exp
  PROVE  OnceInv'
<1>1. call[c] \in CallRec /\ call[c].key \in Calls
  BY KeyedRecord DEF TypeInv, KeyedCall, KeySteps
<1>2. RecordInv(call[c])
  BY DEF OnceInv
<1>3. ~call[c].sent
  BY <1>2 DEF RecordInv, Unsent, BeforeBurn
<1>4. PICK s \in rules :
        call' = [call EXCEPT ![c] =
          [@ EXCEPT !.pc = pc, !.rule = s, !.took = Wins(call[c].key)]]
  BY DEF BurnEnds
<1> DEFINE x == [call[c] EXCEPT !.pc = pc, !.rule = s, !.took = Wins(call[c].key)]
<1>5. /\ Same(call[c], x) /\ x.pc = pc /\ x.rule = s /\ x.mode = call[c].mode
      /\ x.sup = call[c].sup /\ x.took = Wins(call[c].key) /\ x.sent = call[c].sent
  BY <1>1 DEF CallRec, Same
<1>6. call' = [call EXCEPT ![c] = x]
  BY <1>4
<1> HIDE DEF x
<1>7. Placed(x)
  BY <1>2, <1>5 DEF RecordInv, Placed, Same
<1>8. BurnsFirst(x)
  BY <1>3, <1>5 DEF BurnsFirst, AfterBurn
<1>9. Unsent(x) /\ Silent(x) /\ DeclineBurns(x) /\ PendingWaits(x)
  BY <1>3, <1>4, <1>5 DEF Unsent, Silent, DeclineBurns, PendingWaits
<1>10. RecordInv(x)
  BY <1>7, <1>8, <1>9 DEF RecordInv
<1>11. Steps(c, x)
  BY <1>5, <1>6, <1>10, NotIssued DEF Steps, InFlight, Same
<1> QED
  BY <1>1, <1>5, <1>11, BurnStep DEF Burns

\* The catalog's answer changes what will be decided, before anything is done.
LEMMA CatalogStep ==
  ASSUME TypeInv, OnceInv, NEW c \in Calls, Catalog(c)
  PROVE  OnceInv'
<1>1. call[c] \in CallRec /\ call[c].pc = "catalog" /\ InFlight(call[c])
  BY DEF TypeInv, KeyedCall, Catalog, InFlight
<1>2. RecordInv(call[c])
  BY DEF OnceInv
<1>3. ~call[c].sent /\ call[c].rule = ""
  BY <1>1, <1>2 DEF RecordInv, Unsent, Silent, BeforeBurn
<1>4. exp' = exp /\ now' = now /\ dead' = dead /\ Purged
  BY DEF Catalog, keys, world, Purged
<1>5. ASSUME NEW o, call' = [call EXCEPT ![c] = [@ EXCEPT !.pc = "evaluate", !.sup = Declares(o)]]
      PROVE  OnceInv'
  <2> DEFINE x == [call[c] EXCEPT !.pc = "evaluate", !.sup = Declares(o)]
  <2>1. /\ Same(call[c], x) /\ x.pc = "evaluate" /\ x.rule = "" /\ x.mode = call[c].mode
        /\ x.took = call[c].took /\ ~x.sent
    BY <1>1, <1>3 DEF CallRec, Same
  <2>2. call' = [call EXCEPT ![c] = x]
    BY <1>5
  <2> HIDE DEF x
  <2>3. RecordInv(x)
    BY <1>1, <1>2, <2>1
       DEF RecordInv, Placed, Unsent, Silent, BurnsFirst, DeclineBurns, PendingWaits,
           AfterBurn, Same
  <2>4. Steps(c, x)
    BY <1>1, <1>4, <2>1, <2>2, <2>3, NotIssued DEF Steps, Same
  <2> QED
    BY <1>4, <2>1, <2>4, CarryStep DEF Carries
<1>6. CASE Answer(c, "catalog.unavailable")
  BY <1>1, <1>4, <1>6, AnswerStep
<1> QED
  BY <1>5, <1>6 DEF Catalog

\* So does the approver's answer.
LEMMA ApprovedStep ==
  ASSUME TypeInv, OnceInv, NEW c \in Calls, CheckApproved(c)
  PROVE  OnceInv'
<1>1. call[c] \in CallRec /\ call[c].pc = "isApproved" /\ InFlight(call[c])
  BY DEF TypeInv, KeyedCall, CheckApproved, InFlight
<1>2. RecordInv(call[c])
  BY DEF OnceInv
<1>3. ~call[c].sent /\ call[c].rule = ""
  BY <1>1, <1>2 DEF RecordInv, Unsent, Silent, BeforeBurn
<1>4. exp' = exp /\ now' = now /\ dead' = dead /\ Purged
  BY DEF CheckApproved, keys, world, Purged
<1>5. ASSUME call' = [call EXCEPT ![c] =
               [@ EXCEPT !.pc = AfterVerify(call[c].tier, call[c].dry), !.mode = ApprovalMode(c)]]
      PROVE  OnceInv'
  <2> DEFINE pc == AfterVerify(call[c].tier, call[c].dry)
             x == [call[c] EXCEPT !.pc = pc, !.mode = ApprovalMode(c)]
  <2>1. pc \in {"catalog", "evaluate"}
    BY DEF AfterVerify
  <2> HIDE DEF pc
  <2>2. /\ Same(call[c], x) /\ x.pc = pc /\ x.rule = "" /\ x.took = call[c].took /\ ~x.sent
    BY <1>1, <1>3 DEF CallRec, Same
  <2>3. call' = [call EXCEPT ![c] = x]
    BY <1>5 DEF pc
  <2> HIDE DEF x
  <2>4. RecordInv(x)
    BY <1>1, <1>2, <2>1, <2>2
       DEF RecordInv, Placed, Unsent, Silent, BurnsFirst, DeclineBurns, PendingWaits,
           AfterBurn, Same
  <2>5. Steps(c, x)
    BY <1>1, <1>4, <2>1, <2>2, <2>3, <2>4, NotIssued DEF Steps, Same
  <2> QED
    BY <1>4, <2>2, <2>5, CarryStep DEF Carries
<1>6. CASE StoreFailed(c)
  BY <1>1, <1>4, <1>6, StoreFailedStep
<1> QED
  BY <1>5, <1>6 DEF CheckApproved

LEMMA InsertStep ==
  ASSUME TypeInv, OnceInv, NEW c \in Calls, Insert(c)
  PROVE  OnceInv'
<1>1. call[c].pc = "insert" /\ InFlight(call[c])
  BY DEF Insert, InFlight
<1>2. exp' = exp /\ now' = now /\ dead' = dead
  BY DEF Insert, world
<1>3. ASSUME NEW rule \in {"mrtr.replay", "mrtr.declined", "store.unavailable"}
      PROVE  /\ "mrtr.pending" \notin Said(rule)
             /\ "mrtr.declined" \in Said(rule) => rule = "mrtr.declined"
  BY DEF Said
<1>4. CASE consumed' = consumed \cup {call[c].key} /\ InsertOk(c)
  <2>1. CASE ~Wins(call[c].key) /\ BurnEnds(c, "done", Said("mrtr.replay"))
    BY <1>1, <1>2, <1>3, <1>4, <2>1, BurnEndsStep
  <2>2. CASE /\ Wins(call[c].key) /\ call[c].mode = "declining"
             /\ BurnEnds(c, "done", Said("mrtr.declined"))
    BY <1>1, <1>2, <1>3, <1>4, <2>2, BurnEndsStep
  <2>3. CASE Wins(call[c].key) /\ call[c].mode # "declining" /\ BurnEnds(c, "reserve", {""})
    BY <1>1, <1>2, <1>4, <2>3, BurnEndsStep
  <2> QED
    BY <1>4, <2>1, <2>2, <2>3 DEF InsertOk
<1>5. CASE /\ consumed' = consumed \cup {call[c].key}
           /\ BurnEnds(c, "done", Said("store.unavailable"))
  BY <1>1, <1>2, <1>3, <1>5, BurnEndsStep
<1>6. CASE consumed' = consumed /\ Answer(c, "store.unavailable")
  BY <1>1, <1>2, <1>6, AnswerStep DEF Purged
<1> QED
  BY <1>4, <1>5, <1>6 DEF Insert

\* Engine.evaluate: only a confirmation that is still to be burned redeems.
LEMMA EvaluateStep ==
  ASSUME TypeInv, OnceInv, NEW c \in Calls, Evaluate(c)
  PROVE  OnceInv'
<1>1. call[c].pc = "evaluate" /\ InFlight(call[c]) /\ ~Issued(c)
  BY NotIssued DEF Evaluate, InFlight
<1>2. now' = now /\ dead' = dead /\ consumed' = consumed /\ Purged
  BY DEF Evaluate, world, keys, Purged
<1>3. ~call[c].sent
  BY <1>1 DEF OnceInv, RecordInv, Unsent, BeforeBurn
<1>4. DecisionOf(call[c]).rule \notin {"mrtr.declined", "mrtr.pending"}
  BY DEF DecisionOf, Decide, Decision, Unsupported, TypeInv, KeyedCall, CallRec, Tiers
<1>5. ASSUME NEW rule \in {"store.unavailable", "blast_radius.per_principal",
                           DecisionOf(call[c]).rule},
             exp' = exp, Answer(c, rule)
      PROVE  OnceInv'
  BY <1>1, <1>2, <1>4, <1>5, AnswerStep
<1>6. ASSUME Proceed(c, AfterEvaluate(c)) PROVE OnceInv'
  <2>1. CASE AfterEvaluate(c) = "pending" /\ Answer(c, "mrtr.pending") /\ exp' = exp
    <3>1. call[c].mode = "pending"
      BY <2>1 DEF AfterEvaluate
    <3> QED
      BY <1>1, <1>2, <2>1, <3>1, AnswerStep
  <2>2. CASE Prompt(c)
    BY <1>1, <1>2, <2>2, PromptStep
  <2>3. CASE AfterEvaluate(c) = "purge" /\ Goto(c, "purge") /\ exp' = exp
    BY <1>1, <1>2, <1>3, <2>3, GotoStep DEF CallSteps, AfterBurn
  <2>4. CASE AfterEvaluate(c) \in {"reserve", "forward"} /\ Goto(c, AfterEvaluate(c)) /\ exp' = exp
    <3>1. ~Redeems(call[c])
      BY <2>4 DEF AfterEvaluate, Redeems, DecisionOf, Decide, Decision, Unsupported,
                  TypeInv, KeyedCall, CallRec, Tiers
    <3> QED
      BY <1>1, <1>2, <2>4, <3>1, GotoStep DEF CallSteps, BeforeBurn
  <2>5. CASE End(c, "internal.error") /\ exp' = exp
    BY <1>1, <1>2, <2>5, EndStep
  <2> QED
    BY <1>6, <2>1, <2>2, <2>3, <2>4, <2>5 DEF Proceed
<1>7. CASE StoreFailed(c) /\ exp' = exp
  BY <1>5, <1>7 DEF StoreFailed
<1> QED
  BY <1>5, <1>6, <1>7 DEF Evaluate

\* The charge and its refund.
LEMMA ChargeStep ==
  ASSUME TypeInv, OnceInv, NEW c \in Calls, call[c].pc \in {"reserve", "refund"},
         NEW pc, pc = "done" \/ pc = "forward", NEW rule, NEW ch, ChargeEnds(c, pc, rule, ch),
         pc = "forward" => rule = "", rule # "mrtr.declined", rule # "mrtr.pending",
         exp' = exp, now' = now, dead' = dead, consumed' = consumed
  PROVE  OnceInv'
<1>1. call[c] \in CallRec /\ InFlight(call[c]) /\ ~Issued(c)
  BY NotIssued DEF TypeInv, KeyedCall, InFlight
<1>2. Redeems(call[c]) => call[c].took
  BY DEF OnceInv, RecordInv, BurnsFirst, AfterBurn
<1> DEFINE x == [call[c] EXCEPT !.pc = pc, !.rule = rule, !.charge = ch]
<1>3. /\ Same(call[c], x) /\ x.pc = pc /\ x.rule = rule /\ x.mode = call[c].mode
      /\ x.sup = call[c].sup /\ x.took = call[c].took /\ x.sent = call[c].sent
  BY <1>1 DEF CallRec, Same
<1>4. call' = [call EXCEPT ![c] = x]
  BY DEF ChargeEnds
<1> HIDE DEF x
<1> QED
  BY <1>1, <1>2, <1>3, <1>4, StayStep DEF Purged, BeforeBurn

LEMMA ReserveStep ==
  ASSUME TypeInv, OnceInv, NEW c \in Calls, Reserve(c)
  PROVE  OnceInv'
<1>1. call[c].pc = "reserve" /\ InFlight(call[c])
  BY DEF Reserve, InFlight
<1>2. exp' = exp /\ now' = now /\ dead' = dead /\ consumed' = consumed /\ Purged
  BY DEF Reserve, world, keys, Purged
<1>3. ASSUME NEW pc, pc = "done" \/ pc = "forward", NEW rule, ChargeEnds(c, pc, rule, "held"),
             pc = "forward" => rule = "", rule # "mrtr.declined", rule # "mrtr.pending"
      PROVE  OnceInv'
  BY <1>1, <1>2, <1>3, ChargeStep
<1>4. CASE Answer(c, "blast_radius.per_principal") \/ StoreFailed(c)
  BY <1>1, <1>2, <1>4, AnswerStep, StoreFailedStep
<1>5. /\ ChargeEnds(c, "forward", "", "held") => OnceInv'
      /\ ChargeEnds(c, "done", "internal.error", "held") => OnceInv'
      /\ ChargeEnds(c, "done", "store.unavailable", "held") => OnceInv'
  BY <1>3
<1> QED
  BY <1>4, <1>5 DEF Reserve

LEMMA RefundStep ==
  ASSUME TypeInv, OnceInv, NEW c \in Calls, Refund(c)
  PROVE  OnceInv'
<1>1. PICK ch : ChargeEnds(c, "done", "upstream.unreachable", ch)
  BY DEF Refund
<1>2. call[c].pc = "refund"
  BY DEF Refund
<1>3. exp' = exp /\ now' = now /\ dead' = dead /\ consumed' = consumed
  BY DEF Refund, world, keys
<1> QED
  BY <1>1, <1>2, <1>3, ChargeStep

\* What is sent as redeemed has been burned.
LEMMA ForwardStep ==
  ASSUME TypeInv, OnceInv, NEW c \in Calls, Forward(c)
  PROVE  OnceInv'
<1>1. call[c] \in CallRec /\ call[c].pc = "forward" /\ InFlight(call[c]) /\ ~Issued(c)
  BY NotIssued DEF TypeInv, KeyedCall, Forward, InFlight
<1>2. exp' = exp /\ now' = now /\ dead' = dead /\ consumed' = consumed /\ Purged
  BY DEF Forward, world, keys, Purged
<1>3. Redeems(call[c]) => call[c].took
  BY <1>1 DEF OnceInv, RecordInv, BurnsFirst, AfterBurn
<1>4. CASE Goto(c, "refund")
  BY <1>1, <1>2, <1>3, <1>4, GotoStep DEF CallSteps, BeforeBurn
<1>5. CASE End(c, "upstream.unreachable")
  BY <1>1, <1>2, <1>5, EndStep
<1>6. CASE call' = [call EXCEPT ![c] = [@ EXCEPT !.pc = "reply", !.sent = TRUE]]
  <2>1. RecordInv(call[c])
    BY DEF OnceInv
  <2> DEFINE x == [call[c] EXCEPT !.pc = "reply", !.sent = TRUE]
  <2>2. /\ Same(call[c], x) /\ x.pc = "reply" /\ x.rule = call[c].rule
        /\ x.mode = call[c].mode /\ x.sup = call[c].sup /\ x.took = call[c].took
    BY <1>1 DEF CallRec, Same
  <2>3. call' = [call EXCEPT ![c] = x]
    BY <1>6
  <2> HIDE DEF x
  <2>4. call[c].rule = ""
    BY <1>1, <2>1 DEF RecordInv, Silent
  <2>5. Redeems(x) <=> Redeems(call[c])
    BY <2>2, DecisionFields DEF Redeems, Same
  <2>6. RecordInv(x)
    BY <1>1, <1>3, <2>1, <2>2, <2>4, <2>5
       DEF RecordInv, Placed, Unsent, Silent, BurnsFirst, DeclineBurns, PendingWaits,
           BeforeBurn, Same
  <2>7. Steps(c, x)
    BY <1>1, <1>2, <2>2, <2>3, <2>6 DEF Steps, Same
  <2> QED
    BY <1>2, <2>2, <2>7, CarryStep DEF Carries
<1> QED
  BY <1>4, <1>5, <1>6 DEF Forward

\* The remaining steps of a request.
LEMMA HandleStep ==
  ASSUME TypeInv, OnceInv, NEW c \in Calls, Handle(c)
  PROVE  OnceInv'
<1>1. CASE CheckConsumed(c)
  <2>1. call[c].pc = "isConsumed" /\ InFlight(call[c]) /\ ~Issued(c)
    BY <1>1, NotIssued DEF CheckConsumed, InFlight
  <2>2. exp' = exp /\ now' = now /\ dead' = dead /\ consumed' = consumed /\ Purged
    BY <1>1 DEF CheckConsumed, world, keys, Purged
  <2>3. CASE Answer(c, "mrtr.replay") \/ StoreFailed(c)
    BY <2>1, <2>2, <2>3, AnswerStep, StoreFailedStep
  <2>4. CASE ~Burned(call[c].key) /\ Goto(c, "isApproved")
    <3>1. ~call[c].sent
      BY <2>1 DEF OnceInv, RecordInv, Unsent, BeforeBurn
    <3> QED
      BY <2>1, <2>2, <2>4, <3>1, GotoStep DEF Burned, CallSteps, AfterBurn
  <2> QED
    BY <1>1, <2>3, <2>4 DEF CheckConsumed
<1>2. CASE Purge(c)
  <2>1. call[c].pc = "purge" /\ InFlight(call[c]) /\ ~Issued(c)
    BY <1>2, NotIssued DEF Purge, InFlight
  <2>2. exp' = exp /\ now' = now /\ dead' = dead /\ Purged
    BY <1>2 DEF Purge, world, keys, PurgeKeys, Purged
  <2>3. CASE Answer(c, "store.unavailable")
    BY <2>1, <2>2, <2>3, AnswerStep
  <2>4. CASE Goto(c, "insert")
    <3>1. ~call[c].sent
      BY <2>1 DEF OnceInv, RecordInv, Unsent, BeforeBurn
    <3> QED
      BY <2>1, <2>2, <2>4, <3>1, GotoStep DEF CallSteps, AfterBurn
  <2> QED
    BY <1>2, <2>3, <2>4 DEF Purge
<1>3. CASE Reply(c)
  <2>1. call[c].pc = "reply" /\ InFlight(call[c])
    BY <1>3 DEF Reply, InFlight
  <2>2. now' = now /\ dead' = dead /\ consumed' = consumed /\ Purged
    BY <1>3 DEF Reply, world, keys, Purged
  <2>3. DecisionOf(call[c]).rule \notin {"mrtr.declined", "mrtr.pending"}
    BY DEF DecisionOf, Decide, Decision, Unsupported, TypeInv, KeyedCall, CallRec, Tiers
  <2>4. ASSUME NEW rule \in {"upstream.failed", "mrtr.upstream_input_required",
                             DecisionOf(call[c]).rule},
               End(c, rule), exp' = exp
        PROVE  OnceInv'
    BY <2>1, <2>2, <2>3, <2>4, EndStep
  <2>5. CASE Prompt(c)
    BY <2>1, <2>2, <2>5, PromptStep
  <2> QED
    BY <1>3, <2>4, <2>5 DEF Reply
<1>4. CASE Notify(c)
  <2>1. InFlight(call[c]) /\ End(c, "prompt")
    BY <1>4 DEF Notify, InFlight
  <2>2. exp' = exp /\ now' = now /\ dead' = dead /\ Purged
    BY <1>4 DEF Notify, world, keys, PurgeKeys, Purged
  <2> QED
    BY <2>1, <2>2, EndStep
<1> QED
  BY <1>1, <1>2, <1>3, <1>4, ApprovedStep, InsertStep, CatalogStep, EvaluateStep, ReserveStep,
     ForwardStep, RefundStep DEF Handle

-----------------------------------------------------------------------------
(* A request comes in *)

\* Where verify_confirmation sends a request before its first await.
LEMMA EntryFacts ==
  ASSUME NEW r \in Replicas, NEW q \in Requests, NEW dry \in BOOLEAN,
         NEW k \in Calls \cup {None}, NEW a \in Answers
  PROVE  /\ Entry(r, q, dry, k, a).pc \in {"done", "isConsumed", "purge", "catalog", "evaluate"}
         /\ Entry(r, q, dry, k, a).mode # "pending"
         /\ Entry(r, q, dry, k, a).rule \notin {"mrtr.declined", "mrtr.pending"}
         /\ (Entry(r, q, dry, k, a).pc # "done" /\ k \in Calls) => Verifies(r, k)
<1>1. k = None <=> k \notin Calls
  BY NoneAssumption
<1> QED
  BY <1>1 DEF Entry, AfterVerify

\* The fields of the record of a request that came in.
LEMMA ReceivedFields ==
  ASSUME NEW pc, NEW r, NEW q, NEW dry, NEW k, NEW a, NEW t, NEW mode, NEW sp, NEW rule
  PROVE  LET x == Received(pc, r, q, dry, k, a, t, mode, sp, rule)
         IN /\ x.pc = pc /\ x.at = r /\ x.key = k /\ x.mode = mode /\ x.spent = sp
            /\ x.rule = rule /\ ~x.took /\ ~x.sent
BY DEF Received, NewCall

LEMMA ReceiveStep ==
  ASSUME TypeInv, OnceInv, NEW c \in Calls, NEW r \in Replicas, NEW q \in Requests,
         NEW dry \in BOOLEAN, NEW k \in Calls \cup {None}, NEW a \in Answers,
         Receive(c, r, q, dry, k, a)
  PROVE  OnceInv'
<1> DEFINE e == Entry(r, q, dry, k, a)
<1>1. /\ e.pc \in {"done", "isConsumed", "purge", "catalog", "evaluate"}
      /\ e.mode # "pending"
      /\ e.rule \notin {"mrtr.declined", "mrtr.pending"}
      /\ (e.pc # "done" /\ k \in Calls) => Verifies(r, k)
  BY EntryFacts
<1>2. PICK s \in IF e.pc = "done" THEN Said(e.rule) ELSE {""} :
        call' = [call EXCEPT ![c] =
          Received(e.pc, r, q, dry, k, a, policy[r][q], e.mode, Burned(k), s)]
  BY DEF Receive, Received
<1> HIDE DEF e
<1> DEFINE x == Received(e.pc, r, q, dry, k, a, policy[r][q], e.mode, Burned(k), s)
<1>3. /\ x.pc = e.pc /\ x.at = r /\ x.key = k /\ x.mode = e.mode /\ x.spent = Burned(k)
      /\ x.rule = s /\ ~x.took /\ ~x.sent
  BY ReceivedFields, ZenonT(60)
<1>4. call'[c] = x /\ \A d \in Calls \ {c} : call'[d] = call[d]
  BY <1>2, OneRecord
<1> HIDE DEF x
<1>5. exp' = exp /\ now' = now /\ dead' = dead /\ consumed' = consumed
  BY DEF Receive, world, keys
<1>6. s \notin {"mrtr.declined", "mrtr.pending"} /\ (e.pc # "done" => s = "")
  BY <1>2, <1>1 DEF Said
<1>7. RecordInv(x)
  BY <1>1, <1>3, <1>6
     DEF RecordInv, Placed, Unsent, Silent, BurnsFirst, DeclineBurns, PendingWaits, AfterBurn
<1>8. call[c].pc = "new" /\ ~Issued(c)
  BY NotIssued DEF Receive
<1>9. \A j \in Calls : /\ (Issued(j)' <=> Issued(j)) /\ (Expired(j)' <=> Expired(j))
                       /\ Issued(j) => call'[j] = call[j]
  BY <1>4, <1>5, <1>8 DEF Issued, Expired
<1>10. \A d \in Calls : RecordInv(call[d])'
  BY <1>4, <1>7 DEF OnceInv
<1>11. \A j \in Calls : PromptLast(j)'
  BY <1>9 DEF OnceInv, PromptLast
<1>12. ASSUME NEW d \in Calls PROVE CarriesLive(d)'
  <2>1. CASE d # c
    BY <1>4, <1>5, <1>9, <2>1 DEF OnceInv, CarriesLive
  <2>2. CASE d = c
    <3>1. InFlight(x) /\ k \in Calls => Verifies(r, k)
      BY <1>1, <1>3 DEF InFlight
    <3>2. FixedSecret => dead = {}
      BY DEF OnceInv, Ledger
    <3>3. InFlight(x) /\ k \in Calls =>
            Issued(k) /\ k \notin dead /\ (FixedSecret \/ call[k].at = r)
      BY <3>1, <3>2 DEF Verifies
    <3> QED
      BY <1>3, <1>4, <1>5, <1>9, <2>2, <3>3 DEF CarriesLive
  <2> QED
    BY <2>1, <2>2
<1>13. \A d \in Calls : BurnKept(d)'
  BY <1>3, <1>4, <1>5, <1>9 DEF OnceInv, BurnKept
<1>14. ASSUME NEW d \in Calls, NEW f \in Calls PROVE BurnedOnce(d, f)'
  <2>1. BurnKept(d) /\ BurnedOnce(d, f)
    BY DEF OnceInv
  <2>2. d = c \/ f = c \/ (call'[d] = call[d] /\ call'[f] = call[f])
    BY <1>4
  <2> QED
    BY <1>3, <1>4, <1>9, <2>1, <2>2 DEF BurnKept, BurnedOnce
<1>15. ASSUME NEW d \in Calls PROVE SpentKept(d)' /\ SpentSeen(d)'
  <2>1. CASE d # c
    BY <1>4, <1>5, <1>9, <2>1 DEF OnceInv, SpentKept, SpentSeen
  <2>2. CASE d = c
    <3>1. x.spent => k \in consumed /\ k \in Calls /\ Issued(k)
      BY <1>3 DEF Burned, OnceInv, Ledger, TypeInv
    <3>2. SpentKept(d)'
      BY <1>3, <1>4, <1>5, <1>9, <2>2, <3>1 DEF SpentKept
    <3>3. SpentSeen(d)'
      BY <1>1, <1>3, <1>4, <2>2 DEF SpentSeen
    <3> QED
      BY <3>2, <3>3
  <2> QED
    BY <2>1, <2>2
<1>16. Ledger'
  BY <1>5, <1>9 DEF OnceInv, Ledger, TypeInv
<1> QED
  BY <1>10, <1>11, <1>12, <1>13, <1>14, <1>15, <1>16 DEF OnceInv

-----------------------------------------------------------------------------
(* A process dies *)

\* What a restart makes of a record.
Lost(x) == [x EXCEPT !.pc = "done", !.rule = "lost"]

LEMMA LostFields ==
  ASSUME NEW x \in CallRec
  PROVE  /\ Same(x, Lost(x)) /\ Lost(x).pc = "done" /\ Lost(x).rule = "lost"
         /\ Lost(x).mode = x.mode /\ Lost(x).sup = x.sup
         /\ Lost(x).took = x.took /\ Lost(x).sent = x.sent
BY DEF CallRec, Same, Lost

\* With the memory store the whole ledger goes, and every secret with it.
LEMMA LedgerLost ==
  ASSUME TypeInv, OnceInv, NEW r \in Replicas, Restart(r)
  PROVE  \A k \in consumed : k \in consumed' \/ k \in dead'
<1>1. CASE SharedStore
  BY <1>1 DEF Restart
<1>2. CASE ~SharedStore
  <2>1. ~FixedSecret /\ \A s \in Replicas : s = r
    BY <1>2, DeploymentAssumption
  <2>2. \A k \in consumed : k \in Calls /\ Issued(k) /\ call[k].at \in Replicas
    BY DEF OnceInv, Ledger, PromptLast, RecordInv, Placed, TypeInv
  <2> QED
    BY <2>1, <2>2 DEF Restart
<1> QED
  BY <1>1, <1>2

LEMMA RestartStep ==
  ASSUME TypeInv, OnceInv, NEW r \in Replicas, Restart(r)
  PROVE  OnceInv'
<1>1. exp' = exp /\ now' = now
  BY DEF Restart
<1>2. \A j \in Calls : (Issued(j)' <=> Issued(j)) /\ (Expired(j)' <=> Expired(j))
  BY <1>1 DEF Issued, Expired
<1>3. \A d \in Calls : call'[d] = IF call[d].at = r /\ call[d].pc # "done"
                                  THEN Lost(call[d]) ELSE call[d]
  BY DEF Restart, Lost
<1>4. \A d \in Calls : call[d] \in CallRec /\ RecordInv(call[d])
  BY DEF TypeInv, KeyedCall, OnceInv
<1>5. \A d \in Calls : /\ Same(call[d], call'[d]) /\ call'[d].took = call[d].took
                       /\ call'[d].mode = call[d].mode
                       /\ call'[d].pc = call[d].pc \/ call'[d].pc = "done"
                       /\ call'[d].pc # "done" => call'[d] = call[d]
  BY <1>3, <1>4, LostFields DEF Same
<1>6. ASSUME NEW d \in Calls PROVE RecordInv(call[d])'
  <2>1. CASE call'[d] = call[d]
    BY <1>4, <2>1
  <2>2. CASE call'[d] = Lost(call[d]) /\ call[d].at = r
    <3> DEFINE x == call[d]
               y == Lost(call[d])
    <3>1. /\ Same(x, y) /\ y.pc = "done" /\ y.rule = "lost" /\ y.mode = x.mode
          /\ y.sup = x.sup /\ y.took = x.took /\ y.sent = x.sent /\ x.at = r
      BY <1>4, <2>2, LostFields
    <3>2. RecordInv(x)
      BY <1>4
    <3> HIDE DEF x, y
    <3>3. Redeems(y) <=> Redeems(x)
      BY <3>1, DecisionFields DEF Redeems, Same
    <3>4. RecordInv(y)
      BY <3>1, <3>2, <3>3
         DEF RecordInv, Placed, Unsent, Silent, BurnsFirst, DeclineBurns, PendingWaits,
             BeforeBurn, AfterBurn, Same
    <3> QED
      BY <2>2, <3>4 DEF y
  <2> QED
    BY <1>3, <2>1, <2>2
<1>7. \A k \in Calls : PromptLast(k)'
  BY <1>2, <1>5 DEF OnceInv, PromptLast
<1>8. \A k \in consumed : k \in consumed' \/ k \in dead'
  BY LedgerLost
<1>9. dead \subseteq dead' /\ consumed' \subseteq consumed
  BY DEF Restart
<1>10. \A d \in Calls : InFlight(call'[d]) => call'[d] = call[d] /\ call[d].at # r
  <2>1. \A d \in Calls : Lost(call[d]).pc = "done"
    BY <1>4, LostFields
  <2> QED
    BY <1>3, <2>1 DEF InFlight
<1>11. ASSUME NEW d \in Calls PROVE CarriesLive(d)'
  <2> SUFFICES ASSUME InFlight(call'[d]), call'[d].key \in Calls PROVE CarriesLive(d)'
    BY DEF CarriesLive
  <2>1. PICK k \in Calls : k = call[d].key /\ call'[d] = call[d] /\ call[d].at # r
    BY <1>10
  <2>2. Issued(k) /\ k \notin dead /\ (FixedSecret \/ call[k].at = call[d].at)
    BY <1>10, <2>1 DEF OnceInv, CarriesLive
  <2>3. k \notin dead'
    BY <2>1, <2>2 DEF Restart
  <2>4. call'[k].at = call[k].at
    BY <1>5 DEF Same
  <2> QED
    BY <1>2, <2>1, <2>2, <2>3, <2>4 DEF CarriesLive
<1>12. \A d \in Calls : BurnKept(d)'
  BY <1>2, <1>5, <1>8, <1>9 DEF OnceInv, BurnKept, Same
<1>13. ASSUME NEW d \in Calls, NEW e \in Calls PROVE BurnedOnce(d, e)'
  <2>1. BurnKept(d) /\ BurnedOnce(d, e)
    BY DEF OnceInv
  <2> QED
    BY <1>2, <1>5, <2>1 DEF BurnKept, BurnedOnce, Same
<1>14. ASSUME NEW d \in Calls PROVE SpentKept(d)' /\ SpentSeen(d)'
  <2>1. SpentKept(d) /\ SpentSeen(d)
    BY DEF OnceInv
  <2>2. call'[d].spent = call[d].spent /\ call'[d].key = call[d].key
    BY <1>5 DEF Same
  <2>3. InFlight(call'[d]) => consumed' = consumed
    <3> SUFFICES ASSUME InFlight(call'[d]) PROVE SharedStore
      BY DEF Restart
    <3>1. call[d].at # r /\ call[d].pc # "new"
      BY <1>10 DEF InFlight
    <3>2. call[d].at \in Replicas
      BY <1>4, <3>1 DEF RecordInv, Placed
    <3> QED
      BY <3>1, <3>2, DeploymentAssumption
  <2>4. SpentKept(d)'
    BY <1>2, <1>10, <2>1, <2>2, <2>3 DEF SpentKept
  <2>5. SpentSeen(d)'
    BY <1>2, <1>5, <2>1, <2>2 DEF SpentKept, SpentSeen
  <2> QED
    BY <2>4, <2>5
<1>15. Ledger'
  BY <1>2, <1>9 DEF OnceInv, Ledger, Restart, TypeInv
<1> QED
  BY <1>6, <1>7, <1>11, <1>12, <1>13, <1>14, <1>15 DEF OnceInv

-----------------------------------------------------------------------------
(* The invariant and what follows *)

LEMMA InitOnce == Init => OnceInv
<1> SUFFICES ASSUME Init PROVE OnceInv
  OBVIOUS
<1>1. /\ \A c \in Calls : call[c] = NewCall
      /\ \A k \in Calls : ~Issued(k)
      /\ consumed = {} /\ dead = {}
  BY DEF Init, Issued
<1>2. RecordInv(NewCall)
  BY DEF NewCall, RecordInv, Placed, Unsent, Silent, BurnsFirst, DeclineBurns, PendingWaits,
         AfterBurn
<1>3. NewCall.pc = "new" /\ ~NewCall.took /\ ~NewCall.spent
  BY DEF NewCall
<1> QED
  BY <1>1, <1>2, <1>3
     DEF OnceInv, PromptLast, CarriesLive, InFlight, BurnKept, BurnedOnce, SpentKept, SpentSeen,
         Ledger

LEMMA NextOnce == TypeInv /\ OnceInv /\ [Next]_vars => OnceInv'
<1> SUFFICES ASSUME TypeInv, OnceInv, [Next]_vars PROVE OnceInv'
  OBVIOUS
<1>1. ASSUME NEW c \in Calls, NEW r \in Replicas, NEW q \in Requests, NEW dry \in BOOLEAN,
             NEW k \in Calls \cup {None}, NEW a \in Answers, Receive(c, r, q, dry, k, a)
      PROVE  OnceInv'
  BY <1>1, ReceiveStep
<1>2. ASSUME NEW c \in Calls, Handle(c) PROVE OnceInv'
  BY <1>2, HandleStep
<1>3. ASSUME NEW h \in Clicks, NEW r \in Replicas, NEW k \in Calls, Press(h, r, k)
      PROVE  OnceInv'
  BY <1>3, QuietStep DEF Press, keys, Purged
<1>4. ASSUME NEW h \in Clicks, Approve(h) PROVE OnceInv'
  <2>1. call' = call /\ exp' = exp /\ dead' = dead /\ now' = now /\ Purged
    BY <1>4 DEF Approve, ClickConsumed, ClickApproved, ClickPurge, ClickApprove, ClickRecord,
                PurgeKeys, keys, Purged
  <2> QED
    BY <2>1, QuietStep
<1>5. CASE Tick
  BY <1>5, QuietStep DEF Tick, keys, Purged
<1>6. ASSUME NEW r \in Replicas, Reload(r) PROVE OnceInv'
  BY <1>6, QuietStep DEF Reload, keys, Purged
<1>7. ASSUME NEW r \in Replicas, Restart(r) PROVE OnceInv'
  BY <1>7, RestartStep
<1>8. CASE UNCHANGED vars
  BY <1>8, QuietStep DEF vars, Purged
<1> QED
  BY <1>1, <1>2, <1>3, <1>4, <1>5, <1>6, <1>7, <1>8 DEF Next

\* Records, tokens, burns and the ledger agree in every reachable state, with
\* any number of replicas, crashes, store failures and reloads.
THEOREM OnceInvariant == Spec => []OnceInv
<1>1. Init => OnceInv
  BY InitOnce
<1>2. TypeInv /\ OnceInv /\ [Next]_vars => OnceInv'
  BY NextOnce
<1> QED
  BY <1>1, <1>2, KeyedTypes, PTL DEF Spec

\* What runs behind the gate was accepted, and had won the burn.
LEMMA ConfirmedBurned ==
  ASSUME TypeInv, OnceInv, NEW c \in Calls, Confirmed(c)
  PROVE  call[c].took /\ call[c].mode = "accepted"
<1>1. call[c] \in CallRec
  BY DEF TypeInv, KeyedCall
<1>2. Redeems(call[c])
  BY <1>1 DEF Confirmed, Ran, Redeems, DecisionOf, Decide, Decision, Unsupported, CallRec
<1>3. call[c].mode = "accepted"
  BY <1>1, <1>2, DecisionType DEF Redeems
<1> QED
  BY <1>2, <1>3 DEF Confirmed, Ran, OnceInv, RecordInv, BurnsFirst

\* Two requests that carry one live confirmation are not both executed.
THEOREM OneExecution == Spec => []ExecutedOnceWhileLive
<1>1. TypeInv /\ OnceInv => ExecutedOnceWhileLive
  <2> SUFFICES ASSUME TypeInv, OnceInv, NEW c \in Calls, NEW d \in Calls, c # d,
                      Confirmed(c), Confirmed(d), call[c].key = call[d].key
               PROVE  Expired(call[c].key)
    BY DEF ExecutedOnceWhileLive
  <2>1. call[c].took /\ call[d].took
    BY ConfirmedBurned
  <2> QED
    BY <2>1 DEF OnceInv, BurnedOnce
<1> QED
  BY <1>1, KeyedTypes, OnceInvariant, PTL

\* What the client was told is declined is not executed while it is live.
THEOREM DeclineHolds == Spec => []DeclinedNeverRuns
<1>1. TypeInv /\ OnceInv => DeclinedNeverRuns
  <2> SUFFICES ASSUME TypeInv, OnceInv, NEW c \in Calls, NEW d \in Calls,
                      call[c].rule = "mrtr.declined", Confirmed(d), call[c].key = call[d].key
               PROVE  Expired(call[c].key)
    BY DEF DeclinedNeverRuns
  <2>1. call[c].took /\ call[c].mode = "declining"
    BY DEF OnceInv, RecordInv, DeclineBurns
  <2>2. call[d].took /\ call[d].mode = "accepted"
    BY ConfirmedBurned
  <2> QED
    BY <2>1, <2>2 DEF OnceInv, BurnedOnce
<1> QED
  BY <1>1, KeyedTypes, OnceInvariant, PTL

\* A retry for a key burned before it came is never told to wait.
THEOREM PendingHolds == Spec => []PendingIsOpen
<1>1. OnceInv => PendingIsOpen
  BY DEF OnceInv, PendingIsOpen, RecordInv, PendingWaits, SpentSeen
<1> QED
  BY <1>1, OnceInvariant, PTL

\* No step of anybody un-burns a key that a replica could still accept.
LEMMA LedgerStep ==
  ASSUME TypeInv, OnceInv, [Next]_vars
  PROVE  \A k \in consumed \ consumed' : Expired(k)' \/ k \in dead'
<1>1. consumed' = Kept(consumed) /\ exp' = exp /\ now' = now
        => \A k \in consumed \ consumed' : Expired(k)' \/ k \in dead'
  BY DEF Kept, Expired
<1>2. ASSUME NEW r \in Replicas, Restart(r)
      PROVE  \A k \in consumed \ consumed' : Expired(k)' \/ k \in dead'
  BY <1>2, LedgerLost
<1>3. ASSUME NEW c \in Calls, Handle(c)
      PROVE  consumed \subseteq consumed'
             \/ (consumed' = Kept(consumed) /\ exp' = exp /\ now' = now)
  BY <1>3 DEF Handle, CheckConsumed, CheckApproved, Purge, Insert, Catalog, Evaluate, Reserve,
              Forward, Refund, Reply, Notify, PurgeKeys, keys, world
<1>4. ASSUME NEW h \in Clicks, Approve(h)
      PROVE  consumed' = consumed
             \/ (consumed' = Kept(consumed) /\ exp' = exp /\ now' = now)
  BY <1>4 DEF Approve, ClickConsumed, ClickApproved, ClickPurge, ClickApprove, ClickRecord,
              PurgeKeys, keys
<1>5. ASSUME NEW c \in Calls, NEW r \in Replicas, NEW q \in Requests, NEW dry \in BOOLEAN,
             NEW k \in Calls \cup {None}, NEW a \in Answers, Receive(c, r, q, dry, k, a)
      PROVE  consumed' = consumed
  BY <1>5 DEF Receive, keys
<1>6. ASSUME NEW h \in Clicks, NEW r \in Replicas, NEW k \in Calls, Press(h, r, k)
      PROVE  consumed' = consumed
  BY <1>6 DEF Press, keys
<1>7. Tick \/ (\E r \in Replicas : Reload(r)) \/ UNCHANGED vars => consumed' = consumed
  BY DEF Tick, Reload, keys, vars
<1> QED
  BY <1>1, <1>2, <1>3, <1>4, <1>5, <1>6, <1>7 DEF Next

\* A burn is forgotten only once no token that needs it can be accepted.
THEOREM BurnsLast == Spec => NeverUnburned
<1>1. TypeInv /\ OnceInv /\ [Next]_vars
        => [\A k \in consumed \ consumed' : Expired(k)' \/ k \in dead']_vars
  BY LedgerStep
<1> QED
  BY <1>1, KeyedTypes, OnceInvariant, PTL DEF Spec, NeverUnburned

-----------------------------------------------------------------------------
(*                 PART THREE: AGREED TO, AND CHARGED                      *)

-----------------------------------------------------------------------------
(* The steps of a request *)

\* What a step of request c under way does, whichever it is: who changes what.
Moved(c) ==
  LET y == call[c]
      x == call'[c]
  IN /\ \A d \in Calls \ {c} : call'[d] = call[d]
     /\ InFlight(y) /\ x.pc # "new"
     /\ Same(y, x) /\ Untaken(x) /\ Held(x)
     /\ x.mode = y.mode \/ (y.pc = "isApproved" /\ x.mode = ApprovalMode(c))
     /\ DecisionOf(x) = DecisionOf(y) \/ y.pc \in {"isApproved", "catalog"}
     /\ x.took = y.took \/ (y.pc = "insert" /\ x.took = Wins(y.key))
     /\ x.sent = y.sent \/ y.pc = "forward"
     /\ x.pc \in KeySteps => y.pc \in KeySteps \/ y.mode # "none"
     /\ \/ exp' = exp /\ (x.pc = "notify" \/ x.rule = "prompt" => y.pc = "notify")
        \/ /\ Reissues(c) /\ y.pc \in {"evaluate", "reply"}
           /\ DecisionOf(y).verdict = "confirm"
     /\ now' = now /\ dead' = dead /\ click' = click
     /\ approved' \subseteq approved
     /\ \A k \in consumed : k \in consumed' \/ Expired(k)

\* The part of Moved that is not about records.
Around(c) ==
  /\ now' = now /\ dead' = dead /\ click' = click
  /\ approved' \subseteq approved
  /\ \A k \in consumed : k \in consumed' \/ Expired(k)

\* A charge looks at what a decision looks at.
LEMMA ChargedFields ==
  ASSUME NEW x, NEW y, y.tier = x.tier, y.dry = x.dry, y.mode = x.mode, y.sup = x.sup
  PROVE  Charged(y) <=> Charged(x)
BY DecisionFields DEF Charged, Counts

\* A step that leaves what decides about the request and what it has done.
LEMMA PlainMove ==
  ASSUME TypeInv, ConsentInv, NEW c \in Calls, NEW x, call' = [call EXCEPT ![c] = x],
         InFlight(call[c]), Same(call[c], x), x.mode = call[c].mode, x.sup = call[c].sup,
         x.took = call[c].took, x.sent = call[c].sent, x.charge = call[c].charge,
         x.pc # "new", x.pc \in BeforeBurn => call[c].pc \in BeforeBurn,
         x.pc \in {"reserve", "forward", "refund"} => ~call[c].sent,
         x.pc \in {"isConsumed", "isApproved"} => call[c].mode = "none",
         x.pc \in {"forward", "reply"} /\ Charged(call[c]) => call[c].charge = "held",
         x.pc \in KeySteps => call[c].pc \in KeySteps \/ call[c].mode # "none",
         \/ exp' = exp /\ (x.pc = "notify" \/ x.rule = "prompt" => call[c].pc = "notify")
         \/ /\ Reissues(c) /\ call[c].pc \in {"evaluate", "reply"}
            /\ DecisionOf(call[c]).verdict = "confirm",
         Around(c)
  PROVE  Moved(c)
<1>1. call'[c] = x /\ \A d \in Calls \ {c} : call'[d] = call[d]
  BY OneRecord
<1>2. Untaken(call[c]) /\ Held(call[c])
  BY DEF ConsentInv
<1>3. Untaken(x)
  BY <1>2 DEF Untaken, BeforeBurn
<1>4. Charged(x) <=> Charged(call[c])
  BY ChargedFields DEF Same
<1>5. Held(x)
  BY <1>2, <1>4 DEF Held, InFlight
<1>6. DecisionOf(x) = DecisionOf(call[c])
  BY DecisionFields DEF Same
<1> QED
  BY <1>1, <1>3, <1>5, <1>6 DEF Moved, Around

LEMMA EndMove ==
  ASSUME TypeInv, ConsentInv, NEW c \in Calls, InFlight(call[c]), NEW rule, End(c, rule),
         \/ exp' = exp /\ (rule = "prompt" => call[c].pc = "notify")
         \/ /\ Reissues(c) /\ call[c].pc \in {"evaluate", "reply"}
            /\ DecisionOf(call[c]).verdict = "confirm",
         Around(c)
  PROVE  Moved(c)
<1>1. call[c] \in CallRec
  BY DEF TypeInv, KeyedCall
<1> DEFINE x == [call[c] EXCEPT !.pc = "done", !.rule = rule]
<1>2. /\ Same(call[c], x) /\ x.pc = "done" /\ x.rule = rule /\ x.mode = call[c].mode
      /\ x.sup = call[c].sup /\ x.took = call[c].took /\ x.sent = call[c].sent
      /\ x.charge = call[c].charge
  BY <1>1 DEF CallRec, Same
<1>3. call' = [call EXCEPT ![c] = x]
  BY DEF End
<1> HIDE DEF x
<1> QED
  BY <1>2, <1>3, PlainMove DEF BeforeBurn, KeySteps

LEMMA AnswerMove ==
  ASSUME TypeInv, ConsentInv, NEW c \in Calls, InFlight(call[c]), NEW rule, Answer(c, rule),
         exp' = exp, rule # "prompt", Around(c)
  PROVE  Moved(c)
<1>1. PICK s \in Said(rule) : End(c, s)
  BY DEF Answer
<1>2. s # "prompt"
  BY <1>1 DEF Said
<1> QED
  BY <1>1, <1>2, EndMove

LEMMA StoreFailedMove ==
  ASSUME TypeInv, ConsentInv, NEW c \in Calls, InFlight(call[c]), StoreFailed(c),
         exp' = exp, Around(c)
  PROVE  Moved(c)
BY AnswerMove DEF StoreFailed

LEMMA GotoMove ==
  ASSUME TypeInv, OnceInv, ConsentInv, NEW c \in Calls, InFlight(call[c]), NEW pc, Goto(c, pc),
         pc \in CallSteps, pc \in BeforeBurn => call[c].pc \in BeforeBurn,
         pc \in {"reserve", "forward", "refund"} => ~call[c].sent,
         pc \in {"isConsumed", "isApproved"} => call[c].mode = "none",
         pc \in {"forward", "reply"} /\ Charged(call[c]) => call[c].charge = "held",
         pc \in KeySteps => call[c].pc \in KeySteps \/ call[c].mode # "none",
         \/ exp' = exp /\ (pc = "notify" => call[c].pc = "notify")
         \/ /\ Reissues(c) /\ call[c].pc \in {"evaluate", "reply"}
            /\ DecisionOf(call[c]).verdict = "confirm",
         Around(c)
  PROVE  Moved(c)
<1>1. call[c] \in CallRec
  BY DEF TypeInv, KeyedCall
<1>2. call[c].rule = ""
  BY DEF OnceInv, RecordInv, Silent, InFlight
<1> DEFINE x == [call[c] EXCEPT !.pc = pc]
<1>3. /\ Same(call[c], x) /\ x.pc = pc /\ x.rule = "" /\ x.mode = call[c].mode
      /\ x.sup = call[c].sup /\ x.took = call[c].took /\ x.sent = call[c].sent
      /\ x.charge = call[c].charge
  BY <1>1, <1>2 DEF CallRec, Same
<1>4. call' = [call EXCEPT ![c] = x]
  BY DEF Goto, TypeInv
<1>5. pc # "new"
  BY DEF CallSteps
<1> HIDE DEF x
<1> QED
  BY <1>3, <1>4, <1>5, PlainMove

\* A prompt is only made of a decision to ask.
LEMMA PromptMove ==
  ASSUME TypeInv, OnceInv, ConsentInv, NEW c \in Calls, Prompt(c),
         call[c].pc \in {"evaluate", "reply"}, DecisionOf(call[c]).verdict = "confirm",
         Around(c)
  PROVE  Moved(c)
<1>1. Reissues(c) /\ InFlight(call[c])
  BY NotIssued DEF Reissues, Prompt, InFlight
<1>2. CASE call[c].at \in Webhook
  BY <1>1, <1>2, GotoMove DEF Prompt, CallSteps, BeforeBurn, KeySteps
<1>3. CASE call[c].at \notin Webhook
  BY <1>1, <1>3, EndMove DEF Prompt
<1> QED
  BY <1>2, <1>3

\* What the catalog says changes the decision, before anything is done.
LEMMA CatalogMove ==
  ASSUME TypeInv, OnceInv, ConsentInv, NEW c \in Calls, Catalog(c)
  PROVE  Moved(c)
<1>1. call[c] \in CallRec /\ call[c].pc = "catalog" /\ InFlight(call[c])
  BY DEF TypeInv, KeyedCall, Catalog, InFlight
<1>2. Untaken(call[c]) /\ Held(call[c]) /\ call[c].rule = ""
  BY DEF ConsentInv, OnceInv, RecordInv, Silent, Catalog
<1>3. exp' = exp /\ Around(c)
  BY DEF Catalog, keys, world, Around
<1>4. ASSUME NEW o, call' = [call EXCEPT ![c] = [@ EXCEPT !.pc = "evaluate", !.sup = Declares(o)]]
      PROVE  Moved(c)
  <2> DEFINE x == [call[c] EXCEPT !.pc = "evaluate", !.sup = Declares(o)]
  <2>1. /\ Same(call[c], x) /\ x.pc = "evaluate" /\ x.rule = "" /\ x.mode = call[c].mode
        /\ x.took = call[c].took /\ x.sent = call[c].sent /\ x.charge = call[c].charge
    BY <1>1, <1>2 DEF CallRec, Same
  <2>2. call'[c] = x /\ \A d \in Calls \ {c} : call'[d] = call[d]
    BY <1>4, OneRecord
  <2> HIDE DEF x
  <2>3. Untaken(x) /\ Held(x)
    BY <1>1, <1>2, <2>1 DEF Untaken, Held, BeforeBurn
  <2> QED
    BY <1>1, <1>3, <2>1, <2>2, <2>3 DEF Moved, Around, KeySteps
<1>5. CASE Answer(c, "catalog.unavailable")
  BY <1>1, <1>3, <1>5, AnswerMove
<1> QED
  BY <1>4, <1>5 DEF Catalog

\* So does the approver's answer.
LEMMA ApprovedMove ==
  ASSUME TypeInv, OnceInv, ConsentInv, NEW c \in Calls, CheckApproved(c)
  PROVE  Moved(c)
<1>1. call[c] \in CallRec /\ call[c].pc = "isApproved" /\ InFlight(call[c])
  BY DEF TypeInv, KeyedCall, CheckApproved, InFlight
<1>2. Untaken(call[c]) /\ Held(call[c]) /\ call[c].rule = ""
  BY DEF ConsentInv, OnceInv, RecordInv, Silent, CheckApproved
<1>3. exp' = exp /\ Around(c)
  BY DEF CheckApproved, keys, world, Around
<1>4. ASSUME call' = [call EXCEPT ![c] =
               [@ EXCEPT !.pc = AfterVerify(call[c].tier, call[c].dry), !.mode = ApprovalMode(c)]]
      PROVE  Moved(c)
  <2> DEFINE pc == AfterVerify(call[c].tier, call[c].dry)
             x == [call[c] EXCEPT !.pc = pc, !.mode = ApprovalMode(c)]
  <2>1. pc \in {"catalog", "evaluate"}
    BY DEF AfterVerify
  <2> HIDE DEF pc
  <2>2. /\ Same(call[c], x) /\ x.pc = pc /\ x.rule = "" /\ x.mode = ApprovalMode(c)
        /\ x.took = call[c].took /\ x.sent = call[c].sent /\ x.charge = call[c].charge
    BY <1>1, <1>2 DEF CallRec, Same
  <2>3. call'[c] = x /\ \A d \in Calls \ {c} : call'[d] = call[d]
    BY <1>4, OneRecord DEF pc
  <2> HIDE DEF x
  <2>4. Untaken(x) /\ Held(x)
    BY <1>1, <1>2, <2>1, <2>2 DEF Untaken, Held, BeforeBurn
  <2> QED
    BY <1>1, <1>3, <2>1, <2>2, <2>3, <2>4 DEF Moved, Around, KeySteps
<1>5. CASE StoreFailed(c)
  BY <1>1, <1>3, <1>5, StoreFailedMove
<1> QED
  BY <1>4, <1>5 DEF CheckApproved

\* The record after the key was burned, or found burned.
LEMMA BurnEndsMove ==
  ASSUME TypeInv, OnceInv, ConsentInv, NEW c \in Calls, call[c].pc = "insert",
         NEW pc \in {"done", "reserve"}, NEW rules, BurnEnds(c, pc, rules),
         "prompt" \notin rules, exp' = exp, Around(c)
  PROVE  Moved(c)
<1>1. call[c] \in CallRec /\ InFlight(call[c])
  BY DEF TypeInv, KeyedCall, InFlight
<1>2. Untaken(call[c]) /\ Held(call[c])
  BY DEF ConsentInv
<1>3. PICK s \in rules :
        call' = [call EXCEPT ![c] =
          [@ EXCEPT !.pc = pc, !.rule = s, !.took = Wins(call[c].key)]]
  BY DEF BurnEnds
<1> DEFINE x == [call[c] EXCEPT !.pc = pc, !.rule = s, !.took = Wins(call[c].key)]
<1>4. /\ Same(call[c], x) /\ x.pc = pc /\ x.rule = s /\ x.mode = call[c].mode
      /\ x.sup = call[c].sup /\ x.took = Wins(call[c].key) /\ x.sent = call[c].sent
      /\ x.charge = call[c].charge
  BY <1>1 DEF CallRec, Same
<1>5. call'[c] = x /\ \A d \in Calls \ {c} : call'[d] = call[d]
  BY <1>3, OneRecord
<1> HIDE DEF x
<1>6. DecisionOf(x) = DecisionOf(call[c])
  BY <1>4, DecisionFields DEF Same
<1>7. Untaken(x) /\ Held(x)
  BY <1>2, <1>4 DEF Untaken, Held, BeforeBurn
<1> QED
  BY <1>1, <1>3, <1>4, <1>5, <1>6, <1>7 DEF Moved, Around, KeySteps

LEMMA InsertMove ==
  ASSUME TypeInv, OnceInv, ConsentInv, NEW c \in Calls, Insert(c)
  PROVE  Moved(c)
<1>1. call[c].pc = "insert" /\ InFlight(call[c]) /\ exp' = exp
  BY DEF Insert, InFlight
<1>2. Around(c)
  BY DEF Insert, world, Around
<1>3. \A rule \in {"mrtr.replay", "mrtr.declined", "store.unavailable"} :
        "prompt" \notin Said(rule)
  BY DEF Said
<1>4. CASE InsertOk(c)
  BY <1>1, <1>2, <1>3, <1>4, BurnEndsMove DEF InsertOk
<1>5. CASE BurnEnds(c, "done", Said("store.unavailable"))
  BY <1>1, <1>2, <1>3, <1>5, BurnEndsMove
<1>6. CASE Answer(c, "store.unavailable")
  BY <1>1, <1>2, <1>6, AnswerMove
<1> QED
  BY <1>4, <1>5, <1>6 DEF Insert

\* Engine.evaluate: what goes on without a charge is not one that counts.
LEMMA EvaluateMove ==
  ASSUME TypeInv, OnceInv, ConsentInv, NEW c \in Calls, Evaluate(c)
  PROVE  Moved(c)
<1>1. call[c].pc = "evaluate" /\ InFlight(call[c]) /\ call[c] \in CallRec
  BY DEF Evaluate, InFlight, TypeInv, KeyedCall
<1>2. Around(c)
  BY DEF Evaluate, world, keys, Around
<1>3. ~call[c].sent
  BY <1>1 DEF ConsentInv, Untaken, BeforeBurn
<1>4. DecisionOf(call[c]).rule # "prompt"
  BY <1>1 DEF DecisionOf, Decide, Decision, Unsupported, CallRec, Tiers
<1>5. ASSUME NEW rule \in {"store.unavailable", "blast_radius.per_principal",
                           DecisionOf(call[c]).rule},
             exp' = exp, Answer(c, rule)
      PROVE  Moved(c)
  BY <1>1, <1>2, <1>4, <1>5, AnswerMove
<1>6. ASSUME Proceed(c, AfterEvaluate(c)) PROVE Moved(c)
  <2>1. CASE Answer(c, "mrtr.pending") /\ exp' = exp
    BY <1>1, <1>2, <2>1, AnswerMove
  <2>2. CASE AfterEvaluate(c) = "prompt" /\ Prompt(c)
    <3>1. DecisionOf(call[c]).verdict = "confirm"
      BY <2>2 DEF AfterEvaluate
    <3> QED
      BY <1>1, <1>2, <2>2, <3>1, PromptMove
  <2>3. CASE AfterEvaluate(c) = "purge" /\ Goto(c, "purge") /\ exp' = exp
    <3>1. DecisionOf(call[c]).rule = "tier.L2.confirmed"
      BY <2>3 DEF AfterEvaluate
    <3>2. call[c].mode = "accepted"
      BY <1>1, <3>1, DecisionType
    <3> QED
      BY <1>1, <1>2, <2>3, <3>2, GotoMove DEF CallSteps, BeforeBurn
  <2>4. CASE AfterEvaluate(c) \in {"reserve", "forward"} /\ Goto(c, AfterEvaluate(c)) /\ exp' = exp
    <3>1. AfterEvaluate(c) = "forward" => ~Charged(call[c])
      BY DEF AfterEvaluate, Charged
    <3> QED
      BY <1>1, <1>2, <1>3, <2>4, <3>1, GotoMove DEF CallSteps, BeforeBurn, KeySteps
  <2>5. CASE End(c, "internal.error") /\ exp' = exp
    BY <1>1, <1>2, <2>5, EndMove
  <2> QED
    BY <1>6, <2>1, <2>2, <2>3, <2>4, <2>5 DEF Proceed
<1>7. CASE StoreFailed(c) /\ exp' = exp
  BY <1>5, <1>7 DEF StoreFailed
<1> QED
  BY <1>5, <1>6, <1>7 DEF Evaluate

\* The charge, and its return.
LEMMA ChargeMove ==
  ASSUME TypeInv, OnceInv, ConsentInv, NEW c \in Calls, call[c].pc \in {"reserve", "refund"},
         NEW pc, pc = "done" \/ pc = "forward", NEW rule, NEW ch, ChargeEnds(c, pc, rule, ch),
         pc = "forward" => ch = "held" /\ call[c].pc = "reserve", rule # "prompt",
         exp' = exp, Around(c)
  PROVE  Moved(c)
<1>1. call[c] \in CallRec /\ InFlight(call[c])
  BY DEF TypeInv, KeyedCall, InFlight
<1>2. ~call[c].sent
  BY DEF ConsentInv, Untaken
<1> DEFINE x == [call[c] EXCEPT !.pc = pc, !.rule = rule, !.charge = ch]
<1>3. /\ Same(call[c], x) /\ x.pc = pc /\ x.rule = rule /\ x.mode = call[c].mode
      /\ x.sup = call[c].sup /\ x.took = call[c].took /\ x.sent = call[c].sent
      /\ x.charge = ch
  BY <1>1 DEF CallRec, Same
<1>4. call'[c] = x /\ \A d \in Calls \ {c} : call'[d] = call[d]
  BY OneRecord DEF ChargeEnds
<1> HIDE DEF x
<1>5. DecisionOf(x) = DecisionOf(call[c])
  BY <1>3, DecisionFields DEF Same
<1>6. Untaken(x) /\ Held(x)
  BY <1>2, <1>3 DEF Untaken, Held, BeforeBurn
<1> QED
  BY <1>1, <1>3, <1>4, <1>5, <1>6 DEF Moved, Around, KeySteps

LEMMA ReserveMove ==
  ASSUME TypeInv, OnceInv, ConsentInv, NEW c \in Calls, Reserve(c)
  PROVE  Moved(c)
<1>1. call[c].pc = "reserve" /\ InFlight(call[c]) /\ exp' = exp
  BY DEF Reserve, InFlight
<1>2. Around(c)
  BY DEF Reserve, world, keys, Around
<1>3. /\ ChargeEnds(c, "forward", "", "held") => Moved(c)
      /\ ChargeEnds(c, "done", "internal.error", "held") => Moved(c)
      /\ ChargeEnds(c, "done", "store.unavailable", "held") => Moved(c)
  BY <1>1, <1>2, ChargeMove
<1>4. CASE Answer(c, "blast_radius.per_principal") \/ StoreFailed(c)
  BY <1>1, <1>2, <1>4, AnswerMove, StoreFailedMove
<1> QED
  BY <1>3, <1>4 DEF Reserve

LEMMA RefundMove ==
  ASSUME TypeInv, OnceInv, ConsentInv, NEW c \in Calls, Refund(c)
  PROVE  Moved(c)
<1>1. PICK ch : ChargeEnds(c, "done", "upstream.unreachable", ch)
  BY DEF Refund
<1>2. call[c].pc = "refund" /\ exp' = exp
  BY DEF Refund
<1>3. Around(c)
  BY DEF Refund, world, keys, Around
<1> QED
  BY <1>1, <1>2, <1>3, ChargeMove

\* What is sent is held for, where it counts.
LEMMA ForwardMove ==
  ASSUME TypeInv, OnceInv, ConsentInv, NEW c \in Calls, Forward(c)
  PROVE  Moved(c)
<1>1. call[c] \in CallRec /\ call[c].pc = "forward" /\ InFlight(call[c]) /\ exp' = exp
  BY DEF TypeInv, KeyedCall, Forward, InFlight
<1>2. Around(c)
  BY DEF Forward, world, keys, Around
<1>3. Untaken(call[c]) /\ Held(call[c]) /\ ~call[c].sent /\ call[c].rule = ""
  BY <1>1 DEF ConsentInv, Untaken, OnceInv, RecordInv, Silent
<1>4. CASE Goto(c, "refund")
  BY <1>1, <1>2, <1>3, <1>4, GotoMove DEF CallSteps, BeforeBurn, KeySteps
<1>5. CASE End(c, "upstream.unreachable")
  BY <1>1, <1>2, <1>5, EndMove
<1>6. CASE call' = [call EXCEPT ![c] = [@ EXCEPT !.pc = "reply", !.sent = TRUE]]
  <2> DEFINE x == [call[c] EXCEPT !.pc = "reply", !.sent = TRUE]
  <2>1. /\ Same(call[c], x) /\ x.pc = "reply" /\ x.rule = "" /\ x.sent
        /\ x.mode = call[c].mode /\ x.sup = call[c].sup /\ x.took = call[c].took
        /\ x.charge = call[c].charge
    BY <1>1, <1>3 DEF CallRec, Same
  <2>2. call'[c] = x /\ \A d \in Calls \ {c} : call'[d] = call[d]
    BY <1>6, OneRecord
  <2> HIDE DEF x
  <2>3. DecisionOf(x) = DecisionOf(call[c]) /\ (Charged(x) <=> Charged(call[c]))
    BY <2>1, DecisionFields, ChargedFields DEF Same
  <2>4. Untaken(x) /\ Held(x)
    BY <1>1, <1>3, <2>1, <2>3 DEF Untaken, Held, BeforeBurn
  <2> QED
    BY <1>1, <1>2, <2>1, <2>2, <2>3, <2>4 DEF Moved, Around, KeySteps
<1> QED
  BY <1>4, <1>5, <1>6 DEF Forward

\* Every step of a request under way is such a step.
LEMMA HandleMoved ==
  ASSUME TypeInv, OnceInv, ConsentInv, NEW c \in Calls, Handle(c)
  PROVE  Moved(c)
<1>1. CASE CheckConsumed(c)
  <2>1. call[c].pc = "isConsumed" /\ InFlight(call[c]) /\ exp' = exp
    BY <1>1 DEF CheckConsumed, InFlight
  <2>2. Around(c) /\ call[c].mode = "none"
    BY <1>1, <2>1 DEF CheckConsumed, world, keys, Around, ConsentInv, Untaken
  <2>3. CASE Answer(c, "mrtr.replay") \/ StoreFailed(c)
    BY <2>1, <2>2, <2>3, AnswerMove, StoreFailedMove
  <2>4. CASE Goto(c, "isApproved")
    BY <2>1, <2>2, <2>4, GotoMove DEF CallSteps, BeforeBurn, KeySteps
  <2> QED
    BY <1>1, <2>3, <2>4 DEF CheckConsumed
<1>2. CASE Purge(c)
  <2>1. call[c].pc = "purge" /\ InFlight(call[c]) /\ exp' = exp
    BY <1>2 DEF Purge, InFlight
  <2>2. Around(c)
    BY <1>2 DEF Purge, world, keys, PurgeKeys, Kept, Around
  <2>3. CASE Answer(c, "store.unavailable")
    BY <2>1, <2>2, <2>3, AnswerMove
  <2>4. CASE Goto(c, "insert")
    BY <2>1, <2>2, <2>4, GotoMove DEF CallSteps, BeforeBurn, KeySteps
  <2> QED
    BY <1>2, <2>3, <2>4 DEF Purge
<1>3. CASE Reply(c)
  <2>1. call[c].pc = "reply" /\ InFlight(call[c])
    BY <1>3 DEF Reply, InFlight
  <2>2. Around(c)
    BY <1>3 DEF Reply, world, keys, Around
  <2>3. DecisionOf(call[c]).rule # "prompt"
    BY DEF DecisionOf, Decide, Decision, Unsupported, TypeInv, KeyedCall, CallRec, Tiers
  <2>4. ASSUME NEW rule \in {"upstream.failed", "mrtr.upstream_input_required",
                             DecisionOf(call[c]).rule},
               End(c, rule), exp' = exp
        PROVE  Moved(c)
    BY <2>1, <2>2, <2>3, <2>4, EndMove
  <2>5. CASE Prompt(c) /\ DecisionOf(call[c]).verdict = "confirm"
    BY <2>1, <2>2, <2>5, PromptMove
  <2> QED
    BY <1>3, <2>4, <2>5 DEF Reply
<1>4. CASE Notify(c)
  <2>1. call[c].pc = "notify" /\ InFlight(call[c]) /\ End(c, "prompt") /\ exp' = exp
    BY <1>4 DEF Notify, InFlight
  <2>2. Around(c)
    BY <1>4 DEF Notify, world, keys, PurgeKeys, Kept, Around
  <2> QED
    BY <2>1, <2>2, EndMove
<1> QED
  BY <1>1, <1>2, <1>3, <1>4, ApprovedMove, InsertMove, CatalogMove, EvaluateMove, ReserveMove,
     ForwardMove, RefundMove DEF Handle

-----------------------------------------------------------------------------
(* What a request does keeps the invariant *)

\* Only an L2 call is asked about.
LEMMA ConfirmFacts ==
  ASSUME NEW x \in CallRec
  PROVE  DecisionOf(x).verdict = "confirm" => x.tier = "L2"
BY DEF CallRec, DecisionOf, Decide, Decision, Unsupported, Tiers

LEMMA MovedConsent ==
  ASSUME TypeInv, OnceInv, ConsentInv, NEW c \in Calls, Moved(c)
  PROVE  ConsentInv'
<1> DEFINE y == call[c]
           x == call'[c]
<1>1. \A d \in Calls \ {c} : call'[d] = call[d]
  BY DEF Moved
<1>2. /\ InFlight(y) /\ x.pc # "new" /\ Same(y, x) /\ Untaken(x) /\ Held(x)
      /\ x.mode = y.mode \/ (y.pc = "isApproved" /\ x.mode = ApprovalMode(c))
      /\ DecisionOf(x) = DecisionOf(y) \/ y.pc \in {"isApproved", "catalog"}
      /\ x.pc \in KeySteps => y.pc \in KeySteps \/ y.mode # "none"
  BY DEF Moved
<1>3. \/ exp' = exp /\ (x.pc = "notify" \/ x.rule = "prompt" => y.pc = "notify")
      \/ /\ Reissues(c) /\ y.pc \in {"evaluate", "reply"}
         /\ DecisionOf(y).verdict = "confirm"
  BY DEF Moved
<1>4. /\ now' = now /\ dead' = dead /\ click' = click /\ approved' \subseteq approved
      /\ \A k \in consumed : k \in consumed' \/ Expired(k)
  BY DEF Moved
<1>5. y \in CallRec
  BY DEF TypeInv, KeyedCall
<1>6. call'[c] = x /\ call[c] = y
  OBVIOUS
<1> HIDE DEF x, y
<1>7. \A k \in Calls : Issued(k) => Issued(k)' /\ (Expired(k)' <=> Expired(k))
  BY <1>3, <1>4, ExpiryStays
<1>8. \A k \in Calls \ {c} : Issued(k)' <=> Issued(k)
  BY <1>3 DEF Reissues, Issued, TypeInv
<1>9. \A d \in Calls : /\ call'[d].at = call[d].at /\ call'[d].req = call[d].req
                       /\ call'[d].key = call[d].key /\ call'[d].ans = call[d].ans
  BY <1>1, <1>2, <1>6 DEF Same
<1>10. \A d \in Calls : Untaken(call[d])' /\ Held(call[d])'
  BY <1>1, <1>2, <1>6 DEF ConsentInv
<1>11. \A d \in Calls : Shown(d)'
  <2>1. call[c].pc # "done"
    BY <1>2, <1>6 DEF InFlight
  <2> QED
    BY <1>1, <1>9, <2>1 DEF ConsentInv, Shown
<1>12. ASSUME NEW k \in Calls PROVE Asked(k)'
  <2>1. CASE k # c
    BY <1>1, <1>8, <2>1 DEF ConsentInv, Asked
  <2>2. CASE k = c /\ exp' = exp /\ (x.pc = "notify" \/ x.rule = "prompt" => y.pc = "notify")
    <3>1. Asked(c) /\ (Issued(c) => y.pc = "notify") /\ (Issued(c)' <=> Issued(c))
      BY <1>2, <1>6, <2>2 DEF ConsentInv, OnceInv, PromptLast, InFlight, Issued
    <3>2. Issued(c)' => x.tier = "L2" /\ DecisionOf(x).verdict = "confirm"
      BY <1>2, <1>6, <3>1 DEF Asked, Same
    <3>3. x.pc = "notify" \/ x.rule = "prompt" => Issued(c)'
      BY <1>6, <2>2, <3>1 DEF Asked
    <3> QED
      BY <1>6, <2>2, <3>2, <3>3 DEF Asked
  <2>3. CASE k = c /\ Reissues(c) /\ y.pc \in {"evaluate", "reply"}
             /\ DecisionOf(y).verdict = "confirm"
    <3>1. Issued(c)'
      <4>1. now + TTL # 0 /\ exp'[c] = now + TTL
        BY <2>3, BoundAssumption DEF Reissues, TypeInv
      <4> QED
        BY <4>1 DEF Issued
    <3>2. x.tier = "L2" /\ DecisionOf(x).verdict = "confirm"
      BY <1>2, <1>5, <2>3, ConfirmFacts DEF Same
    <3> QED
      BY <1>6, <2>3, <3>1, <3>2 DEF Asked
  <2> QED
    BY <1>3, <2>1, <2>2, <2>3
<1>13. ASSUME NEW d \in Calls PROVE Bound(d)'
  <2>1. Bound(d) /\ (call[d].mode # "none" \/ call[d].pc \in KeySteps => call[d].key \in Calls)
    BY KeyedRecord DEF ConsentInv
  <2>2. call'[d].mode # "none" \/ call'[d].pc \in KeySteps
          => call[d].mode # "none" \/ call[d].pc \in KeySteps
    BY <1>1, <1>2, <1>6 DEF KeySteps
  <2> QED
    BY <1>9, <2>1, <2>2 DEF Bound, Binding, KeySteps
<1>14. ASSUME NEW d \in Calls PROVE Agreed(d)'
  <2>1. Agreed(d) /\ (call[d].mode # "none" \/ call[d].pc \in KeySteps => call[d].key \in Calls)
    BY KeyedRecord DEF ConsentInv
  <2>2. OverLink(call[d].key)' <=> OverLink(call[d].key)
    BY <1>4, <1>9 DEF OverLink
  <2>3. call[d].key \in Calls
          => (Strict(call[d].at, call[d].key)' <=> Strict(call[d].at, call[d].key))
    BY <1>9 DEF Strict
  <2>4. CASE call'[d].mode = call[d].mode
    BY <1>9, <2>1, <2>2, <2>3, <2>4 DEF Agreed
  <2>5. CASE call'[d].mode # call[d].mode
    <3>1. d = c /\ x.mode = ApprovalMode(c)
      BY <1>1, <1>2, <1>6, <2>5
    <3>2. x.mode = "accepted" => OverLink(call[c].key)
      BY <3>1 DEF ApprovalMode, ConsentInv
    <3> QED
      BY <1>6, <2>2, <3>1, <3>2, <1>9 DEF Agreed
  <2> QED
    BY <2>4, <2>5
<1>15. \A k \in approved' : OverLink(k)'
  BY <1>4 DEF ConsentInv, OverLink
<1>16. ASSUME NEW h \in Clicks PROVE ClickLive(h)' /\ ClickPast(h)'
  <2>1. ClickLive(h) /\ ClickPast(h) /\ click[h] \in KeyedClicks
    BY DEF ConsentInv, TypeInv
  <2>2. click[h].pc \notin {"new", "done"} => click[h].key \in Calls
    BY <2>1 DEF KeyedClicks, KeyedClick
  <2> QED
    BY <1>4, <1>7, <2>1, <2>2 DEF ClickLive, ClickPast
<1>17. \A k \in dead' : Issued(k)'
  BY <1>4, <1>7 DEF ConsentInv, TypeInv
<1> QED
  BY <1>10, <1>11, <1>12, <1>13, <1>14, <1>15, <1>16, <1>17 DEF ConsentInv

\* What verify_confirmation has seen to when it lets a request in.
LEMMA EntryConsent ==
  ASSUME NEW r \in Replicas, NEW q \in Requests, NEW dry \in BOOLEAN,
         NEW k \in Calls \cup {None}, NEW a \in Answers
  PROVE  LET e == Entry(r, q, dry, k, a)
         IN /\ e.pc \in {"done", "isConsumed", "purge", "catalog", "evaluate"}
            /\ e.rule # "prompt"
            /\ e.pc = "isConsumed" => e.mode = "none"
            /\ e.mode # "none" \/ e.pc \in KeySteps =>
                 k \in Calls /\ Binding(r, q) = Binding(call[k].at, call[k].req)
            /\ e.mode = "accepted" => a = "accept" /\ ~Strict(r, k)
BY NoneAssumption DEF Entry, AfterVerify, KeySteps

LEMMA ReceiveConsent ==
  ASSUME TypeInv, OnceInv, ConsentInv, NEW c \in Calls, NEW r \in Replicas, NEW q \in Requests,
         NEW dry \in BOOLEAN, NEW k \in Calls \cup {None}, NEW a \in Answers,
         Receive(c, r, q, dry, k, a)
  PROVE  ConsentInv'
<1> DEFINE e == Entry(r, q, dry, k, a)
<1>1. /\ e.pc \in {"done", "isConsumed", "purge", "catalog", "evaluate"}
      /\ e.rule # "prompt"
      /\ e.pc = "isConsumed" => e.mode = "none"
      /\ e.mode # "none" \/ e.pc \in KeySteps =>
           k \in Calls /\ Binding(r, q) = Binding(call[k].at, call[k].req)
      /\ e.mode = "accepted" => a = "accept" /\ ~Strict(r, k)
  BY EntryConsent
<1>2. PICK s \in IF e.pc = "done" THEN Said(e.rule) ELSE {""} :
        call' = [call EXCEPT ![c] =
          Received(e.pc, r, q, dry, k, a, policy[r][q], e.mode, Burned(k), s)]
  BY DEF Receive, Received
<1> HIDE DEF e
<1> DEFINE x == Received(e.pc, r, q, dry, k, a, policy[r][q], e.mode, Burned(k), s)
<1>0. x.req = q /\ x.ans = a /\ x.charge = "none"
  BY DEF Received, NewCall
<1>3. /\ x.pc = e.pc /\ x.at = r /\ x.key = k /\ x.mode = e.mode /\ x.spent = Burned(k)
      /\ x.rule = s /\ ~x.took /\ ~x.sent
  BY ReceivedFields, ZenonT(60)
<1>4. call'[c] = x /\ \A d \in Calls \ {c} : call'[d] = call[d]
  BY <1>2, OneRecord
<1> HIDE DEF x
<1>5. /\ exp' = exp /\ now' = now /\ dead' = dead /\ click' = click
      /\ consumed' = consumed /\ approved' = approved
  BY DEF Receive, world, keys
<1>6. s # "prompt"
  BY <1>2, <1>1 DEF Said
<1>7. call[c].pc = "new" /\ ~Issued(c) /\ (k \in Calls => Presentable(k))
  BY NotIssued, NoneAssumption DEF Receive
<1>8. \A j : (Issued(j)' <=> Issued(j)) /\ (Expired(j)' <=> Expired(j))
  BY <1>5 DEF Issued, Expired
<1>9. \A d \in Calls : call[d].key \in Calls => call[d].key # c
  BY <1>7 DEF ConsentInv, Shown
<1>10. k # c
  BY <1>7 DEF Presentable
<1>11. \A d \in Calls : Untaken(call[d])' /\ Held(call[d])'
  <2>1. Untaken(x) /\ Held(x)
    BY <1>0, <1>1, <1>3 DEF Untaken, Held, BeforeBurn
  <2> QED
    BY <1>4, <2>1 DEF ConsentInv
<1>12. ASSUME NEW d \in Calls PROVE Shown(d)'
  <2>1. CASE d # c
    <3>1. Shown(d) /\ (call[d].key \in Calls => call[d].key # c)
      BY <1>9 DEF ConsentInv
    <3> QED
      BY <1>4, <2>1, <3>1 DEF Shown
  <2>2. CASE d = c
    BY <1>3, <1>4, <1>7, <1>10, <2>2 DEF Presentable, Shown
  <2> QED
    BY <2>1, <2>2
<1>13. ASSUME NEW j \in Calls PROVE Asked(j)'
  <2>1. CASE j # c
    BY <1>4, <1>8, <2>1 DEF ConsentInv, Asked
  <2>2. CASE j = c
    BY <1>0, <1>1, <1>3, <1>4, <1>6, <1>7, <1>8, <2>2 DEF Asked
  <2> QED
    BY <2>1, <2>2
<1>14. ASSUME NEW d \in Calls PROVE Bound(d)'
  <2>1. CASE d # c
    <3>1. Bound(d) /\ (call[d].mode # "none" \/ call[d].pc \in KeySteps => call[d].key \in Calls)
      BY KeyedRecord DEF ConsentInv
    <3> QED
      BY <1>4, <1>9, <2>1, <3>1 DEF Bound, Binding, KeySteps
  <2>2. CASE d = c
    BY <1>0, <1>1, <1>3, <1>4, <1>10, <2>2 DEF Bound, Binding, KeySteps
  <2> QED
    BY <2>1, <2>2
<1>15. ASSUME NEW d \in Calls PROVE Agreed(d)'
  <2>1. \A j : OverLink(j)' <=> OverLink(j)
    BY <1>5 DEF OverLink
  <2>2. CASE d # c
    <3>1. Agreed(d) /\ (call[d].mode # "none" => call[d].key \in Calls)
      BY KeyedRecord DEF ConsentInv
    <3> QED
      BY <1>4, <1>9, <2>1, <2>2, <3>1 DEF Agreed, Strict
  <2>3. CASE d = c
    BY <1>0, <1>1, <1>3, <1>4, <1>10, <2>3 DEF Agreed, Strict
  <2> QED
    BY <2>2, <2>3
<1>16. \A j \in approved' : OverLink(j)'
  BY <1>5 DEF ConsentInv, OverLink
<1>17. \A h \in Clicks : ClickLive(h)' /\ ClickPast(h)'
  BY <1>5, <1>8 DEF ConsentInv, ClickLive, ClickPast
<1>18. \A j \in dead' : Issued(j)'
  BY <1>5, <1>8 DEF ConsentInv
<1> QED
  BY <1>11, <1>12, <1>13, <1>14, <1>15, <1>16, <1>17, <1>18 DEF ConsentInv

-----------------------------------------------------------------------------
(* The approve page *)

\* What every step of a POST under way does: z takes the place of click[h].
ClickMoved(h) ==
  LET w == click[h]
      z == click'[h]
  IN /\ \A g \in Clicks \ {h} : click'[g] = click[g]
     /\ z.key = w.key /\ z.at = w.at /\ z.spent = w.spent
     /\ z.took = w.took \/ (w.pc = "approve" /\ z.took)
     /\ w.pc \notin {"new", "done"} /\ z.pc \notin {"new", "isConsumed"}
     /\ w.pc = "isConsumed" /\ z.pc # "done" => w.key \notin consumed
     /\ approved' \subseteq approved \/ (approved' = approved \cup {w.key} /\ z.took)
     /\ UNCHANGED <<now, exp, dead, crashes, policy, call>>
     /\ \A k \in consumed : k \in consumed' \/ Expired(k)

LEMMA OneClick ==
  ASSUME TypeInv, NEW h \in Clicks, NEW z, click' = [click EXCEPT ![h] = z]
  PROVE  click'[h] = z /\ \A g \in Clicks \ {h} : click'[g] = click[g]
BY DEF TypeInv

LEMMA ClickFields ==
  ASSUME NEW w \in ClickRec, NEW pc, NEW res
  PROVE  /\ LET z == [w EXCEPT !.pc = pc]
            IN z.pc = pc /\ z.key = w.key /\ z.at = w.at /\ z.spent = w.spent /\ z.took = w.took
         /\ LET z == [w EXCEPT !.pc = pc, !.res = res]
            IN z.pc = pc /\ z.key = w.key /\ z.at = w.at /\ z.spent = w.spent /\ z.took = w.took
         /\ LET z == [w EXCEPT !.pc = pc, !.res = res, !.took = TRUE]
            IN z.pc = pc /\ z.key = w.key /\ z.at = w.at /\ z.spent = w.spent /\ z.took
         /\ LET z == [w EXCEPT !.pc = pc, !.res = res, !.logged = TRUE]
            IN z.pc = pc /\ z.key = w.key /\ z.at = w.at /\ z.spent = w.spent /\ z.took = w.took
BY DEF ClickRec

LEMMA ApproveMoved ==
  ASSUME TypeInv, NEW h \in Clicks, Approve(h)
  PROVE  ClickMoved(h)
<1>1. click[h] \in ClickRec /\ DOMAIN click = Clicks
  BY DEF TypeInv, KeyedClicks
<1> DEFINE World == /\ UNCHANGED <<now, exp, dead, crashes, policy, call>>
                    /\ \A k \in consumed : k \in consumed' \/ Expired(k)
           Others == \A g \in Clicks \ {h} : click'[g] = click[g]
           On(pc) == /\ click'[h].pc = pc /\ click'[h].took = click[h].took
                     /\ click'[h].key = click[h].key /\ click'[h].at = click[h].at
                     /\ click'[h].spent = click[h].spent /\ Others
           Took(pc) == /\ click'[h].pc = pc /\ click'[h].took
                       /\ click'[h].key = click[h].key /\ click'[h].at = click[h].at
                       /\ click'[h].spent = click[h].spent /\ Others
<1>2. \A res : ClickDone(h, res) => On("done")
  BY <1>1, OneClick, ClickFields DEF ClickDone
<1>3. ClickFailed(h) => On("done")
  BY <1>2 DEF ClickFailed
<1>4. \A pc : click' = [click EXCEPT ![h].pc = pc] => On(pc)
  BY <1>1, OneClick, ClickFields
<1>5. \A pc, res : click' = [click EXCEPT ![h] = [@ EXCEPT !.pc = pc, !.res = res, !.took = TRUE]]
                     => Took(pc)
  BY <1>1, OneClick, ClickFields
<1>6. click' = [click EXCEPT ![h] = [@ EXCEPT !.pc = "done", !.res = "approved", !.logged = TRUE]]
        => On("done")
  BY <1>1, OneClick, ClickFields
<1> HIDE DEF On, Took
<1>7. CASE ClickConsumed(h)
  <2>1. World /\ click[h].pc = "isConsumed" /\ approved' = approved
    BY <1>7 DEF ClickConsumed, keys
  <2>2. On("done") \/ (click[h].key \notin consumed /\ On("isApproved"))
    BY <1>2, <1>3, <1>4, <1>7 DEF ClickConsumed, Burned
  <2> QED
    BY <2>1, <2>2 DEF ClickMoved, On
<1>8. CASE ClickApproved(h)
  <2>1. World /\ click[h].pc = "isApproved" /\ approved' = approved
    BY <1>8 DEF ClickApproved, keys
  <2>2. On("done") \/ On("purge")
    BY <1>2, <1>3, <1>4, <1>8 DEF ClickApproved
  <2> QED
    BY <2>1, <2>2 DEF ClickMoved, On
<1>9. CASE ClickPurge(h)
  <2>1. World /\ click[h].pc = "purge" /\ approved' \subseteq approved
    BY <1>9 DEF ClickPurge, keys, PurgeKeys, Kept
  <2>2. On("done") \/ On("approve")
    BY <1>2, <1>4, <1>9 DEF ClickPurge
  <2> QED
    BY <2>1, <2>2 DEF ClickMoved, On
<1>10. CASE ClickApprove(h)
  <2>1. World /\ click[h].pc = "approve"
    BY <1>10 DEF ClickApprove
  <2>2. \/ approved' = approved \cup {click[h].key} /\ (Took("record") \/ Took("done"))
        \/ approved' = approved /\ On("done")
    BY <1>2, <1>5, <1>10 DEF ClickApprove
  <2> QED
    BY <2>1, <2>2 DEF ClickMoved, On, Took
<1>11. CASE ClickRecord(h)
  <2>1. World /\ click[h].pc = "record" /\ approved' = approved
    BY <1>11 DEF ClickRecord, keys
  <2>2. On("done")
    BY <1>2, <1>6, <1>11 DEF ClickRecord
  <2> QED
    BY <2>1, <2>2 DEF ClickMoved, On
<1> QED
  BY <1>7, <1>8, <1>9, <1>10, <1>11 DEF Approve

\* The requests keep their part while clicks do what they do.
LEMMA ClicksOnly ==
  ASSUME TypeInv, ConsentInv, UNCHANGED <<exp, dead, call>>,
         \A k : OverLink(k) => OverLink(k)'
  PROVE  /\ \A c \in Calls : Untaken(call[c])' /\ Held(call[c])'
         /\ \A c \in Calls : Shown(c)' /\ Asked(c)' /\ Bound(c)' /\ Agreed(c)'
         /\ \A k \in dead' : Issued(k)'
<1>1. \A k : Issued(k)' <=> Issued(k)
  BY DEF Issued
<1>2. \A c \in Calls : Untaken(call[c])' /\ Held(call[c])'
  BY DEF ConsentInv
<1>3. \A c \in Calls : Shown(c)' /\ Asked(c)' /\ Bound(c)'
  BY <1>1 DEF ConsentInv, Shown, Asked, Bound, Binding
<1>4. ASSUME NEW c \in Calls PROVE Agreed(c)'
  <2>1. Agreed(c)
    BY DEF ConsentInv
  <2>2. Strict(call[c].at, call[c].key)' <=> Strict(call[c].at, call[c].key)
    BY DEF Strict
  <2> QED
    BY <2>1, <2>2 DEF Agreed
<1> QED
  BY <1>1, <1>2, <1>3, <1>4 DEF ConsentInv

LEMMA ApproveConsent ==
  ASSUME TypeInv, OnceInv, ConsentInv, NEW h \in Clicks, ClickMoved(h)
  PROVE  ConsentInv'
<1> DEFINE w == click[h]
           z == click'[h]
<1>1. \A g \in Clicks \ {h} : click'[g] = click[g]
  BY DEF ClickMoved
<1>2. /\ z.key = w.key /\ z.at = w.at /\ z.spent = w.spent
      /\ z.took = w.took \/ (w.pc = "approve" /\ z.took)
      /\ w.pc \notin {"new", "done"} /\ z.pc \notin {"new", "isConsumed"}
      /\ w.pc = "isConsumed" /\ z.pc # "done" => w.key \notin consumed
      /\ approved' \subseteq approved \/ (approved' = approved \cup {w.key} /\ z.took)
  BY DEF ClickMoved
<1>3. /\ UNCHANGED <<now, exp, dead, call>>
      /\ \A k \in consumed : k \in consumed' \/ Expired(k)
  BY DEF ClickMoved
<1>4. click'[h] = z /\ click[h] = w /\ w \in KeyedClicks
  BY DEF TypeInv
<1> HIDE DEF w, z
<1>5. \A k : (Issued(k)' <=> Issued(k)) /\ (Expired(k)' <=> Expired(k))
  BY <1>3 DEF Issued, Expired
<1>6. \A k : OverLink(k) => OverLink(k)'
  BY <1>1, <1>2, <1>4 DEF OverLink
<1>7. \A k \in approved' : OverLink(k)'
  <2>1. \A k : k = w.key /\ z.took => OverLink(k)'
    BY <1>2, <1>4 DEF OverLink
  <2> QED
    BY <1>2, <1>6, <2>1 DEF ConsentInv
<1>8. w.key \in Calls /\ ClickLive(h) /\ ClickPast(h)
  BY <1>2, <1>4 DEF ConsentInv, KeyedClicks, KeyedClick
<1>9. ASSUME NEW g \in Clicks PROVE ClickLive(g)' /\ ClickPast(g)'
  <2>1. CASE g # h
    <3>1. ClickLive(g) /\ ClickPast(g)
      BY DEF ConsentInv
    <3> QED
      BY <1>1, <1>3, <1>5, <2>1, <3>1 DEF ClickLive, ClickPast
  <2>2. CASE g = h
    <3>1. Issued(w.key) /\ w.at \in Replicas
          /\ (w.spent => Expired(w.key) \/ (w.pc = "isConsumed" /\ w.key \in consumed))
      BY <1>2, <1>4, <1>8 DEF ClickLive
    <3>2. w.took /\ w.spent => Expired(w.key)
      BY <1>4, <1>8 DEF ClickPast
    <3>3. ClickLive(h)'
      BY <1>2, <1>4, <1>5, <3>1 DEF ClickLive
    <3>4. ClickPast(h)'
      BY <1>2, <1>4, <1>5, <1>8, <3>1, <3>2 DEF ClickPast
    <3> QED
      BY <2>2, <3>3, <3>4
  <2> QED
    BY <2>1, <2>2
<1> QED
  BY <1>3, <1>6, <1>7, <1>9, ClicksOnly DEF ConsentInv

LEMMA PressConsent ==
  ASSUME TypeInv, OnceInv, ConsentInv, NEW h \in Clicks, NEW r \in Replicas, NEW k \in Calls,
         Press(h, r, k)
  PROVE  ConsentInv'
<1> DEFINE ok == Verifies(r, k) /\ ~Expired(k)
           pc == IF ok THEN "isConsumed" ELSE "done"
           res == IF ok THEN "" ELSE "400"
           z == Pressed(pc, r, k, Burned(k), res)
<1>1. click' = [click EXCEPT ![h] = z]
  BY DEF Press, Pressed
<1>2. pc \in {"isConsumed", "done"} /\ Issued(k)
  BY DEF Press
<1> HIDE DEF pc, res
<1>3. z.pc = pc /\ z.at = r /\ z.key = k /\ z.spent = Burned(k) /\ z.took = FALSE
  BY DEF Pressed, NewClick
<1>4. click'[h] = z /\ \A g \in Clicks \ {h} : click'[g] = click[g]
  BY <1>1, OneClick
<1> HIDE DEF z
<1>5. UNCHANGED <<now, exp, dead, call, consumed, approved>> /\ click[h].pc = "new"
  BY DEF Press, keys
<1>6. \A j : (Issued(j)' <=> Issued(j)) /\ (Expired(j)' <=> Expired(j))
  BY <1>5 DEF Issued, Expired
<1>7. ~click[h].took
  BY <1>5 DEF ConsentInv, ClickPast
<1>8. \A j : OverLink(j) => OverLink(j)'
  BY <1>4, <1>7 DEF OverLink
<1>9. ASSUME NEW g \in Clicks PROVE ClickLive(g)' /\ ClickPast(g)'
  <2>1. CASE g # h
    <3>1. ClickLive(g) /\ ClickPast(g)
      BY DEF ConsentInv
    <3> QED
      BY <1>4, <1>5, <1>6, <2>1, <3>1 DEF ClickLive, ClickPast
  <2>2. CASE g = h
    BY <1>2, <1>3, <1>4, <1>5, <1>6, <2>2 DEF ClickLive, ClickPast, Burned
  <2> QED
    BY <2>1, <2>2
<1>10. \A j \in approved' : OverLink(j)'
  BY <1>5, <1>8 DEF ConsentInv
<1> QED
  BY <1>5, <1>8, <1>9, <1>10, ClicksOnly DEF ConsentInv

-----------------------------------------------------------------------------
(* A process dies *)

\* What a restart makes of a click.
LostClick(w) == [w EXCEPT !.pc = "done", !.res = "lost"]

LEMMA LostRest ==
  /\ \A x \in CallRec : Lost(x).charge = x.charge
  /\ \A w \in ClickRec :
       /\ LostClick(w).pc = "done" /\ LostClick(w).key = w.key /\ LostClick(w).at = w.at
       /\ LostClick(w).took = w.took /\ LostClick(w).spent = w.spent
BY DEF CallRec, Lost, ClickRec, LostClick

LEMMA RestartConsent ==
  ASSUME TypeInv, OnceInv, ConsentInv, NEW r \in Replicas, Restart(r)
  PROVE  ConsentInv'
<1>1. exp' = exp /\ now' = now
  BY DEF Restart
<1>2. \A j : (Issued(j)' <=> Issued(j)) /\ (Expired(j)' <=> Expired(j))
  BY <1>1 DEF Issued, Expired
<1>3. \A d \in Calls : call[d] \in CallRec
                       /\ call'[d] = IF call[d].at = r /\ call[d].pc # "done"
                                     THEN Lost(call[d]) ELSE call[d]
  BY DEF Restart, Lost, TypeInv, KeyedCall
<1>4. \A h \in Clicks : click[h] \in ClickRec
                        /\ click'[h] = IF click[h].at = r /\ click[h].pc # "done"
                                       THEN LostClick(click[h]) ELSE click[h]
  BY DEF Restart, LostClick, TypeInv, KeyedClicks
<1>5. ASSUME NEW d \in Calls
      PROVE  /\ Same(call[d], call'[d]) /\ call'[d].took = call[d].took
             /\ call'[d].mode = call[d].mode /\ call'[d].sup = call[d].sup
             /\ call'[d].sent = call[d].sent /\ call'[d].charge = call[d].charge
             /\ call'[d] = call[d] \/ (call'[d].pc = "done" /\ call'[d].rule = "lost")
             /\ call[d].pc = "done" => call'[d] = call[d]
  <2>1. CASE call'[d] = call[d]
    BY <2>1 DEF Same
  <2>2. CASE call'[d] # call[d]
    <3>1. call'[d] = Lost(call[d]) /\ call[d].pc # "done" /\ call[d] \in CallRec
      BY <1>3, <2>2
    <3>2. Lost(call[d]).charge = call[d].charge
      BY <3>1, LostRest
    <3> QED
      BY <3>1, <3>2, LostFields
  <2> QED
    BY <2>1, <2>2
<1>6. ASSUME NEW h \in Clicks
      PROVE  /\ click'[h].key = click[h].key /\ click'[h].took = click[h].took
             /\ click'[h].at = click[h].at /\ click'[h].spent = click[h].spent
             /\ click'[h] = click[h] \/ click'[h].pc = "done"
             /\ click'[h].pc # "done" => click[h].at # r
  <2>1. CASE click[h].at = r /\ click[h].pc # "done"
    <3>1. click'[h] = LostClick(click[h]) /\ click[h] \in ClickRec
      BY <1>4, <2>1
    <3> QED
      BY <3>1, LostRest
  <2>2. CASE ~(click[h].at = r /\ click[h].pc # "done")
    BY <1>4, <2>2
  <2> QED
    BY <2>1, <2>2
<1>7. \A k : OverLink(k)' <=> OverLink(k)
  BY <1>6 DEF OverLink
<1>8. \A d \in Calls : /\ DecisionOf(call'[d]) = DecisionOf(call[d])
                       /\ Charged(call'[d]) <=> Charged(call[d])
  BY <1>5, DecisionFields, ChargedFields DEF Same
<1>9. \A d \in Calls : Untaken(call[d])' /\ Held(call[d])'
  BY <1>5, <1>8 DEF ConsentInv, Untaken, Held, BeforeBurn
<1>10. \A d \in Calls : Shown(d)'
  BY <1>5 DEF ConsentInv, Shown, Same
<1>11. ASSUME NEW d \in Calls PROVE Asked(d)'
  <2>1. Asked(d)
    BY DEF ConsentInv
  <2> QED
    BY <1>2, <1>5, <1>8, <2>1 DEF Asked, Same
<1>12. ASSUME NEW d \in Calls PROVE Bound(d)'
  <2>1. Bound(d) /\ (call[d].mode # "none" \/ call[d].pc \in KeySteps => call[d].key \in Calls)
    BY KeyedRecord DEF ConsentInv
  <2>2. call'[d].mode # "none" \/ call'[d].pc \in KeySteps
          => call[d].mode # "none" \/ call[d].pc \in KeySteps
    BY <1>5 DEF KeySteps
  <2> QED
    BY <1>5, <2>1, <2>2 DEF Bound, Binding, KeySteps, Same
<1>13. ASSUME NEW d \in Calls PROVE Agreed(d)'
  <2>1. Agreed(d) /\ (call[d].mode # "none" => call[d].key \in Calls)
    BY KeyedRecord DEF ConsentInv
  <2> QED
    BY <1>5, <1>7, <2>1 DEF Agreed, Strict, Same
<1>14. \A k \in approved' : OverLink(k)'
  BY <1>7 DEF ConsentInv, Restart
<1>15. ASSUME NEW h \in Clicks PROVE ClickLive(h)' /\ ClickPast(h)'
  <2>1. ClickLive(h) /\ ClickPast(h)
    BY DEF ConsentInv
  <2>2. ClickPast(h)'
    BY <1>2, <1>6, <2>1 DEF ClickPast
  <2>3. ClickLive(h)'
    <3> SUFFICES ASSUME click'[h].pc \notin {"new", "done"} PROVE ClickLive(h)'
      BY DEF ClickLive
    <3>1. click'[h] = click[h] /\ click[h].at \in Replicas /\ click[h].at # r
      BY <1>6, <2>1 DEF ClickLive
    <3>2. consumed' = consumed
      BY <3>1, DeploymentAssumption DEF Restart
    <3> QED
      BY <1>2, <2>1, <3>1, <3>2 DEF ClickLive
  <2> QED
    BY <2>2, <2>3
<1>16. \A k \in dead' : Issued(k)'
  BY <1>2 DEF ConsentInv, Restart
<1> QED
  BY <1>9, <1>10, <1>11, <1>12, <1>13, <1>14, <1>15, <1>16 DEF ConsentInv

-----------------------------------------------------------------------------
(* The invariant and what follows *)

\* The clock and a reload: nobody's record moves.
LEMMA QuietConsent ==
  ASSUME TypeInv, ConsentInv, UNCHANGED <<exp, dead, consumed, approved, call, click>>,
         now' = now \/ now' = now + 1
  PROVE  ConsentInv'
<1>1. \A k \in Calls : (Issued(k)' <=> Issued(k)) /\ (Expired(k) => Expired(k)')
  <2>1. exp \in [Calls -> Expiries] /\ now \in 0..MaxTime
    BY DEF TypeInv
  <2> QED
    BY <2>1, BoundAssumption DEF Issued, Expired, Expiries
<1>2. \A k : OverLink(k)' <=> OverLink(k)
  BY DEF OverLink
<1>3. ASSUME NEW h \in Clicks PROVE ClickLive(h)' /\ ClickPast(h)'
  <2>1. ClickLive(h) /\ ClickPast(h) /\ click[h] \in KeyedClicks
    BY DEF ConsentInv, TypeInv
  <2>2. click[h].pc \notin {"new", "done"} => click[h].key \in Calls
    BY <2>1 DEF KeyedClicks, KeyedClick
  <2> QED
    BY <1>1, <2>1, <2>2 DEF ClickLive, ClickPast
<1> QED
  BY <1>2, <1>3, ClicksOnly DEF ConsentInv

LEMMA InitConsent == Init => ConsentInv
<1> SUFFICES ASSUME Init PROVE ConsentInv
  OBVIOUS
<1>1. \A c \in Calls : /\ call[c].pc = "new" /\ call[c].mode = "none" /\ call[c].key = None
                       /\ call[c].rule = "" /\ call[c].charge = "none"
                       /\ ~call[c].took /\ ~call[c].sent
  BY DEF Init, NewCall
<1>2. \A h \in Clicks : click[h].pc = "new" /\ ~click[h].took
  BY DEF Init, NewClick
<1>3. \A c \in Calls : ~Issued(c)
  BY DEF Init, Issued
<1>4. \A c \in Calls : Untaken(call[c]) /\ Held(call[c])
  BY <1>1 DEF Untaken, Held
<1>5. \A c \in Calls : Shown(c) /\ Asked(c) /\ Bound(c) /\ Agreed(c)
  BY <1>1, <1>3, NoneAssumption DEF Shown, Asked, Bound, Agreed
<1>6. \A h \in Clicks : ClickLive(h) /\ ClickPast(h)
  BY <1>2 DEF ClickLive, ClickPast
<1>7. approved = {} /\ dead = {}
  BY DEF Init
<1> QED
  BY <1>4, <1>5, <1>6, <1>7 DEF ConsentInv

LEMMA NextConsent == TypeInv /\ OnceInv /\ ConsentInv /\ [Next]_vars => ConsentInv'
<1> SUFFICES ASSUME TypeInv, OnceInv, ConsentInv, [Next]_vars PROVE ConsentInv'
  OBVIOUS
<1>1. ASSUME NEW c \in Calls, NEW r \in Replicas, NEW q \in Requests, NEW dry \in BOOLEAN,
             NEW k \in Calls \cup {None}, NEW a \in Answers, Receive(c, r, q, dry, k, a)
      PROVE  ConsentInv'
  BY <1>1, ReceiveConsent
<1>2. ASSUME NEW c \in Calls, Handle(c) PROVE ConsentInv'
  BY <1>2, HandleMoved, MovedConsent
<1>3. ASSUME NEW h \in Clicks, NEW r \in Replicas, NEW k \in Calls, Press(h, r, k)
      PROVE  ConsentInv'
  BY <1>3, PressConsent
<1>4. ASSUME NEW h \in Clicks, Approve(h) PROVE ConsentInv'
  BY <1>4, ApproveMoved, ApproveConsent
<1>5. CASE Tick
  BY <1>5, QuietConsent DEF Tick, keys
<1>6. ASSUME NEW r \in Replicas, Reload(r) PROVE ConsentInv'
  BY <1>6, QuietConsent DEF Reload, keys
<1>7. ASSUME NEW r \in Replicas, Restart(r) PROVE ConsentInv'
  BY <1>7, RestartConsent
<1>8. CASE UNCHANGED vars
  BY <1>8, QuietConsent DEF vars
<1> QED
  BY <1>1, <1>2, <1>3, <1>4, <1>5, <1>6, <1>7, <1>8 DEF Next

\* The inductive invariant holds: what every request was told, has agreed to
\* and has charged fits what the approve page and the store were given.
THEOREM ConsentInvariant == Spec => []ConsentInv
<1>1. Spec => Init /\ [][Next]_vars
  BY DEF Spec
<1> QED
  BY <1>1, InitConsent, NextConsent, KeyedTypes, OnceInvariant, PTL

\* Nothing runs behind the gate unless its mode is accepted.
LEMMA ConfirmedAgreed ==
  ASSUME TypeInv, OnceInv, ConsentInv, NEW c \in Calls, Confirmed(c)
  PROVE  call[c].key \in Calls /\ call[c].mode = "accepted" /\ Bound(c) /\ Agreed(c)
BY ConfirmedBurned, KeyedRecord DEF ConsentInv

\* In oob mode, of the token or of the replica, a human pressed the button.
THEOREM ApprovalNeeded == Spec => []StrictNeedsApproval
<1>1. TypeInv /\ OnceInv /\ ConsentInv => StrictNeedsApproval
  <2> SUFFICES ASSUME TypeInv, OnceInv, ConsentInv, NEW c \in Calls, Confirmed(c),
                      "oob" \in {Mode[call[c].at], Mode[call[call[c].key].at]}
               PROVE  OverLink(call[c].key)
    BY DEF StrictNeedsApproval, OverLink
  <2>1. call[c].key \in Calls /\ call[c].mode = "accepted" /\ Agreed(c)
    BY ConfirmedAgreed
  <2>2. Strict(call[c].at, call[c].key)
    BY DEF Strict
  <2> QED
    BY <2>1, <2>2 DEF Agreed
<1> QED
  BY <1>1, KeyedTypes, OnceInvariant, ConsentInvariant, PTL

\* What runs was shown as it runs, and somebody said yes to it.
THEOREM ConsentCovers == Spec => []ConsentCoversExecution
<1>1. TypeInv /\ OnceInv /\ ConsentInv => ConsentCoversExecution
  <2> SUFFICES ASSUME TypeInv, OnceInv, ConsentInv, NEW c \in Calls, Confirmed(c)
               PROVE  /\ call[c].key \in Calls \ {c}
                      /\ LET p == call[call[c].key]
                         IN /\ Issued(call[c].key)
                            /\ p.req = call[c].req /\ Env[p.at] = Env[call[c].at]
                            /\ p.tier = "L2" /\ DecisionOf(p).verdict = "confirm"
                      /\ call[c].ans = "accept" \/ OverLink(call[c].key)
    BY DEF ConsentCoversExecution, OverLink
  <2>1. call[c].key \in Calls /\ call[c].mode = "accepted" /\ Bound(c) /\ Agreed(c)
    BY ConfirmedAgreed
  <2>2. Shown(c) /\ Asked(call[c].key)
    BY <2>1 DEF ConsentInv
  <2>3. call[c].key # c /\ Issued(call[c].key)
    BY <2>1, <2>2 DEF Shown, Asked
  <2> QED
    BY <2>1, <2>2, <2>3 DEF Bound, Binding, Agreed, Asked
<1> QED
  BY <1>1, KeyedTypes, OnceInvariant, ConsentInvariant, PTL

\* What counts is charged before it is sent, and the charge stays.
THEOREM ChargeCovers == Spec => []ChargeCoversExecution
<1>1. TypeInv /\ ConsentInv => ChargeCoversExecution
  <2> SUFFICES ASSUME TypeInv, ConsentInv, NEW c \in Calls
               PROVE  /\ Ran(c) /\ call[c].tier # "L0" => call[c].charge = "held"
                      /\ call[c].charge = "returned" => ~call[c].sent
    BY DEF ChargeCoversExecution
  <2>1. Held(call[c])
    BY DEF ConsentInv
  <2>2. Ran(c) /\ call[c].tier # "L0" => Charged(call[c]) /\ call[c].sent
    BY DEF Ran, Charged, Counts, CountsFor
  <2> QED
    BY <2>1, <2>2 DEF Held
<1> QED
  BY <1>1, KeyedTypes, ConsentInvariant, PTL

\* A POST that came after the burn approves nothing that is live.
THEOREM SpentStays == Spec => []SpentIsNotApproved
<1>1. ConsentInv => SpentIsNotApproved
  BY DEF ConsentInv, ClickPast, SpentIsNotApproved
<1> QED
  BY <1>1, ConsentInvariant, PTL

-----------------------------------------------------------------------------
(* The gate implements the one-shot confirmation *)

\* What the stage of a confirmation is read from.
Over(k) == Expired(k) \/ k \in dead
Runs(k) == \E c \in Calls : call[c].key = k /\ Confirmed(c)
Claims(k) == \E c \in Calls : call[c].key = k /\ call[c].took /\ call[c].mode = "accepted"
Takes(k) == \E c \in Calls : call[c].key = k /\ call[c].took
Accepts(k) ==
  \E c \in Calls : call[c].key = k /\ call[c].ans = "accept" /\ call[c].mode = "accepted"

Stands(k) ==
  LET s == StatusOf(k)
      live == Issued(k) /\ ~Over(k)
  IN /\ ~Issued(k) => s = "none"
     /\ Issued(k) => s # "none"
     /\ Issued(k) /\ Over(k) => s = "over"
     /\ live /\ Runs(k) => s = "executed"
     /\ live /\ ~Runs(k) /\ Claims(k) => s = "claimed"
     /\ live /\ ~Runs(k) /\ ~Claims(k) /\ Takes(k) => s = "declined"
     /\ live /\ ~Runs(k) /\ ~Claims(k) /\ ~Takes(k) => s = "open"

LEMMA Standing == \A k \in Calls : Stands(k) /\ Stands(k)'
BY DEF Stands, StatusOf, Over, Runs, Claims, Takes

LEMMA Granting ==
  /\ GrantedKeys = {k \in Calls : OverLink(k) \/ Accepts(k)}
  /\ GrantedKeys' = {k \in Calls : OverLink(k)' \/ Accepts(k)'}
BY DEF GrantedKeys, OverLink, Accepts

\* A step that changes none of it for k leaves the stage of k.
Still(k) ==
  /\ Issued(k)' <=> Issued(k)
  /\ Issued(k) => (Over(k)' <=> Over(k))
  /\ Runs(k)' <=> Runs(k)
  /\ Claims(k)' <=> Claims(k)
  /\ Takes(k)' <=> Takes(k)

LEMMA StillStands ==
  ASSUME NEW k \in Calls, Still(k)
  PROVE  StatusOf(k)' = StatusOf(k)
BY Standing DEF Stands, Still

\* ... and so does one after its end.
LEMMA OverStands ==
  ASSUME NEW k \in Calls, Issued(k), Over(k), Issued(k)', Over(k)'
  PROVE  StatusOf(k)' = StatusOf(k)
BY Standing DEF Stands

SameYes == \A k \in Calls : (OverLink(k)' <=> OverLink(k)) /\ (Accepts(k)' <=> Accepts(k))

LEMMA SameGranted ==
  ASSUME SameYes
  PROVE  GrantedKeys' = GrantedKeys
BY Granting DEF SameYes

\* How the steps of the gate map: nothing, one confirmation moves on, or one
\* is agreed to.
LEMMA NoMove ==
  ASSUME \A k \in Calls : StatusOf(k)' = StatusOf(k), GrantedKeys' = GrantedKeys
  PROVE  UNCHANGED Abstract!vars
<1>1. [k \in Calls |-> StatusOf(k)]' = [k \in Calls |-> StatusOf(k)]
  OBVIOUS
<1> QED
  BY <1>1 DEF Abstract!vars

LEMMA OneMove ==
  ASSUME NEW k \in Calls, \A j \in Calls \ {k} : StatusOf(j)' = StatusOf(j),
         GrantedKeys' = GrantedKeys
  PROVE  Abstract!Move(k, StatusOf(k), StatusOf(k)')
<1>1. [j \in Calls |-> StatusOf(j)]' =
      [[j \in Calls |-> StatusOf(j)] EXCEPT ![k] = StatusOf(k)']
  OBVIOUS
<1> QED
  BY <1>1 DEF Abstract!Move

LEMMA OneYes ==
  ASSUME NEW k \in Calls, \A j \in Calls : StatusOf(j)' = StatusOf(j), Issued(k),
         GrantedKeys' = GrantedKeys \cup {k}
  PROVE  Abstract!Next
<1>1. [j \in Calls |-> StatusOf(j)]' = [j \in Calls |-> StatusOf(j)]
  OBVIOUS
<1>2. StatusOf(k) # "none"
  BY Standing DEF Stands
<1>3. Abstract!Grant(k)
  BY <1>1, <1>2 DEF Abstract!Grant
<1> QED
  BY <1>3 DEF Abstract!Next

\* A step of one request leaves what the others stand for.
LEMMA OthersStay ==
  ASSUME NEW c \in Calls, \A d \in Calls \ {c} : call'[d] = call[d], call'[c].key = call[c].key,
         Confirmed(c)' <=> Confirmed(c), call'[c].took = call[c].took,
         call[c].took => call'[c].mode = call[c].mode, NEW k
  PROVE  (Runs(k)' <=> Runs(k)) /\ (Claims(k)' <=> Claims(k)) /\ (Takes(k)' <=> Takes(k))
<1>1. \A d \in Calls : /\ call'[d].key = call[d].key /\ call'[d].took = call[d].took
                       /\ call[d].took => call'[d].mode = call[d].mode
                       /\ Confirmed(d)' <=> Confirmed(d)
  BY DEF Confirmed, Ran
<1> QED
  BY <1>1 DEF Runs, Claims, Takes

\* Another confirmation than the one request c carries.
LEMMA OtherKeys ==
  ASSUME NEW c \in Calls, \A d \in Calls \ {c} : call'[d] = call[d], call'[c].key = call[c].key,
         NEW k, k # call[c].key
  PROVE  (Runs(k)' <=> Runs(k)) /\ (Claims(k)' <=> Claims(k)) /\ (Takes(k)' <=> Takes(k))
<1>1. \A d \in Calls : /\ call'[d].key = call[d].key
                       /\ d # c => call'[d] = call[d] /\ (Confirmed(d)' <=> Confirmed(d))
  BY DEF Confirmed, Ran
<1> QED
  BY <1>1 DEF Runs, Claims, Takes

\* A look at the approval adds no yes that is not there.
LEMMA MovedYes ==
  ASSUME TypeInv, OnceInv, ConsentInv, NEW c \in Calls, Moved(c)
  PROVE  GrantedKeys' = GrantedKeys
<1>1. click' = click /\ \A d \in Calls \ {c} : call'[d] = call[d]
  BY DEF Moved
<1>2. call'[c].key = call[c].key /\ call'[c].ans = call[c].ans
  BY DEF Moved, Same
<1>3. \A k : OverLink(k)' <=> OverLink(k)
  BY <1>1 DEF OverLink
<1>4. CASE call'[c].mode = call[c].mode
  <2>1. \A d \in Calls : call'[d].key = call[d].key /\ call'[d].ans = call[d].ans
                         /\ call'[d].mode = call[d].mode
    BY <1>1, <1>2, <1>4
  <2>2. \A k : Accepts(k)' <=> Accepts(k)
    BY <2>1 DEF Accepts
  <2> QED
    BY <1>3, <2>2, SameGranted DEF SameYes
<1>5. CASE call'[c].mode # call[c].mode
  <2>1. call[c].pc = "isApproved" /\ call'[c].mode = ApprovalMode(c) /\ call[c].mode = "none"
    BY <1>5 DEF Moved, ConsentInv, Untaken
  <2>2. call'[c].mode = "accepted" => OverLink(call[c].key)
    BY <2>1 DEF ApprovalMode, ConsentInv
  <2>3. ASSUME NEW k PROVE OverLink(k)' \/ Accepts(k)' <=> OverLink(k) \/ Accepts(k)
    <3>1. Accepts(k) => Accepts(k)'
      BY <1>1, <2>1 DEF Accepts
    <3>2. Accepts(k)' => Accepts(k) \/ OverLink(k)
      BY <1>1, <1>2, <2>2 DEF Accepts
    <3> QED
      BY <1>3, <3>1, <3>2
  <2> QED
    BY <2>3, Granting
<1> QED
  BY <1>4, <1>5

\* Who took a key that has not expired is alone with it.
LEMMA TakenOnce ==
  ASSUME TypeInv, OnceInv, NEW c \in Calls, call[c].took, ~Expired(call[c].key), ~Confirmed(c)
  PROVE  ~Runs(call[c].key)
<1>1. ASSUME NEW d \in Calls, call[d].key = call[c].key, Confirmed(d) PROVE FALSE
  BY <1>1, ConfirmedBurned DEF OnceInv, BurnedOnce
<1> QED
  BY <1>1 DEF Runs

\* A key that the insert wins was nobody's.
LEMMA WonFresh ==
  ASSUME TypeInv, OnceInv, NEW k, Wins(k), ~Over(k)
  PROVE  ~Takes(k) /\ ~Claims(k) /\ ~Runs(k)
<1>1. ~Takes(k)
  BY DEF OnceInv, BurnKept, Wins, Burned, Over, Takes
<1> QED
  BY <1>1, ConfirmedBurned DEF Takes, Claims, Runs

\* A step that neither burns nor sends moves no confirmation on.
LEMMA QuietMove ==
  ASSUME TypeInv, OnceInv, ConsentInv, NEW c \in Calls, Moved(c),
         call'[c].took = call[c].took, call'[c].sent = call[c].sent, NEW k
  PROVE  (Runs(k)' <=> Runs(k)) /\ (Claims(k)' <=> Claims(k)) /\ (Takes(k)' <=> Takes(k))
<1>1. Untaken(call[c])
  BY DEF ConsentInv
<1>2. /\ \A d \in Calls \ {c} : call'[d] = call[d]
      /\ call'[c].key = call[c].key /\ call'[c].tier = call[c].tier
      /\ DecisionOf(call'[c]) = DecisionOf(call[c]) \/ call[c].pc \in {"isApproved", "catalog"}
      /\ call'[c].mode = call[c].mode \/ call[c].pc = "isApproved"
  BY DEF Moved, Same
<1>3. call[c].took => call'[c].mode = call[c].mode
  BY <1>1, <1>2 DEF Untaken, BeforeBurn
<1>4. Confirmed(c)' <=> Confirmed(c)
  <2>1. CASE call[c].sent
    <3>1. DecisionOf(call'[c]) = DecisionOf(call[c])
      BY <1>1, <1>2, <2>1 DEF Untaken, BeforeBurn
    <3> QED
      BY <1>2, <3>1 DEF Confirmed, Ran
  <2>2. CASE ~call[c].sent
    BY <2>2 DEF Confirmed, Ran
  <2> QED
    BY <2>1, <2>2
<1> QED
  BY <1>2, <1>3, <1>4, OthersStay

\* A step that leaves the tokens and the clock alone.
LEMMA SameTokens ==
  ASSUME exp' = exp, now' = now, dead' = dead
  PROVE  \A k : (Issued(k)' <=> Issued(k)) /\ (Over(k)' <=> Over(k))
BY DEF Issued, Over, Expired

\* The insert that wins claims the confirmation or declines it.
LEMMA BurnMaps ==
  ASSUME TypeInv, OnceInv, ConsentInv, NEW c \in Calls, Moved(c), exp' = exp,
         call[c].pc = "insert", call'[c].took # call[c].took
  PROVE  Abstract!Next \/ UNCHANGED Abstract!vars
<1>0. PICK k : k = call[c].key
  OBVIOUS
<1>1. k \in Calls /\ Issued(k) /\ k \notin dead
  BY <1>0, KeyedRecord DEF OnceInv, CarriesLive, InFlight, KeySteps
<1>2. /\ \A d \in Calls \ {c} : call'[d] = call[d]
      /\ call'[c].key = k /\ call'[c].mode = call[c].mode
      /\ call'[c].took = Wins(k) /\ call'[c].sent = call[c].sent
      /\ now' = now /\ dead' = dead
  BY <1>0 DEF Moved, Same
<1>3. ~call[c].took /\ ~call[c].sent
  BY DEF ConsentInv, Untaken, BeforeBurn
<1>4. Wins(k) /\ call'[c].took
  BY <1>2, <1>3 DEF Wins, Burned, Moved, TypeInv, KeyedCall, CallRec
<1>5. \A j : (Issued(j)' <=> Issued(j)) /\ (Over(j)' <=> Over(j))
  BY <1>2, SameTokens
<1>6. GrantedKeys' = GrantedKeys
  BY MovedYes
<1>7. \A j \in Calls \ {k} : StatusOf(j)' = StatusOf(j)
  BY <1>0, <1>2, <1>5, OtherKeys, StillStands DEF Still
<1>8. CASE Over(k)
  BY <1>1, <1>5, <1>6, <1>7, <1>8, OverStands, NoMove
<1>9. CASE ~Over(k)
  <2>1. ~Takes(k) /\ ~Claims(k) /\ ~Runs(k)
    BY <1>4, <1>9, WonFresh
  <2>2. StatusOf(k) = "open"
    BY <1>1, <1>9, <2>1, Standing DEF Stands
  <2>3. Takes(k)' /\ ~Runs(k)'
    <3>1. Takes(k)'
      BY <1>2, <1>4 DEF Takes
    <3>2. \A d \in Calls : call'[d].key = k => ~Confirmed(d)'
      BY <1>0, <1>2, <1>3, <2>1 DEF Runs, Confirmed, Ran
    <3> QED
      BY <3>1, <3>2 DEF Runs
  <2>4. Issued(k)' /\ ~Over(k)'
    BY <1>1, <1>5, <1>9
  <2>5. CASE call[c].mode = "accepted"
    <3>1. Claims(k)'
      BY <1>2, <1>4, <2>5 DEF Claims
    <3>2. StatusOf(k)' = "claimed"
      BY <1>1, <2>3, <2>4, <3>1, Standing DEF Stands
    <3>3. OverLink(k) \/ Accepts(k)
      BY <1>0, <2>5 DEF ConsentInv, Agreed, Accepts
    <3>4. k \in GrantedKeys
      BY <1>1, <3>3, Granting
    <3>5. Abstract!Move(k, "open", "claimed")
      BY <1>1, <1>6, <1>7, <2>2, <3>2, OneMove
    <3> QED
      BY <1>1, <3>4, <3>5 DEF Abstract!Next, Abstract!Claim
  <2>6. CASE call[c].mode # "accepted"
    <3>1. ~Claims(k)'
      BY <1>0, <1>2, <2>1, <2>6 DEF Claims
    <3>2. StatusOf(k)' = "declined"
      BY <1>1, <2>3, <2>4, <3>1, Standing DEF Stands
    <3>3. Abstract!Move(k, "open", "declined")
      BY <1>1, <1>6, <1>7, <2>2, <3>2, OneMove
    <3> QED
      BY <1>1, <3>3 DEF Abstract!Next, Abstract!Decline
  <2> QED
    BY <2>5, <2>6
<1> QED
  BY <1>8, <1>9

\* What is sent behind the gate executes the confirmation.
LEMMA SendMaps ==
  ASSUME TypeInv, OnceInv, ConsentInv, NEW c \in Calls, Moved(c), exp' = exp,
         call[c].pc = "forward", call'[c].sent # call[c].sent
  PROVE  Abstract!Next \/ UNCHANGED Abstract!vars
<1>0. PICK k : k = call[c].key
  OBVIOUS
<1>1. /\ \A d \in Calls \ {c} : call'[d] = call[d]
      /\ call'[c].key = k /\ call'[c].mode = call[c].mode /\ call'[c].took = call[c].took
      /\ call'[c].tier = call[c].tier /\ DecisionOf(call'[c]) = DecisionOf(call[c])
      /\ now' = now /\ dead' = dead
  BY <1>0 DEF Moved, Same
<1>2. ~call[c].sent /\ ~Confirmed(c)
  BY DEF ConsentInv, Untaken, Confirmed, Ran
<1>3. \A j : (Issued(j)' <=> Issued(j)) /\ (Over(j)' <=> Over(j))
  BY <1>1, SameTokens
<1>4. GrantedKeys' = GrantedKeys
  BY MovedYes
<1>5. \A j \in Calls \ {k} : StatusOf(j)' = StatusOf(j)
  BY <1>0, <1>1, <1>3, OtherKeys, StillStands DEF Still
<1>6. \A j : (Claims(j)' <=> Claims(j)) /\ (Takes(j)' <=> Takes(j))
  <2>1. \A d \in Calls : call'[d].key = call[d].key /\ call'[d].took = call[d].took
                         /\ call'[d].mode = call[d].mode
    BY <1>0, <1>1
  <2> QED
    BY <2>1 DEF Claims, Takes
<1>7. CASE ~Confirmed(c)'
  <2>1. \A d \in Calls : call'[d].key = call[d].key /\ (Confirmed(d)' <=> Confirmed(d))
    BY <1>0, <1>1, <1>2, <1>7 DEF Confirmed, Ran
  <2>2. Runs(k)' <=> Runs(k)
    BY <2>1 DEF Runs
  <2>3. \A j \in Calls : StatusOf(j)' = StatusOf(j)
    BY <1>3, <1>5, <1>6, <2>2, StillStands DEF Still
  <2> QED
    BY <1>4, <2>3, NoMove
<1>8. CASE Confirmed(c)'
  <2>1. call[c] \in CallRec /\ Redeems(call[c])
    <3>1. call[c] \in CallRec
      BY DEF TypeInv, KeyedCall
    <3>2. call[c].tier = "L2" /\ DecisionOf(call[c]).verdict = "allow"
          /\ DecisionOf(call[c]).dry # "dry"
      BY <1>1, <1>8 DEF Confirmed, Ran
    <3> QED
      BY <3>1, <3>2 DEF Redeems, DecisionOf, Decide, Decision, Unsupported, CallRec
  <2>2. call[c].took /\ call[c].mode = "accepted"
    BY <2>1, DecisionType DEF OnceInv, RecordInv, BurnsFirst, AfterBurn, Redeems
  <2>3. k \in Calls /\ Issued(k) /\ k \notin dead
    BY <1>0, <2>2, KeyedRecord DEF OnceInv, CarriesLive, InFlight
  <2>4. CASE Over(k)
    BY <1>3, <1>4, <1>5, <2>3, <2>4, OverStands, NoMove
  <2>5. CASE ~Over(k)
    <3>1. ~Runs(k)
      BY <1>0, <1>2, <2>2, <2>5, TakenOnce DEF Over
    <3>2. Claims(k)
      BY <1>0, <2>2 DEF Claims
    <3>3. Runs(k)'
      BY <1>1, <1>8 DEF Runs
    <3>4. StatusOf(k) = "claimed"
      BY <2>3, <2>5, <3>1, <3>2, Standing DEF Stands
    <3>5. StatusOf(k)' = "executed"
      BY <1>3, <2>3, <2>5, <3>3, Standing DEF Stands
    <3>6. Abstract!Move(k, "claimed", "executed")
      BY <1>4, <1>5, <2>3, <3>4, <3>5, OneMove
    <3> QED
      BY <2>3, <3>6 DEF Abstract!Next, Abstract!Execute
  <2> QED
    BY <2>4, <2>5
<1> QED
  BY <1>7, <1>8

\* A prompt offers its confirmation.
LEMMA PromptMaps ==
  ASSUME TypeInv, OnceInv, ConsentInv, NEW c \in Calls, Moved(c), Reissues(c),
         call[c].pc \in {"evaluate", "reply"}
  PROVE  Abstract!Next
<1>1. now' = now /\ dead' = dead /\ now \in Nat /\ exp \in [Calls -> Expiries]
  BY BoundAssumption DEF Moved, TypeInv
<1>2. \A j \in Calls \ {c} : (Issued(j)' <=> Issued(j)) /\ (Over(j)' <=> Over(j))
  BY <1>1 DEF Reissues, Issued, Over, Expired
<1>3. ~Issued(c) /\ Issued(c)' /\ ~Over(c)'
  <2>1. exp'[c] = now + TTL /\ c \notin dead /\ ~Issued(c)
    BY <1>1 DEF Reissues, ConsentInv
  <2> QED
    BY <1>1, <2>1, BoundAssumption DEF Issued, Over, Expired
<1>4. \A d \in Calls : call[d].key # c
  BY DEF ConsentInv, Shown
<1>5. call'[c].took = call[c].took /\ call'[c].sent = call[c].sent
  BY DEF Moved
<1>6. \A j : (Runs(j)' <=> Runs(j)) /\ (Claims(j)' <=> Claims(j)) /\ (Takes(j)' <=> Takes(j))
  BY <1>5, QuietMove
<1>7. ~Runs(c) /\ ~Claims(c) /\ ~Takes(c)
  BY <1>4 DEF Runs, Claims, Takes
<1>8. StatusOf(c) = "none" /\ StatusOf(c)' = "open"
  BY <1>3, <1>6, <1>7, Standing DEF Stands
<1>9. \A j \in Calls \ {c} : StatusOf(j)' = StatusOf(j)
  BY <1>2, <1>6, StillStands DEF Still
<1>10. Abstract!Move(c, "none", "open")
  BY <1>8, <1>9, MovedYes, OneMove
<1> QED
  BY <1>10 DEF Abstract!Next, Abstract!Offer

LEMMA HandleMaps ==
  ASSUME TypeInv, OnceInv, ConsentInv, NEW c \in Calls, Moved(c)
  PROVE  Abstract!Next \/ UNCHANGED Abstract!vars
<1>1. CASE exp' # exp
  BY <1>1, PromptMaps DEF Moved
<1>2. CASE exp' = exp /\ call'[c].took # call[c].took
  BY <1>2, BurnMaps DEF Moved
<1>3. CASE exp' = exp /\ call'[c].sent # call[c].sent
  BY <1>3, SendMaps DEF Moved
<1>4. CASE exp' = exp /\ call'[c].took = call[c].took /\ call'[c].sent = call[c].sent
  <2>1. \A k : (Runs(k)' <=> Runs(k)) /\ (Claims(k)' <=> Claims(k)) /\ (Takes(k)' <=> Takes(k))
    BY <1>4, QuietMove
  <2>2. \A k : (Issued(k)' <=> Issued(k)) /\ (Over(k)' <=> Over(k))
    BY <1>4, SameTokens DEF Moved
  <2> QED
    BY <2>1, <2>2, StillStands, MovedYes, NoMove DEF Still
<1> QED
  BY <1>1, <1>2, <1>3, <1>4

\* A request comes in: an accept where the client may approve is a yes.
LEMMA ReceiveMaps ==
  ASSUME TypeInv, OnceInv, ConsentInv, NEW c \in Calls, NEW r \in Replicas, NEW q \in Requests,
         NEW dry \in BOOLEAN, NEW k \in Calls \cup {None}, NEW a \in Answers,
         Receive(c, r, q, dry, k, a)
  PROVE  Abstract!Next \/ UNCHANGED Abstract!vars
<1> DEFINE e == Entry(r, q, dry, k, a)
           x == call'[c]
<1>1. PICK s \in IF e.pc = "done" THEN Said(e.rule) ELSE {""} :
        call' = [call EXCEPT ![c] =
                   Received(e.pc, r, q, dry, k, a, policy[r][q], e.mode, Burned(k), s)]
  BY DEF Receive, Received
<1> HIDE DEF e
<1>2. x = Received(e.pc, r, q, dry, k, a, policy[r][q], e.mode, Burned(k), s)
      /\ \A d \in Calls \ {c} : call'[d] = call[d]
  BY <1>1, OneRecord
<1>3. x.key = k /\ x.mode = e.mode /\ x.ans = a /\ ~x.took /\ ~x.sent
  BY <1>2, ZenonT(60) DEF Received, NewCall
<1>4. /\ ~call[c].took /\ ~call[c].sent /\ call[c].mode # "accepted"
      /\ call[c].pc = "new" /\ exp' = exp /\ now' = now /\ dead' = dead /\ click' = click
  <2>1. call[c].pc = "new" /\ Untaken(call[c])
    BY DEF Receive, ConsentInv
  <2> QED
    BY <2>1 DEF Receive, world, Untaken, BeforeBurn
<1>5. \A j : (Issued(j)' <=> Issued(j)) /\ (Over(j)' <=> Over(j))
  BY <1>4, SameTokens
<1>6. \A j : (Runs(j)' <=> Runs(j)) /\ (Claims(j)' <=> Claims(j)) /\ (Takes(j)' <=> Takes(j))
  <2>1. ~Confirmed(c) /\ ~Confirmed(c)'
    BY <1>3, <1>4 DEF Confirmed, Ran
  <2>2. \A d \in Calls : /\ call'[d].took <=> call[d].took
                         /\ Confirmed(d)' <=> Confirmed(d)
                         /\ call[d].took \/ Confirmed(d) => call'[d] = call[d]
    BY <1>2, <1>3, <1>4, <2>1 DEF Confirmed, Ran
  <2> QED
    BY <2>2 DEF Runs, Claims, Takes
<1>7. \A j \in Calls : StatusOf(j)' = StatusOf(j)
  BY <1>5, <1>6, StillStands DEF Still
<1>8. \A j : OverLink(j)' <=> OverLink(j)
  BY <1>4 DEF OverLink
<1>9. \A j : Accepts(j)' <=> Accepts(j) \/ (j = k /\ a = "accept" /\ e.mode = "accepted")
  BY <1>2, <1>3, <1>4 DEF Accepts
<1>10. CASE k \in Calls /\ a = "accept" /\ e.mode = "accepted"
  <2>1. Issued(k)
    BY <1>10, NoneAssumption DEF Receive, Presentable, ConsentInv, Asked
  <2>2. GrantedKeys' = GrantedKeys \cup {k}
    BY <1>8, <1>9, <1>10, Granting
  <2> QED
    BY <1>7, <1>10, <2>1, <2>2, OneYes
<1>11. CASE ~(k \in Calls /\ a = "accept" /\ e.mode = "accepted")
  <2>1. GrantedKeys' = GrantedKeys
    BY <1>8, <1>9, <1>11, Granting
  <2> QED
    BY <1>7, <2>1, NoMove
<1> QED
  BY <1>10, <1>11

\* Nothing about a request or a token changes.
LEMMA SameRequests ==
  ASSUME call' = call, exp' = exp, now' = now, dead' = dead
  PROVE  /\ \A j \in Calls : StatusOf(j)' = StatusOf(j)
         /\ \A j : Accepts(j)' <=> Accepts(j)
<1>1. \A j : (Issued(j)' <=> Issued(j)) /\ (Over(j)' <=> Over(j))
  BY SameTokens
<1>2. \A j : (Runs(j)' <=> Runs(j)) /\ (Claims(j)' <=> Claims(j)) /\ (Takes(j)' <=> Takes(j))
  BY DEF Runs, Claims, Takes, Confirmed, Ran
<1>3. \A j : Accepts(j)' <=> Accepts(j)
  BY DEF Accepts
<1> QED
  BY <1>1, <1>2, <1>3, StillStands DEF Still

\* The approve page: its write is a yes, whatever else it does is nothing.
LEMMA ClickMaps ==
  ASSUME TypeInv, OnceInv, ConsentInv, NEW h \in Clicks, ClickMoved(h)
  PROVE  Abstract!Next \/ UNCHANGED Abstract!vars
<1>0. PICK k : k = click[h].key
  OBVIOUS
<1>1. /\ \A g \in Clicks \ {h} : click'[g] = click[g]
      /\ click'[h].key = k /\ click[h].pc \notin {"new", "done"}
      /\ call' = call /\ exp' = exp /\ now' = now /\ dead' = dead
      /\ click'[h].took = click[h].took \/ click'[h].took
  BY <1>0 DEF ClickMoved
<1>2. k \in Calls /\ Issued(k)
  BY <1>0, <1>1 DEF TypeInv, KeyedClicks, KeyedClick, ConsentInv, ClickLive
<1>3. (\A j \in Calls : StatusOf(j)' = StatusOf(j)) /\ (\A j : Accepts(j)' <=> Accepts(j))
  BY <1>1, SameRequests
<1>4. CASE click'[h].took = click[h].took
  <2>1. \A j : OverLink(j)' <=> OverLink(j)
    BY <1>0, <1>1, <1>4 DEF OverLink
  <2> QED
    BY <1>3, <2>1, SameGranted, NoMove DEF SameYes
<1>5. CASE click'[h].took
  <2>1. \A j : OverLink(j)' <=> OverLink(j) \/ j = k
    BY <1>0, <1>1, <1>5 DEF OverLink
  <2>2. GrantedKeys' = GrantedKeys \cup {k}
    BY <1>2, <1>3, <2>1, Granting
  <2> QED
    BY <1>2, <1>3, <2>2, OneYes
<1> QED
  BY <1>1, <1>4, <1>5

LEMMA PressMaps ==
  ASSUME TypeInv, OnceInv, ConsentInv, NEW h \in Clicks, NEW r \in Replicas, NEW k \in Calls,
         Press(h, r, k)
  PROVE  Abstract!Next \/ UNCHANGED Abstract!vars
<1>1. call' = call /\ exp' = exp /\ now' = now /\ dead' = dead /\ click[h].pc = "new"
  BY DEF Press
<1>2. ~click[h].took
  BY <1>1 DEF ConsentInv, ClickPast
<1>3. PICK pc, res : click' = [click EXCEPT ![h] = Pressed(pc, r, k, Burned(k), res)]
  BY DEF Press, Pressed
<1> DEFINE z == Pressed(pc, r, k, Burned(k), res)
<1>4. ~z.took
  BY DEF Pressed, NewClick
<1> HIDE DEF z
<1>5. click'[h] = z /\ \A g \in Clicks \ {h} : click'[g] = click[g]
  BY <1>3, OneClick DEF z
<1>6. \A j : OverLink(j)' <=> OverLink(j)
  BY <1>2, <1>4, <1>5 DEF OverLink
<1> QED
  BY <1>1, <1>6, SameRequests, SameGranted, NoMove DEF SameYes

\* A set of confirmations ends: the others stay where they are.
LEMMA EndMaps ==
  ASSUME NEW S \in SUBSET Calls, \A k \in S : Issued(k) /\ Issued(k)' /\ Over(k)',
         \A k \in Calls \ S : StatusOf(k)' = StatusOf(k), GrantedKeys' = GrantedKeys
  PROVE  Abstract!Next
<1>1. \A k \in S : StatusOf(k) # "none" /\ StatusOf(k)' = "over"
  BY Standing DEF Stands
<1>2. [k \in Calls |-> StatusOf(k)]' =
      [k \in Calls |-> IF k \in S THEN "over" ELSE [j \in Calls |-> StatusOf(j)][k]]
  BY <1>1
<1>3. Abstract!End(S)
  BY <1>1, <1>2 DEF Abstract!End
<1> QED
  BY <1>3 DEF Abstract!Next

LEMMA TickMaps ==
  ASSUME TypeInv, OnceInv, ConsentInv, Tick
  PROVE  Abstract!Next \/ UNCHANGED Abstract!vars
<1> DEFINE S == {k \in Calls : Issued(k) /\ exp[k] < now'}
<1>1. call' = call /\ exp' = exp /\ dead' = dead /\ click' = click /\ now' = now + 1
  BY DEF Tick
<1>2. \A k \in Calls : /\ Issued(k)' <=> Issued(k)
                       /\ Expired(k)' <=> exp[k] < now'
                       /\ Expired(k) => Expired(k)'
  <2>1. exp \in [Calls -> Expiries] /\ now \in 0..MaxTime
    BY DEF TypeInv
  <2> QED
    BY <1>1, <2>1, BoundAssumption DEF Issued, Expired, Expiries
<1>3. \A j : /\ (Runs(j)' <=> Runs(j)) /\ (Claims(j)' <=> Claims(j)) /\ (Takes(j)' <=> Takes(j))
             /\ (Accepts(j)' <=> Accepts(j)) /\ (OverLink(j)' <=> OverLink(j))
  BY <1>1 DEF Runs, Claims, Takes, Confirmed, Ran, Accepts, OverLink
<1>4. \A k \in S : Issued(k) /\ Issued(k)' /\ Over(k)'
  BY <1>2 DEF Over
<1>5. ASSUME NEW k \in Calls \ S PROVE StatusOf(k)' = StatusOf(k)
  <2>1. Issued(k) => (Over(k)' <=> Over(k))
    BY <1>1, <1>2 DEF Over
  <2> QED
    BY <1>2, <1>3, <2>1, StillStands DEF Still
<1>6. GrantedKeys' = GrantedKeys
  BY <1>3, SameGranted DEF SameYes
<1> QED
  BY <1>4, <1>5, <1>6, EndMaps

LEMMA RestartMaps ==
  ASSUME TypeInv, OnceInv, ConsentInv, NEW r \in Replicas, Restart(r)
  PROVE  Abstract!Next
<1> DEFINE S == IF FixedSecret THEN {} ELSE {k \in Calls : call[k].at = r /\ Issued(k)}
<1>1. exp' = exp /\ now' = now /\ dead' = dead \cup S
  BY DEF Restart
<1>2. \A j : (Issued(j)' <=> Issued(j)) /\ (Expired(j)' <=> Expired(j))
  BY <1>1 DEF Issued, Expired
<1>3. \A d \in Calls : call[d] \in CallRec
                       /\ call'[d] = IF call[d].at = r /\ call[d].pc # "done"
                                     THEN Lost(call[d]) ELSE call[d]
  BY DEF Restart, Lost, TypeInv, KeyedCall
<1>4. \A h \in Clicks : click[h] \in ClickRec
                        /\ click'[h] = IF click[h].at = r /\ click[h].pc # "done"
                                       THEN LostClick(click[h]) ELSE click[h]
  BY DEF Restart, LostClick, TypeInv, KeyedClicks
<1>5. ASSUME NEW d \in Calls
      PROVE  /\ Same(call[d], call'[d]) /\ call'[d].took = call[d].took
             /\ call'[d].mode = call[d].mode /\ call'[d].sup = call[d].sup
             /\ call'[d].sent = call[d].sent
  BY <1>3, LostFields DEF Same
<1>6. ASSUME NEW d \in Calls PROVE Confirmed(d)' <=> Confirmed(d)
  <2>1. DecisionOf(call'[d]) = DecisionOf(call[d])
    BY <1>5, DecisionFields DEF Same
  <2> QED
    BY <1>5, <2>1 DEF Confirmed, Ran, Same
<1>7. \A h \in Clicks : click'[h].took = click[h].took /\ click'[h].key = click[h].key
  BY <1>4, LostRest
<1>8. \A j : (Runs(j)' <=> Runs(j)) /\ (Claims(j)' <=> Claims(j)) /\ (Takes(j)' <=> Takes(j))
  BY <1>5, <1>6 DEF Runs, Claims, Takes, Same
<1>9. \A j : (Accepts(j)' <=> Accepts(j)) /\ (OverLink(j)' <=> OverLink(j))
  BY <1>5, <1>7 DEF Accepts, OverLink, Same
<1>10. GrantedKeys' = GrantedKeys
  BY <1>9, SameGranted DEF SameYes
<1>11. \A k \in S : Issued(k) /\ Issued(k)' /\ Over(k)'
  BY <1>1, <1>2 DEF Over
<1>12. ASSUME NEW k \in Calls \ S PROVE StatusOf(k)' = StatusOf(k)
  <2>1. Over(k)' <=> Over(k)
    BY <1>1, <1>2 DEF Over
  <2> QED
    BY <1>2, <1>8, <2>1, StillStands DEF Still
<1>13. S \in SUBSET Calls
  OBVIOUS
<1> HIDE DEF S
<1> QED
  BY <1>10, <1>11, <1>12, <1>13, EndMaps

LEMMA InitMaps == Init => Abstract!Init
<1> SUFFICES ASSUME Init PROVE Abstract!Init
  OBVIOUS
<1>1. \A k \in Calls : ~Issued(k) /\ call[k].mode = "none"
  BY DEF Init, Issued, NewCall
<1>2. \A k \in Calls : ~OverLink(k) /\ ~Accepts(k)
  BY <1>1 DEF Init, OverLink, NewClick, Accepts
<1>3. GrantedKeys = {}
  BY <1>2, Granting
<1>4. \A k \in Calls : StatusOf(k) = "none"
  BY <1>1, Standing DEF Stands
<1> QED
  BY <1>3, <1>4 DEF Abstract!Init

\* One step of the gate is one step of the one-shot confirmation, or none.
LEMMA NextMaps ==
  TypeInv /\ OnceInv /\ ConsentInv /\ [Next]_vars => [Abstract!Next]_(Abstract!vars)
<1> SUFFICES ASSUME TypeInv, OnceInv, ConsentInv, [Next]_vars
             PROVE  Abstract!Next \/ UNCHANGED Abstract!vars
  OBVIOUS
<1>1. ASSUME NEW c \in Calls, NEW r \in Replicas, NEW q \in Requests, NEW dry \in BOOLEAN,
             NEW k \in Calls \cup {None}, NEW a \in Answers, Receive(c, r, q, dry, k, a)
      PROVE  Abstract!Next \/ UNCHANGED Abstract!vars
  BY <1>1, ReceiveMaps
<1>2. ASSUME NEW c \in Calls, Handle(c) PROVE Abstract!Next \/ UNCHANGED Abstract!vars
  BY <1>2, HandleMoved, HandleMaps
<1>3. ASSUME NEW h \in Clicks, NEW r \in Replicas, NEW k \in Calls, Press(h, r, k)
      PROVE  Abstract!Next \/ UNCHANGED Abstract!vars
  BY <1>3, PressMaps
<1>4. ASSUME NEW h \in Clicks, Approve(h) PROVE Abstract!Next \/ UNCHANGED Abstract!vars
  BY <1>4, ApproveMoved, ClickMaps
<1>5. CASE Tick
  BY <1>5, TickMaps
<1>6. ASSUME NEW r \in Replicas, Restart(r) PROVE Abstract!Next
  BY <1>6, RestartMaps
<1>7. CASE UNCHANGED <<call, exp, now, dead, click>>
  <2>1. \A j : OverLink(j)' <=> OverLink(j)
    BY <1>7 DEF OverLink
  <2> QED
    BY <1>7, <2>1, SameRequests, SameGranted, NoMove DEF SameYes
<1> QED
  BY <1>1, <1>2, <1>3, <1>4, <1>5, <1>6, <1>7 DEF Next, Reload, vars

\* The gate, on however many replicas, with crashes, lost answers, reloads and
\* clocks that pass expiries, implements the one-shot confirmation.
THEOREM OneShotHolds == Spec => RefinesOneShot
<1>1. Spec => Init /\ [][Next]_vars
  BY DEF Spec
<1> QED
  BY <1>1, InitMaps, NextMaps, KeyedTypes, OnceInvariant, ConsentInvariant, PTL
     DEF RefinesOneShot, Abstract!Spec
=============================================================================
