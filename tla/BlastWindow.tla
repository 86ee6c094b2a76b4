----------------------------- MODULE BlastWindow -----------------------------
(***************************************************************************)
(* The blast-radius window: Engine.evaluate, reserve and refund over the   *)
(* usage rows of the store.  The proxy stamps a charge with its own clock  *)
(* before it asks the store; the call then waits for a pooled connection   *)
(* and for the advisory lock of its principal and tool, so charges reach   *)
(* the table out of the order of their stamps.  How many objects a call    *)
(* touches, and whether its arguments are allowed at all, is read in them  *)
(* by PolicyRules; the upstream reads them once more.                      *)
(***************************************************************************)
EXTENDS PolicyRules, Functions, FiniteSetsExt

CONSTANTS
  Calls,
  Pairs,          \* principal and tool, what the lock and the sum go by
  None,           \* no pair, no arguments yet
  Args,           \* the arguments of a call: names to values
  CountArg,       \* count_arg of the tool
  MaxPerCall,     \* max_per_call
  Where, Env,     \* where of the tool, and the environment
  Limit,          \* max_per_principal
  Window,         \* window_s of each
  Retention,      \* USAGE_RETENTION_S
  Patience,       \* bound on the time from the stamp to the last row of it
  MaxTime,        \* bound on the clock
  StoreOutcomes   \* "ok", "down": not done, "lost": done, answer lost

ASSUME NoneAssumption == None \notin Pairs \cup Args

ASSUME ArgsAssumption == \A args \in Args : \A name \in DOMAIN args : IsValue(args[name])

\* WhereRule._one_matcher: scalars or null.
ASSUME WhereAssumption ==
  \A w \in Where :
    /\ w.kind \in {"equals", "in", "not_in", "regex"}
    /\ \A a \in w.vals : IsItem(a) /\ (Scalar(a) \/ a = Null)

ASSUME SizeAssumption == MaxPerCall \in Nat /\ Limit \in Nat

\* BlastRadius: 1 <= window_s <= USAGE_RETENTION_S.
ASSUME WindowAssumption == Retention \in Nat /\ Window \in [Pairs -> 1..Retention]

ASSUME TimeAssumption == Patience \in Nat /\ MaxTime \in Nat

ASSUME OutcomeAssumption == StoreOutcomes \subseteq {"ok", "down", "lost"}

VARIABLES
  now,    \* the wall clock
  rows,   \* airlock_usage
  call    \* what each call is doing

vars == <<now, rows, call>>

NewCall ==
  [pc |-> "new", pair |-> None, args |-> None, n |-> 0, ts |-> 0,
   charge |-> "none", sent |-> FALSE]

Init ==
  /\ now = 0
  /\ rows = {}
  /\ call = [c \in Calls |-> NewCall]

-----------------------------------------------------------------------------
(* The table *)

Total(S) == SumFunction([r \in S |-> r.n])

\* usage_sum
UsageSum(pair, since) == Total({r \in rows : r.pair = pair /\ r.ts >= since})

\* DELETE ... WHERE ts < ts - USAGE_RETENTION_S, of every principal and tool.
Recent(ts) == {r \in rows : r.ts >= ts - Retention}

Row(c, n, ts) == [by |-> c, pair |-> call[c].pair, n |-> n, ts |-> ts]

\* Variant: the window is measured back from the moment the lock is held.
SinceNow(x) == now - Window[x.pair]

\* reserve passes one reading of the clock for both ends.
Since(x) == x.ts - Window[x.pair]

\* Variant: the refund is stamped with the time of the refund.
RefundStampNow(x) == now

\* The refund carries the charge's own stamp: they leave the window together.
RefundStamp(x) == x.ts

-----------------------------------------------------------------------------
(* Engine *)

Becomes(c, x) == call' = [call EXCEPT ![c] = x]

Goto(c, pc) == Becomes(c, [call[c] EXCEPT !.pc = pc])

\* An answer that leaves nothing behind.
Refuse(c, why) == Becomes(c, [NewCall EXCEPT !.pc = why])

\* evaluate: the conditions on the arguments, their objects, and the window,
\* so that nobody is asked to confirm what a limit refuses; between this check
\* and the charge others may take the room.
Evaluate(c, pair, args) ==
  LET n == CountObjects(CountArg, args)
      used == UsageSum(pair, now - Window[pair])
      allowed == /\ ~ArgsViolation(Where, Env, args)
                 /\ n # NoCount /\ n <= MaxPerCall
  IN /\ call[c].pc = "new"
     /\ \/ ~allowed /\ Refuse(c, "refused")
        \/ /\ allowed /\ used + n <= Limit
           /\ Becomes(c, [call[c] EXCEPT !.pc = "stamp", !.pair = pair, !.args = args, !.n = n])
        \/ allowed /\ used + n > Limit /\ Refuse(c, "over")
        \/ allowed /\ StoreOutcomes \cap {"down", "lost"} # {} /\ Refuse(c, "unavailable")
     /\ UNCHANGED <<now, rows>>

\* Variant: a clock in milliseconds.
StampMillis(c) ==
  /\ call[c].pc = "stamp"
  /\ Becomes(c, [call[c] EXCEPT !.pc = "reserve", !.ts = 1000 * now])
  /\ UNCHANGED <<now, rows>>

\* now = time.time(), before the store is asked.
Stamp(c) ==
  /\ call[c].pc = "stamp"
  /\ Becomes(c, [call[c] EXCEPT !.pc = "reserve", !.ts = now])
  /\ UNCHANGED <<now, rows>>

\* usage_reserve, one transaction under the advisory lock.
Reserve(c) ==
  LET x == call[c]
      room == UsageSum(x.pair, Since(x)) + x.n <= Limit
  IN /\ x.pc = "reserve"
     /\ \/ /\ room
           /\ rows' = Recent(x.ts) \cup {Row(c, x.n, x.ts)}
           /\ \/ Becomes(c, [call[c] EXCEPT !.pc = "forward", !.charge = "held"])
              \/ /\ "lost" \in StoreOutcomes
                 /\ Becomes(c, [call[c] EXCEPT !.pc = "unavailable", !.charge = "held"])
        \/ /\ ~room
           /\ rows' = rows
           /\ Goto(c, "over")
        \/ /\ StoreOutcomes \cap {"down", "lost"} # {}
           /\ rows' = rows
           /\ Goto(c, "unavailable")
     /\ now' = now

\* The call reaches the upstream, or the connect fails and it is refunded.
Forward(c) ==
  /\ call[c].pc = "forward"
  /\ \/ Becomes(c, [call[c] EXCEPT !.pc = "done", !.sent = TRUE])
     \/ now - call[c].ts <= Patience /\ Goto(c, "refund")
  /\ UNCHANGED <<now, rows>>

\* usage_add(-n): a DELETE and an INSERT of their own, without the lock; a
\* store that fails at either is only logged.
Refund(c) ==
  LET x == call[c]
  IN /\ x.pc = "refund"
     /\ \/ /\ rows' = Recent(RefundStamp(x)) \cup {Row(c, -x.n, RefundStamp(x))}
           /\ Becomes(c, [call[c] EXCEPT !.pc = "done", !.charge = "returned"])
        \/ /\ StoreOutcomes \cap {"down", "lost"} # {}
           /\ rows' \in {rows, Recent(RefundStamp(x))}
           /\ Goto(c, "done")
     /\ now' = now

\* The pool wait and the deadline bound a reserve, the connect timeout what
\* may lie between it and the refund.
Tick ==
  /\ now < MaxTime
  /\ \A c \in Calls : call[c].pc \in {"reserve", "refund"} => now - call[c].ts < Patience
  /\ now' = now + 1
  /\ UNCHANGED <<rows, call>>

Next ==
  \/ \E c \in Calls, p \in Pairs, args \in Args : Evaluate(c, p, args)
  \/ \E c \in Calls : Stamp(c) \/ Reserve(c) \/ Forward(c) \/ Refund(c)
  \/ Tick

Spec == Init /\ [][Next]_vars

-----------------------------------------------------------------------------
(* What the window promises *)

\* Types of all the state; a row stands for a charge or its refund.
TypeOK ==
  /\ now \in 0..MaxTime
  /\ rows \subseteq [by : Calls, pair : Pairs, n : (-MaxPerCall)..MaxPerCall, ts : 0..MaxTime]
  /\ call \in [Calls ->
       [pc : {"new", "stamp", "reserve", "forward", "refund", "refused", "over",
              "unavailable", "done"},
        pair : Pairs \cup {None}, args : Args \cup {None}, n : 0..MaxPerCall, ts : 0..MaxTime,
        charge : {"none", "held", "returned"}, sent : BOOLEAN]]

\* What the upstream may read in an argument of a call.
Read(c, name) == IF name \in DOMAIN call[c].args THEN Readings(call[c].args[name]) ELSE {}

\* The objects a call touches, as many as any reading has: one where nothing
\* is there to read.
Most(c) ==
  IF CountArg \in DOMAIN call[c].args
  THEN Max({Touches(v) : v \in Read(c, CountArg)}) ELSE 1

Touched(S) == SumFunction([c \in S |-> Most(c)])

\* The store forgets the charges of a retention: of the longest windows the
\* end is lost on a reserve that waited.
Span(pair) == Min({Window[pair], Retention - Patience})

\* In no stretch of window_s seconds do the calls of one principal and tool
\* that reached the upstream touch more than max_per_principal objects, as the
\* upstream reads their arguments, in whatever order their charges and refunds
\* reach the store.
WindowHolds ==
  \A p \in Pairs, from \in 0..MaxTime :
    Touched({c \in Calls : /\ call[c].sent /\ call[c].pair = p
                           /\ call[c].ts \in from..(from + Span(p))}) <= Limit

\* What a check reads at any moment is what the calls of the last window_s
\* hold: no refund outlives its charge or is lost before it, and no purge
\* (by another principal's call either) takes a row still in the window.
WindowMatchesCharges ==
  \A p \in Pairs, since \in 0..now :
    since >= now - Window[p] => UsageSum(p, since) =
      SumFunction([c \in {d \in Calls : /\ call[d].charge = "held" /\ call[d].pair = p
                                        /\ call[d].ts >= since} |-> call[c].n])

\* The values of a condition are all of one kind.
OneKind(w) == \A a, b \in w.vals : Kind(a) = Kind(b)

\* Whatever the upstream makes of the arguments of a call it was sent: no more
\* objects than one call may touch, each element of an argument under an
\* applicable allow list is on it, and none is on a deny list.  Where the deny
\* list is of one kind, none is on it either once read as the number its
\* argument may be declared as; one of 0 and "x" lets the string "0" through.
ReadAsJudged ==
  \A c \in Calls : call[c].sent =>
    /\ \A v \in Read(c, CountArg) : Touches(v) <= MaxPerCall
    /\ \A w \in Where : Env \in w.env =>
       \A v \in Read(c, w.arg) : \A x \in Elements(v) :
         /\ w.kind \in {"equals", "in"} => x \in w.vals
         /\ w.kind = "not_in" => x \notin w.vals
         /\ w.kind = "not_in" /\ OneKind(w) => AsNumber(x) \cap w.vals = {}
=============================================================================
