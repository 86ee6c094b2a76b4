----------------------------- MODULE BlastProofs -----------------------------
(***************************************************************************)
(* BlastWindow and PolicyRules, for any calls, arguments and rules: what   *)
(* the conditions on the arguments and the count of objects say of every   *)
(* reading of them, that the calls sent are the ones judged so, and that   *)
(* no window ever holds more than its limit.                               *)
(***************************************************************************)
EXTENDS BlastWindow, Sums

-----------------------------------------------------------------------------
(* The readings of an argument *)

\* Every value has one type.
LEMMA ItemTypes ==
  ASSUME NEW v, IsItem(v)
  PROVE  \E t \in {"null", "bool", "num", "dict", "list", "deep", "word", "long", "text"} :
           DOMAIN v = {t}
BY DEF IsItem, IsPlain, IsList

\* A string that the upstream decodes into something else fails every
\* condition: what holds of an argument holds of what the tool is handed.
THEOREM ReadAsWritten ==
  ASSUME NEW w, NEW v, IsItem(v), Holds(w, v)
  PROVE  /\ Readings(v) = {v}
         /\ \A x \in Elements(v) : Matches(w, x)
<1>1. ~Is(v, "deep") /\ ~Replaced(v)
  <2>1. CASE Is(v, "deep")
    <3>1. IsStr(v) /\ ~Is(v, "list")
      BY <2>1, ItemTypes DEF Is, IsStr
    <3>2. ~IsStr(Json(v))
      BY <2>1 DEF Json, Undecodable, IsStr, Is
    <3> QED BY <3>1, <3>2 DEF Holds
  <2>2. CASE Replaced(v)
    <3>1. DOMAIN v = {"text"}
      BY <2>2, ItemTypes DEF Replaced, Is
    <3>2. DOMAIN v.text \in {{"null"}, {"bool"}, {"num"}, {"dict"}, {"list"}}
      BY <3>1 DEF IsItem, IsPlain, IsList
    <3>3. ~IsStr(v.text) /\ ~IsNumeric(v.text)
      BY <2>2, <3>2 DEF Replaced, IsStr, IsNumeric, Is
    <3>4. Json(v) = v.text
      BY <3>1, <3>3 DEF Json, Is, Scalar
    <3> QED BY <3>1, <3>3, <3>4 DEF Holds, IsStr, Is
  <2> QED BY <2>1, <2>2
<1>2. Readings(v) = {v}
  BY <1>1 DEF Readings
<1>3. \A x \in Elements(v) : Matches(w, x)
  BY DEF Holds, Elements
<1> QED BY <1>2, <1>3

\* What an allow list lets through is on it, bool and number apart.
LEMMA ListedIs ==
  ASSUME NEW w, NEW x, IsItem(x), \A a \in w.vals : IsItem(a), Listed(w, x)
  PROVE  x \in w.vals
<1>1. PICK a \in w.vals : Same(x, a)
  BY DEF Listed
<1>2. CASE IsNumeric(x) /\ IsNumeric(a)
  <2>1. CASE Is(x, "bool")
    <3>1. x \in [bool : {0, 1}] /\ a \in [bool : {0, 1}]
      BY <1>1, <2>1, ItemTypes DEF Is, Same, IsItem, IsPlain, IsList
    <3>2. x.bool = a.bool
      BY <1>1, <1>2, <2>1 DEF Same, Equal
    <3> QED BY <3>1, <3>2
  <2>2. CASE ~Is(x, "bool")
    <3>1. x \in [num : Int] /\ a \in [num : Int]
      BY <1>1, <1>2, <2>2, ItemTypes DEF Is, IsNumeric, Same, IsItem, IsPlain, IsList
    <3>2. x.num = a.num
      BY <1>1, <1>2, <2>2 DEF Same, Equal
    <3> QED BY <3>1, <3>2
  <2> QED BY <2>1, <2>2
<1>3. CASE ~(IsNumeric(x) /\ IsNumeric(a))
  BY <1>1, <1>3 DEF Same, Equal
<1> QED BY <1>2, <1>3

\* What a deny list lets through is not on it, and if the list is of one kind is
\* not on it either when the upstream reads it as a number.
LEMMA NotForbiddenIs ==
  ASSUME NEW w, NEW x, IsItem(x), Scalar(x),
         \A a \in w.vals : IsItem(a) /\ (Scalar(a) \/ a = Null),
         NotForbidden(w, x)
  PROVE  x \notin w.vals /\ (OneKind(w) => AsNumber(x) \cap w.vals = {})
<1>1. Same(x, x)
  BY DEF Same, Equal
<1>2. x \notin w.vals
  BY <1>1 DEF NotForbidden, Listed
<1>3. OneKind(w) => \A a \in w.vals : Kind(a) = Kind(x)
  BY DEF NotForbidden, OneKind
<1>4. ASSUME OneKind(w), NEW y \in AsNumber(x) PROVE y \notin w.vals
  <2>1. Kind(x) # "float"
    BY <1>4, ItemTypes DEF AsNumber, Kind, Is, IsStr
  <2>2. Kind(y) = "float"
    <3>1. CASE Is(x, "bool")
      <4>1. y = [num |-> x.bool]
        BY <1>4, <3>1 DEF AsNumber
      <4>2. DOMAIN y = {"num"}
        BY <4>1
      <4>3. Is(y, "num") /\ ~Is(y, "bool") /\ ~IsStr(y)
        BY <4>2 DEF Is, IsStr
      <4> QED BY <4>3 DEF Kind
    <3>2. CASE ~Is(x, "bool")
      <4>1. Is(x, "text") /\ Is(x.text, "num") /\ y = x.text
        BY <1>4, <3>2 DEF AsNumber
      <4>2. DOMAIN x.text = {"num"}
        BY <4>1, ItemTypes DEF Is, IsItem, IsPlain, IsList
      <4>3. Is(y, "num") /\ ~Is(y, "bool") /\ ~IsStr(y)
        BY <4>1, <4>2 DEF Is, IsStr
      <4> QED BY <4>3 DEF Kind
    <3> QED BY <3>1, <3>2
  <2> QED BY <1>3, <1>4, <2>1, <2>2
<1> QED BY <1>2, <1>4

\* The objects counted are the objects of every reading of the argument, or
\* there is no count.
THEOREM CountOfReadings ==
  ASSUME NEW arg, NEW args, arg \in DOMAIN args, IsItem(args[arg]),
         CountObjects(arg, args) # NoCount
  PROVE  /\ CountObjects(arg, args) \in Nat
         /\ \A r \in Readings(args[arg]) : Touches(r) = CountObjects(arg, args)
<1> DEFINE v == args[arg]
<1>1. PICK t \in {"null", "bool", "num", "dict", "list", "deep", "word", "long", "text"} :
        DOMAIN v = {t}
  BY ItemTypes
<1>2. v # Undecodable
  BY <1>1 DEF Undecodable
<1>3. CASE t \in {"null", "bool", "num", "dict", "list"}
  <2>1. CountObjects(arg, args) = Touches(v) /\ Readings(v) = {v}
    BY <1>1, <1>2, <1>3 DEF CountObjects, Touches, Readings, Replaced, IsStr, Is
  <2>2. Touches(v) \in Nat
    BY <1>1, <1>3 DEF Touches, IsItem, IsPlain, IsList, Is
  <2> QED BY <2>1, <2>2
<1>4. CASE t \in {"word", "long"}
  <2>1. Json(v) = v /\ IsStr(v)
    BY <1>1, <1>4 DEF Json, IsStr, Is
  <2>2. CountObjects(arg, args) = 1 /\ Touches(v) = 1 /\ Readings(v) = {v}
    BY <1>1, <1>2, <1>4, <2>1 DEF CountObjects, Touches, Readings, Replaced, Is
  <2> QED BY <2>2
<1>5. CASE t = "deep"
  BY <1>1, <1>5 DEF CountObjects, Json, IsStr, Is
<1>6. CASE t = "text"
  <2>1. IsPlain(v.text) \/ IsList(v.text, "list")
    BY <1>1, <1>6 DEF IsItem, IsPlain, IsList
  <2>2. DOMAIN v.text \in {{"null"}, {"bool"}, {"num"}, {"dict"}, {"list"}}
    BY <2>1 DEF IsPlain, IsList
  <2>3. v.text # Undecodable
    BY <2>2 DEF Undecodable
  <2>4. Touches(v.text) \in Nat
    BY <2>1, <2>2 DEF Touches, IsPlain, IsList, Is
  <2>5. CASE IsNumeric(v.text)
    <3>1. Json(v) = v /\ ~Replaced(v)
      BY <1>1, <1>6, <2>2, <2>5 DEF Json, Replaced, Scalar, IsNumeric, Is
    <3> QED BY <1>1, <1>2, <1>6, <3>1 DEF CountObjects, Touches, Readings, Is, IsStr
  <2>6. CASE ~IsNumeric(v.text)
    <3>1. Json(v) = v.text /\ Replaced(v)
      BY <1>1, <1>6, <2>2, <2>6 DEF Json, Replaced, Scalar, IsNumeric, IsStr, Is
    <3>2. CountObjects(arg, args) = Touches(v.text) /\ Readings(v) = {v.text}
      BY <1>1, <1>6, <2>3, <3>1 DEF CountObjects, Touches, Readings, Is, IsStr
    <3> QED BY <2>4, <3>2
  <2> QED BY <2>5, <2>6
<1> QED BY <1>1, <1>3, <1>4, <1>5, <1>6

-----------------------------------------------------------------------------
(* The invariant: a call that got past evaluate was judged on the arguments *)
(* it carries.                                                             *)

Rows == [by : Calls, pair : Pairs, n : (-MaxPerCall)..MaxPerCall, ts : 0..MaxTime]

CallRec ==
  [pc : {"new", "stamp", "reserve", "forward", "refund", "refused", "over",
         "unavailable", "done"},
   pair : Pairs \cup {None}, args : Args \cup {None}, n : 0..MaxPerCall, ts : 0..MaxTime,
   charge : {"none", "held", "returned"}, sent : BOOLEAN]

Judged(x) ==
  /\ x.pair \in Pairs /\ x.args \in Args
  /\ ~ArgsViolation(Where, Env, x.args)
  /\ x.n = CountObjects(CountArg, x.args) /\ x.n # NoCount

CallOK(x) ==
  /\ x \in CallRec
  /\ x.pc \in {"stamp", "reserve", "forward", "refund"} \/ x.sent => Judged(x)

IInv ==
  /\ now \in 0..MaxTime
  /\ rows \subseteq Rows
  /\ call \in [Calls -> CallRec]
  /\ \A c \in Calls : CallOK(call[c])

LEMMA NewCallOK == NewCall \in CallRec /\ CallOK(NewCall)
<1>1. NewCall \in CallRec
  BY SizeAssumption, TimeAssumption DEF NewCall, CallRec
<1> QED BY <1>1 DEF NewCall, CallOK

LEMMA CountType ==
  ASSUME NEW args \in Args, CountObjects(CountArg, args) # NoCount
  PROVE  CountObjects(CountArg, args) \in Nat
<1>1. CASE CountArg \in DOMAIN args
  <2>1. IsItem(args[CountArg])
    BY <1>1, ArgsAssumption DEF IsValue
  <2> QED BY <1>1, <2>1, CountOfReadings
<1>2. CASE CountArg \notin DOMAIN args
  BY <1>2 DEF CountObjects
<1> QED BY <1>1, <1>2

LEMMA RowType ==
  ASSUME NEW c \in Calls, NEW n \in (-MaxPerCall)..MaxPerCall, NEW ts \in 0..MaxTime,
         call[c].pair \in Pairs
  PROVE  Row(c, n, ts) \in Rows
BY DEF Row, Rows

\* A call moves on with what it was judged on.
LEMMA MovesOK ==
  ASSUME IInv, NEW c \in Calls, NEW x, CallOK(x), Becomes(c, x),
         now' = now, rows' \subseteq Rows
  PROVE  IInv'
<1>1. x \in CallRec
  BY DEF CallOK
<1>2. call' \in [Calls -> CallRec] /\ \A d \in Calls : CallOK(call'[d])
  BY <1>1 DEF IInv, Becomes
<1> QED BY <1>2 DEF IInv

LEMMA RecOK ==
  ASSUME NEW x, Judged(x), NEW y \in CallRec,
         y.pair = x.pair, y.args = x.args, y.n = x.n
  PROVE  CallOK(y)
BY DEF CallOK, Judged

LEMMA EvaluateOK ==
  ASSUME IInv, NEW c \in Calls, NEW p \in Pairs, NEW args \in Args, Evaluate(c, p, args)
  PROVE  IInv'
<1> DEFINE n == CountObjects(CountArg, args)
           allowed == ~ArgsViolation(Where, Env, args) /\ n # NoCount /\ n <= MaxPerCall
           x == [call[c] EXCEPT !.pc = "stamp", !.pair = p, !.args = args, !.n = n]
<1>1. now' = now /\ rows' \subseteq Rows
  BY DEF Evaluate, IInv
<1>2. \/ \E why \in {"refused", "over", "unavailable"} : Refuse(c, why)
      \/ allowed /\ Becomes(c, x)
  BY DEF Evaluate
<1>3. ASSUME NEW why \in {"refused", "over", "unavailable"}, Refuse(c, why)
      PROVE  IInv'
  <2>1. [NewCall EXCEPT !.pc = why] \in CallRec
    BY NewCallOK DEF CallRec
  <2>2. CallOK([NewCall EXCEPT !.pc = why])
    BY <2>1 DEF CallOK, NewCall
  <2> QED BY <1>1, <1>3, <2>2, MovesOK DEF Refuse
<1>4. ASSUME allowed, Becomes(c, x)
      PROVE  IInv'
  <2>1. n \in 0..MaxPerCall
    BY <1>4, CountType, SizeAssumption
  <2>2. call[c] \in CallRec
    BY DEF IInv
  <2> HIDE DEF n
  <2>3. x \in CallRec /\ x.pair = p /\ x.args = args /\ x.n = n
    BY <2>1, <2>2 DEF CallRec
  <2> HIDE DEF x
  <2>4. CallOK(x)
    BY <1>4, <2>3 DEF CallOK, Judged, n
  <2> QED BY <1>1, <1>4, <2>4, MovesOK
<1> QED BY <1>2, <1>3, <1>4

LEMMA CallNow ==
  ASSUME IInv, NEW c \in Calls
  PROVE  /\ call[c] \in CallRec /\ call[c].ts \in 0..MaxTime
         /\ call[c].n \in 0..MaxPerCall
         /\ call[c].charge \in {"none", "held", "returned"} /\ call[c].sent \in BOOLEAN
         /\ call[c].pc \in {"stamp", "reserve", "forward", "refund"} => Judged(call[c])
<1>1. call[c] \in CallRec /\ CallOK(call[c])
  BY DEF IInv
<1> QED BY <1>1 DEF CallRec, CallOK

LEMMA StampOK ==
  ASSUME IInv, NEW c \in Calls, Stamp(c)
  PROVE  IInv'
<1> DEFINE x == call[c]
<1>1. Judged(x) /\ x \in CallRec /\ now \in 0..MaxTime
  BY CallNow DEF Stamp, IInv
<1>2. CallOK([x EXCEPT !.pc = "reserve", !.ts = now])
  <2> DEFINE y == [x EXCEPT !.pc = "reserve", !.ts = now]
  <2>1. y \in CallRec /\ y.pair = x.pair /\ y.args = x.args /\ y.n = x.n
    BY <1>1 DEF CallRec
  <2> HIDE DEF x, y
  <2>2. CallOK(y)
    BY <1>1, <2>1, RecOK
  <2> QED BY <2>2 DEF x, y
<1>3. now' = now /\ rows' \subseteq Rows
  BY DEF Stamp, IInv
<1> QED BY <1>2, <1>3, MovesOK DEF Stamp

LEMMA GotoOK ==
  ASSUME IInv, NEW c \in Calls, Judged(call[c]),
         NEW pc \in {"reserve", "forward", "refund", "over", "unavailable", "done"},
         NEW charge \in {"none", "held", "returned"}
  PROVE  /\ CallOK([call[c] EXCEPT !.pc = pc])
         /\ CallOK([call[c] EXCEPT !.pc = pc, !.charge = charge])
         /\ CallOK([call[c] EXCEPT !.pc = pc, !.sent = TRUE])
<1> DEFINE x == call[c]
           y == [x EXCEPT !.pc = pc]
           z == [x EXCEPT !.pc = pc, !.charge = charge]
           s == [x EXCEPT !.pc = pc, !.sent = TRUE]
<1>1. x \in CallRec
  BY CallNow
<1>2. y \in CallRec /\ y.pair = x.pair /\ y.args = x.args /\ y.n = x.n
  BY <1>1 DEF CallRec
<1>3. z \in CallRec /\ z.pair = x.pair /\ z.args = x.args /\ z.n = x.n
  BY <1>1 DEF CallRec
<1>4. s \in CallRec /\ s.pair = x.pair /\ s.args = x.args /\ s.n = x.n
  BY <1>1 DEF CallRec
<1>5. Judged(x)
  OBVIOUS
<1> HIDE DEF x, y, z, s
<1>6. CallOK(y) /\ CallOK(z) /\ CallOK(s)
  BY <1>2, <1>3, <1>4, <1>5, RecOK
<1> QED BY <1>6 DEF x, y, z, s

LEMMA ReserveOK ==
  ASSUME IInv, NEW c \in Calls, Reserve(c)
  PROVE  IInv'
<1> DEFINE x == call[c]
<1>1. /\ Judged(x) /\ x \in CallRec /\ x.pair \in Pairs
      /\ x.n \in (-MaxPerCall)..MaxPerCall /\ x.ts \in 0..MaxTime /\ now' = now
  BY CallNow, SizeAssumption DEF Reserve, Judged
<1>2. Row(c, x.n, x.ts) \in Rows /\ rows \subseteq Rows
  BY <1>1, RowType DEF IInv
<1>3. rows' \subseteq Rows
  BY <1>2 DEF Reserve, Recent
<1>4. \/ Becomes(c, [x EXCEPT !.pc = "forward", !.charge = "held"])
      \/ Becomes(c, [x EXCEPT !.pc = "unavailable", !.charge = "held"])
      \/ \E pc \in {"over", "unavailable"} : Becomes(c, [x EXCEPT !.pc = pc])
  BY DEF Reserve, Goto
<1> QED BY <1>1, <1>3, <1>4, GotoOK, MovesOK

LEMMA ForwardOK ==
  ASSUME IInv, NEW c \in Calls, Forward(c)
  PROVE  IInv'
<1> DEFINE x == call[c]
<1>1. Judged(x) /\ now' = now /\ rows' \subseteq Rows
  BY CallNow DEF Forward, IInv
<1>2. \/ Becomes(c, [x EXCEPT !.pc = "done", !.sent = TRUE])
      \/ Becomes(c, [x EXCEPT !.pc = "refund"])
  BY DEF Forward, Goto
<1> QED BY <1>1, <1>2, GotoOK, MovesOK

LEMMA RefundOK ==
  ASSUME IInv, NEW c \in Calls, Refund(c)
  PROVE  IInv'
<1> DEFINE x == call[c]
<1>1. /\ Judged(x) /\ x.pair \in Pairs
      /\ -x.n \in (-MaxPerCall)..MaxPerCall /\ x.ts \in 0..MaxTime /\ now' = now
  BY CallNow, SizeAssumption DEF Refund, Judged
<1>2. Row(c, -x.n, x.ts) \in Rows /\ rows \subseteq Rows
  BY <1>1, RowType DEF IInv
<1>3. rows' \subseteq Rows
  BY <1>2 DEF Refund, Recent, RefundStamp
<1>4. \/ Becomes(c, [x EXCEPT !.pc = "done", !.charge = "returned"])
      \/ Becomes(c, [x EXCEPT !.pc = "done"])
  BY DEF Refund, Goto
<1> QED BY <1>1, <1>3, <1>4, GotoOK, MovesOK

LEMMA TickOK ==
  ASSUME IInv, Tick
  PROVE  IInv'
<1>1. now' \in 0..MaxTime /\ rows' = rows /\ call' = call
  BY TimeAssumption DEF IInv, Tick
<1> QED BY <1>1 DEF IInv

LEMMA InitIInv == Init => IInv
<1> SUFFICES ASSUME Init PROVE IInv
  OBVIOUS
<1>1. now \in 0..MaxTime /\ rows \subseteq Rows
  BY TimeAssumption DEF Init
<1> QED BY <1>1, NewCallOK DEF Init, IInv

LEMMA StepIInv == IInv /\ [Next]_vars => IInv'
<1> SUFFICES ASSUME IInv, [Next]_vars PROVE IInv'
  OBVIOUS
<1>1. CASE UNCHANGED vars
  BY <1>1 DEF vars, IInv
<1>2. CASE Next
  BY <1>2, EvaluateOK, StampOK, ReserveOK, ForwardOK, RefundOK, TickOK DEF Next
<1> QED BY <1>1, <1>2

LEMMA Invariant == Spec => []IInv
BY InitIInv, StepIInv, PTL DEF Spec

\* Every row of the table is the charge or the refund of a call, of a pair and
\* at a moment of the clock.
THEOREM TypeCorrect == Spec => []TypeOK
<1>1. IInv => TypeOK
  BY DEF IInv, TypeOK, Rows, CallRec
<1> QED BY <1>1, Invariant, PTL

\* However the upstream reads the arguments it is sent, they are within the
\* limit per call and the conditions that applied when they were judged, a deny
\* list of several kinds by the values as they are sent.
THEOREM JudgedAsRead == Spec => []ReadAsJudged
<1>1. ASSUME IInv PROVE ReadAsJudged
  <2> SUFFICES ASSUME NEW c \in Calls, call[c].sent
               PROVE  /\ \A v \in Read(c, CountArg) : Touches(v) <= MaxPerCall
                      /\ \A w \in Where : Env \in w.env =>
                         \A v \in Read(c, w.arg) : \A x \in Elements(v) :
                           /\ w.kind \in {"equals", "in"} => x \in w.vals
                           /\ w.kind = "not_in" => x \notin w.vals
                           /\ w.kind = "not_in" /\ OneKind(w) => AsNumber(x) \cap w.vals = {}
    BY DEF ReadAsJudged
  <2> DEFINE args == call[c].args
  <2>1. /\ args \in Args /\ ~ArgsViolation(Where, Env, args)
        /\ CountObjects(CountArg, args) # NoCount
        /\ CountObjects(CountArg, args) <= MaxPerCall
    <3>1. call[c] \in CallRec /\ Judged(call[c])
      BY <1>1 DEF IInv, CallOK
    <3>2. call[c].n \in 0..MaxPerCall
      BY <3>1 DEF CallRec
    <3> QED BY <3>1, <3>2, SizeAssumption DEF Judged
  <2>2. \A name \in DOMAIN args : IsValue(args[name]) /\ IsItem(args[name])
    BY <2>1, ArgsAssumption DEF IsValue
  <2>3. ASSUME NEW v \in Read(c, CountArg) PROVE Touches(v) <= MaxPerCall
    <3>1. CountArg \in DOMAIN args /\ v \in Readings(args[CountArg])
      BY <2>3 DEF Read
    <3> QED BY <2>1, <2>2, <3>1, CountOfReadings
  <2>4. ASSUME NEW w \in Where, Env \in w.env, NEW v \in Read(c, w.arg),
               NEW x \in Elements(v)
        PROVE  /\ w.kind \in {"equals", "in"} => x \in w.vals
               /\ w.kind = "not_in" => x \notin w.vals
               /\ w.kind = "not_in" /\ OneKind(w) => AsNumber(x) \cap w.vals = {}
    <3> DEFINE u == args[w.arg]
    <3>1. w.arg \in DOMAIN args /\ v \in Readings(u)
      BY <2>4 DEF Read
    <3>2. Holds(w, u)
      BY <2>1, <2>4, <3>1 DEF ArgsViolation
    <3>3. IsValue(u) /\ IsItem(u)
      BY <2>2, <3>1
    <3>4. v = u /\ Matches(w, x)
      BY <2>4, <3>1, <3>2, <3>3, ReadAsWritten
    <3> HIDE DEF u
    <3>5. IsItem(x)
      BY <2>4, <3>3, <3>4 DEF IsValue, Elements
    <3>6. CASE w.kind \in {"equals", "in"}
      <4>1. x \in w.vals \/ Listed(w, x)
        BY <3>4, <3>6 DEF Matches
      <4> QED BY <3>5, <3>6, <4>1, ListedIs, WhereAssumption
    <3>7. CASE w.kind = "not_in"
      <4>1. Scalar(x) /\ NotForbidden(w, x)
        BY <3>4, <3>7 DEF Matches
      <4> QED BY <3>5, <3>7, <4>1, NotForbiddenIs, WhereAssumption
    <3> QED BY <3>6, <3>7
  <2> QED BY <2>3, <2>4
<1> QED BY <1>1, Invariant, PTL

-----------------------------------------------------------------------------
(* The table and the window *)

Underway == {c \in Calls : call[c].pc # "new"}

\* What is known of a call at each step.
Phase(c) ==
  LET x == call[c]
  IN /\ x.ts <= now
     /\ x.pc \in {"new", "stamp", "reserve"} => x.charge = "none"
     /\ x.pc \in {"forward", "refund"} => x.charge = "held"
     /\ x.pc \in {"reserve", "refund"} => now - x.ts <= Patience
     /\ x.sent => x.pc = "done" /\ x.charge = "held"

ChargeRow(c) == Row(c, call[c].n, call[c].ts)
RefundRow(c) == Row(c, -call[c].n, call[c].ts)

\* The rows a call has written.
Written(c) ==
  (IF call[c].charge = "none" THEN {} ELSE {ChargeRow(c)})
    \cup (IF call[c].charge = "returned" THEN {RefundRow(c)} ELSE {})

RowsOf(c) == {r \in rows : r.by = c}

\* They are there for a retention; where a stamp is not older than that when
\* its last row is written, they leave together.
InTable(c) ==
  /\ RowsOf(c) \subseteq Written(c)
  /\ RowsOf(c) = Written(c) \/ call[c].ts < now - Retention
  /\ Patience <= Retention => RowsOf(c) \in {{}, Written(c)}

Sizes == [c \in Calls |-> call[c].n]

\* The calls that hold room in a stretch of the window of a pair.
Holding(p, from) ==
  {c \in Calls : /\ call[c].charge = "held" /\ call[c].pair = p
                 /\ call[c].ts \in from..(from + Span(p))}

Within ==
  \A p \in Pairs, from \in 0..MaxTime :
    SumFunctionOnSet(Sizes, Holding(p, from)) <= Limit

\* The strengthening of WindowHolds and WindowMatchesCharges.
WInv ==
  /\ IsFiniteSet(rows) /\ IsFiniteSet(Underway)
  /\ \A c \in Calls : Phase(c) /\ InTable(c)
  /\ Within

\* What a step that is not c's own leaves of c's rows: all, or a purge of them.
LEMMA TableKeeps ==
  ASSUME IInv, NEW c \in Calls, InTable(c), call'[c] = call[c],
         now \in Int, now' \in Int, now <= now', NEW stamp \in Int, stamp <= now,
         \/ RowsOf(c)' = RowsOf(c)
         \/ RowsOf(c)' = {r \in RowsOf(c) : r.ts >= stamp - Retention}
  PROVE  InTable(c)'
<1> DEFINE ts == call[c].ts
<1>1. Written(c)' = Written(c)
  BY DEF Written, ChargeRow, RefundRow, Row
<1>2. \A r \in Written(c) : r.ts = ts
  BY DEF Written, ChargeRow, RefundRow, Row
<1>3. ts \in Int /\ Retention \in Int
  BY CallNow, WindowAssumption
<1>4. CASE ts >= stamp - Retention
  <2>1. RowsOf(c)' = RowsOf(c)
    BY <1>2, <1>4 DEF InTable
  <2> QED BY <1>1, <1>3, <2>1 DEF InTable
<1>5. CASE ts < stamp - Retention
  <2>1. RowsOf(c)' = RowsOf(c) \/ RowsOf(c)' = {}
    BY <1>2, <1>3, <1>5 DEF InTable
  <2>2. ts < now' - Retention
    BY <1>3, <1>5
  <2> QED BY <1>1, <2>1, <2>2 DEF InTable
<1> QED BY <1>3, <1>4, <1>5

\* The rows of the other calls after a purge and a row of c.
LEMMA OthersRows ==
  ASSUME NEW c \in Calls, NEW n, NEW stamp, NEW d \in Calls, d # c,
         \/ rows' = rows
         \/ rows' = Recent(stamp)
         \/ rows' = Recent(stamp) \cup {Row(c, n, stamp)}
  PROVE  \/ RowsOf(d)' = RowsOf(d)
         \/ RowsOf(d)' = {r \in RowsOf(d) : r.ts >= stamp - Retention}
BY DEF RowsOf, Recent, Row

-----------------------------------------------------------------------------
(* What a check reads *)

Counts == [r \in rows |-> r.n]

\* What the rows of call d add to the sum.
Standing(p, since, d) ==
  IF call[d].pair = p /\ call[d].ts >= since
  THEN SumFunctionOnSet(Counts, RowsOf(d)) ELSE 0

\* The sum over the table is a sum over the calls.
LEMMA UsageByCall ==
  ASSUME IInv, WInv, NEW p, NEW since
  PROVE  UsageSum(p, since) =
           SumFunctionOnSet([d \in Calls |-> Standing(p, since, d)], Underway)
<1> DEFINE S == {r \in rows : r.pair = p /\ r.ts >= since}
           g == [d \in Calls |-> Standing(p, since, d)]
           by == [r \in rows |-> r.by]
<1>1. /\ IsFiniteSet(S) /\ IsFiniteSet(Underway) /\ \A r \in rows : Counts[r] \in Int
      /\ \A d \in Calls : IsFiniteSet(RowsOf(d))
  <2>1. S \subseteq rows /\ \A d \in Calls : RowsOf(d) \subseteq rows
    BY DEF RowsOf
  <2>2. \A r \in rows : r.n \in Int
    BY SizeAssumption DEF IInv, Rows
  <2> QED BY <2>1, <2>2, FS_Subset DEF WInv, Counts
<1>2. ASSUME NEW r \in rows
      PROVE  /\ by[r] \in Underway
             /\ r.pair = call[by[r]].pair /\ r.ts = call[by[r]].ts
  <2>1. r.by \in Calls /\ r \in RowsOf(r.by)
    BY DEF IInv, Rows, RowsOf
  <2>2. r \in Written(r.by)
    BY <2>1 DEF WInv, InTable
  <2>3. call[r.by].charge # "none"
    BY <2>2 DEF Written
  <2>4. r.pair = call[r.by].pair /\ r.ts = call[r.by].ts
    BY <2>2 DEF Written, ChargeRow, RefundRow, Row
  <2> QED BY <2>1, <2>3, <2>4 DEF WInv, Phase, Underway
<1>3. ASSUME NEW d \in Underway
      PROVE  g[d] = SumFunctionOnSet(Counts, {r \in S : by[r] = d})
  <2>0. d \in Calls
    BY DEF Underway
  <2>1. CASE call[d].pair = p /\ call[d].ts >= since
    <3>1. {r \in S : by[r] = d} = RowsOf(d)
      BY <1>2, <2>1 DEF RowsOf
    <3> QED BY <2>0, <2>1, <3>1 DEF Standing
  <2>2. CASE ~(call[d].pair = p /\ call[d].ts >= since)
    <3>1. {r \in S : by[r] = d} = {}
      BY <1>2, <2>2
    <3>2. g[d] = 0
      BY <2>0, <2>2 DEF Standing
    <3>3. SumFunctionOnSet(Counts, {}) = 0
      BY SumEmpty
    <3> QED BY <3>1, <3>2, <3>3
  <2> QED BY <2>1, <2>2
<1>4. UsageSum(p, since) = SumFunctionOnSet(Counts, S)
  <2> DEFINE f == [r \in S |-> r.n]
  <2>1. UsageSum(p, since) = SumFunctionOnSet(f, S)
    BY DEF UsageSum, Total, SumFunction
  <2>2. \A r \in S : f[r] \in Int /\ f[r] = Counts[r]
    BY <1>1 DEF Counts
  <2> HIDE DEF f, S
  <2> QED BY <1>1, <2>1, <2>2, SumSame
<1>5. \A r \in S : Counts[r] \in Int /\ by[r] \in Underway
  BY <1>1, <1>2
<1> HIDE DEF S, g, by
<1>6. SumFunctionOnSet(Counts, S) = SumFunctionOnSet(g, Underway)
  <2>1. \A d \in Underway : g[d] = SumFunctionOnSet(Counts, {r \in S : by[r] = d})
    BY <1>3
  <2>2. IsFiniteSet(S) /\ IsFiniteSet(Underway)
    BY <1>1
  <2>3. /\ \A r \in S : Counts[r] \in Int
        /\ \A r \in S : by[r] \in Underway
    BY <1>5
  <2> QED BY <2>1, <2>2, <2>3, SumByGroups
<1> QED BY <1>4, <1>6 DEF g

\* All the rows of a call say what it holds.
LEMMA WrittenSum ==
  ASSUME IInv, NEW c \in Calls, RowsOf(c) = Written(c)
  PROVE  SumFunctionOnSet(Counts, RowsOf(c)) = IF call[c].charge = "held" THEN call[c].n ELSE 0
<1> DEFINE a == ChargeRow(c)
           b == RefundRow(c)
           n == call[c].n
<1>1. n \in Nat /\ call[c].charge \in {"none", "held", "returned"}
  BY CallNow, SizeAssumption
<1>2. a.n = n /\ b.n = -n
  BY DEF ChargeRow, RefundRow, Row
<1>3. SumFunctionOnSet(Counts, {}) = 0 /\ IsFiniteSet({})
  BY SumEmpty, FS_EmptySet
<1>4. ASSUME a \in rows
      PROVE  SumFunctionOnSet(Counts, {a}) = n /\ Counts[a] = n
  <2>1. Counts[a] = n /\ a \notin {} /\ {} \cup {a} = {a}
    BY <1>2, <1>4 DEF Counts
  <2> HIDE DEF a, n
  <2>2. SumFunctionOnSet(Counts, {} \cup {a}) = Counts[a] + SumFunctionOnSet(Counts, {})
    BY <1>1, <1>3, <2>1, SumAdd
  <2> QED BY <1>1, <1>3, <2>1, <2>2
<1>5. CASE call[c].charge = "none"
  BY <1>3, <1>5 DEF Written
<1>6. CASE call[c].charge = "held"
  <2>1. Written(c) = {a} /\ a \in rows
    BY <1>6 DEF Written, RowsOf
  <2> QED BY <1>4, <1>6, <2>1
<1>7. CASE call[c].charge = "returned"
  <2>1. Written(c) = {a} \cup {b} /\ a \in rows /\ b \in rows
    BY <1>7 DEF Written, RowsOf
  <2>2. CASE a = b
    <3>1. n = 0
      BY <1>1, <1>2, <2>2
    <3> QED BY <1>4, <1>7, <2>1, <2>2, <3>1
  <2>3. CASE a # b
    <3>1. Counts[b] = -n /\ b \notin {a} /\ IsFiniteSet({a})
      BY <1>2, <2>1, <2>3, FS_Singleton DEF Counts
    <3>2. \A y \in {a} : Counts[y] \in Int
      BY <1>1, <1>4, <2>1
    <3>3. -n \in Int /\ n + (-n) = 0 /\ -n + n = 0
      BY <1>1
    <3> HIDE DEF a, b, n
    <3>4. SumFunctionOnSet(Counts, {a} \cup {b}) = Counts[b] + SumFunctionOnSet(Counts, {a})
      BY <3>1, <3>2, <3>3, SumAdd
    <3> QED BY <1>4, <1>7, <2>1, <3>1, <3>3, <3>4
  <2> QED BY <2>2, <2>3
<1> QED BY <1>1, <1>5, <1>6, <1>7


\* A check reads no less than what calls within the retention hold, whatever
\* was purged.
LEMMA ReadsHeld ==
  ASSUME IInv, WInv, Patience <= Retention, NEW p, NEW since, NEW H, H \subseteq Calls,
         \A d \in H : /\ call[d].charge = "held" /\ call[d].pair = p
                      /\ call[d].ts >= since /\ call[d].ts >= now - Retention
  PROVE  /\ SumFunctionOnSet(Sizes, H) <= UsageSum(p, since)
         /\ IsFiniteSet(H) /\ SumFunctionOnSet(Sizes, H) \in Int /\ UsageSum(p, since) \in Int
<1> DEFINE g == [d \in Calls |-> Standing(p, since, d)]
<1>1. IsFiniteSet(Underway) /\ Underway \subseteq Calls
  BY DEF WInv, Underway
<1>2. H \subseteq Underway
  BY DEF WInv, Phase, Underway
<1>3. \A d \in Calls : Sizes[d] \in Nat
  BY CallNow, SizeAssumption DEF Sizes
<1>4. ASSUME NEW d \in H PROVE g[d] = Sizes[d]
  <2>1. d \in Calls /\ InTable(d) /\ call[d].ts \in Int /\ Retention \in Int /\ now \in Int
    BY CallNow, WindowAssumption DEF WInv, IInv
  <2>2. RowsOf(d) = Written(d)
    BY <2>1 DEF InTable
  <2> QED BY <2>1, <2>2, WrittenSum DEF Standing, Sizes
<1>5. ASSUME NEW d \in Underway PROVE g[d] \in Nat
  <2>1. d \in Calls /\ RowsOf(d) \in {{}, Written(d)}
    BY <1>1 DEF WInv, InTable
  <2>2. CASE RowsOf(d) = {}
    BY <2>1, <2>2, SumEmpty DEF Standing
  <2>3. CASE RowsOf(d) = Written(d)
    BY <1>3, <2>1, <2>3, WrittenSum DEF Standing, Sizes
  <2> QED BY <2>1, <2>2, <2>3
<1>6. IsFiniteSet(H) /\ \A d \in H : g[d] \in Int
  BY <1>1, <1>2, <1>5, FS_Subset
<1>7. UsageSum(p, since) = SumFunctionOnSet(g, Underway)
  BY UsageByCall
<1> HIDE DEF g
<1>8. SumFunctionOnSet(g, H) = SumFunctionOnSet(Sizes, H)
  BY <1>4, <1>6, SumSame
<1>9. /\ SumFunctionOnSet(g, H) <= SumFunctionOnSet(g, Underway)
      /\ SumFunctionOnSet(g, Underway) \in Nat
  BY <1>1, <1>2, <1>5, SumPart
<1>10. SumFunctionOnSet(g, H) \in Int
  BY <1>6, SumInt
<1> QED BY <1>6, <1>7, <1>8, <1>9, <1>10

LEMMA ReadMatches ==
  ASSUME IInv, WInv
  PROVE  WindowMatchesCharges
<1> SUFFICES ASSUME NEW p \in Pairs, NEW since \in 0..now, since >= now - Window[p]
             PROVE  UsageSum(p, since) =
                      SumFunction([c \in {d \in Calls : /\ call[d].charge = "held"
                                                        /\ call[d].pair = p
                                                        /\ call[d].ts >= since} |-> call[c].n])
  BY DEF WindowMatchesCharges
<1> DEFINE H == {d \in Calls : /\ call[d].charge = "held" /\ call[d].pair = p
                               /\ call[d].ts >= since}
           g == [d \in Calls |-> Standing(p, since, d)]
           f == [c \in H |-> call[c].n]
<1>1. /\ IsFiniteSet(Underway) /\ Underway \subseteq Calls /\ H \subseteq Underway
  BY DEF WInv, Phase, Underway
<1>2. ASSUME NEW d \in Underway
      PROVE  g[d] = IF d \in H THEN call[d].n ELSE 0
  <2>1. CASE call[d].pair = p /\ call[d].ts >= since
    <3>1. /\ d \in Calls /\ InTable(d) /\ call[d].ts \in Int /\ now \in Int /\ since \in Int
          /\ Retention \in Int /\ Window[p] \in Int /\ Window[p] <= Retention
      BY <1>1, CallNow, WindowAssumption DEF WInv, IInv
    <3>2. RowsOf(d) = Written(d)
      BY <2>1, <3>1 DEF InTable
    <3> QED BY <2>1, <3>1, <3>2, WrittenSum DEF Standing
  <2>2. CASE ~(call[d].pair = p /\ call[d].ts >= since)
    BY <1>1, <2>2 DEF Standing
  <2> QED BY <2>1, <2>2
<1>3. \A d \in Calls : call[d].n \in Int
  BY CallNow, SizeAssumption
<1>4. UsageSum(p, since) = SumFunctionOnSet(g, Underway)
  BY UsageByCall
<1>5. SumFunction(f) = SumFunctionOnSet(f, H)
  BY DEF SumFunction
<1>6. /\ \A d \in H : f[d] \in Int /\ f[d] = g[d]
      /\ \A d \in Underway \ H : g[d] = 0
      /\ \A d \in Underway : g[d] \in Int
  <2>1. \A d \in H : f[d] = call[d].n /\ d \in Calls /\ d \in Underway
    BY <1>1
  <2>2. \A d \in Underway : d \in Calls /\ g[d] = IF d \in H THEN call[d].n ELSE 0
    BY <1>1, <1>2
  <2> HIDE DEF H, f, g
  <2> QED BY <1>3, <2>1, <2>2
<1> DEFINE rest == Underway \ H
<1>7. /\ IsFiniteSet(H) /\ IsFiniteSet(rest) /\ H \cap rest = {} /\ Underway = H \cup rest
  BY <1>1, FS_Subset
<1> HIDE DEF H, f, g
<1>8. SumFunctionOnSet(f, H) = SumFunctionOnSet(g, H)
  BY <1>6, <1>7, SumSame
<1>9. SumFunctionOnSet(g, rest) = 0
  BY <1>6, <1>7, SumZero
<1>10. SumFunctionOnSet(g, H) \in Int
  <2>1. \A d \in H : g[d] \in Int
    BY <1>1, <1>6
  <2> QED BY <1>7, <2>1, SumInt
<1>11. SumFunctionOnSet(g, H \cup rest) = SumFunctionOnSet(g, H) + SumFunctionOnSet(g, rest)
  <2>1. \A d \in H \cup rest : g[d] \in Int
    BY <1>6, <1>7
  <2> HIDE DEF rest
  <2> QED BY <1>7, <2>1, SumUnion
<1>12. SumFunctionOnSet(g, Underway) = SumFunctionOnSet(f, H)
  <2>1. SumFunctionOnSet(g, Underway) = SumFunctionOnSet(g, H) + SumFunctionOnSet(g, rest)
    BY <1>7, <1>11
  <2> HIDE DEF rest
  <2> QED BY <1>8, <1>9, <1>10, <2>1
<1> QED BY <1>4, <1>5, <1>12 DEF f, H

-----------------------------------------------------------------------------
(* The steps keep the window *)

LEMMA SpanBounds ==
  ASSUME NEW p \in Pairs
  PROVE  /\ Span(p) \in Int /\ Window[p] \in Nat /\ Span(p) <= Window[p]
         /\ Span(p) <= Retention - Patience
<1>1. Window[p] \in Nat /\ Retention \in Nat /\ Patience \in Nat
  BY WindowAssumption, TimeAssumption
<1> DEFINE S == {Window[p], Retention - Patience}
<1>2. \E m \in S : \A y \in S : m <= y
  BY <1>1
<1>3. Span(p) \in S /\ \A y \in S : Span(p) <= y
  BY <1>2 DEF Span, Min
<1> QED BY <1>1, <1>3

LEMMA HoldingFinite ==
  ASSUME IInv, WInv, NEW p, NEW from
  PROVE  IsFiniteSet(Holding(p, from))
<1>1. Holding(p, from) \subseteq Underway /\ IsFiniteSet(Underway)
  BY DEF WInv, Phase, Holding, Underway
<1> QED BY <1>1, FS_Subset

LEMMA SizesNat == IInv => \A c \in Calls : Sizes[c] \in Nat
BY CallNow, SizeAssumption DEF Sizes

\* A step of c that takes no room leaves the window as full as it was.
LEMMA WithinKeeps ==
  ASSUME IInv, WInv, NEW c \in Calls, \A d \in Calls \ {c} : call'[d] = call[d],
         \/ call'[c].charge # "held"
         \/ /\ call[c].charge = "held" /\ call'[c].pair = call[c].pair
            /\ call'[c].ts = call[c].ts /\ call'[c].n = call[c].n
  PROVE  Within'
<1> SUFFICES ASSUME NEW p \in Pairs, NEW from \in 0..MaxTime
             PROVE  SumFunctionOnSet(Sizes', Holding(p, from)') <= Limit
  BY DEF Within
<1> DEFINE H == Holding(p, from)
           K == Holding(p, from)'
           g == Sizes'
<1>1. K \subseteq H /\ \A d \in K : g[d] = Sizes[d] /\ d \in Calls
  BY DEF Holding, Sizes
<1>2. IsFiniteSet(H) /\ \A d \in H : Sizes[d] \in Nat
  BY HoldingFinite, SizesNat DEF Holding
<1>3. SumFunctionOnSet(Sizes, H) <= Limit
  BY DEF WInv, Within
<1>4. IsFiniteSet(K)
  BY <1>1, <1>2, FS_Subset
<1> HIDE DEF H, K, g
<1>5. \A d \in K : Sizes[d] \in Int /\ Sizes[d] = g[d]
  BY <1>1, <1>2
<1>6. SumFunctionOnSet(g, K) = SumFunctionOnSet(Sizes, K)
  BY <1>4, <1>5, SumSame
<1>7. /\ SumFunctionOnSet(Sizes, K) <= SumFunctionOnSet(Sizes, H)
      /\ SumFunctionOnSet(Sizes, H) \in Nat
  BY <1>1, <1>2, SumPart
<1>8. SumFunctionOnSet(Sizes, K) \in Int
  BY <1>4, <1>5, SumInt
<1> QED BY <1>3, <1>6, <1>7, <1>8, SizeAssumption DEF K, g

\* One call's step: what is to be shown of the call itself.
LEMMA StepOf ==
  ASSUME IInv, WInv, NEW c \in Calls, \A d \in Calls \ {c} : call'[d] = call[d],
         now' = now, NEW n, NEW stamp \in Int, stamp <= now,
         \/ rows' = rows
         \/ rows' = Recent(stamp)
         \/ rows' = Recent(stamp) \cup {Row(c, n, stamp)},
         Phase(c)', InTable(c)', Within'
  PROVE  WInv'
<1>1. IsFiniteSet(rows')
  <2>1. rows' \subseteq rows \cup {Row(c, n, stamp)} /\ IsFiniteSet(rows)
    BY DEF Recent, WInv
  <2>2. IsFiniteSet(rows \cup {Row(c, n, stamp)})
    BY <2>1, FS_AddElement
  <2> QED BY <2>1, <2>2, FS_Subset
<1>2. IsFiniteSet(Underway')
  <2>1. Underway' \subseteq Underway \cup {c} /\ IsFiniteSet(Underway)
    BY DEF Underway, WInv
  <2>2. IsFiniteSet(Underway \cup {c})
    BY <2>1, FS_AddElement
  <2> QED BY <2>1, <2>2, FS_Subset
<1>3. ASSUME NEW d \in Calls PROVE Phase(d)' /\ InTable(d)'
  <2>1. CASE d = c
    BY <2>1
  <2>2. CASE d # c
    <3>1. Phase(d) /\ InTable(d) /\ call'[d] = call[d]
      BY <2>2 DEF WInv
    <3>2. now \in Int /\ now' \in Int /\ now <= now'
      BY DEF IInv
    <3>3. Phase(d)'
      BY <3>1 DEF Phase
    <3>4. \/ RowsOf(d)' = RowsOf(d)
          \/ RowsOf(d)' = {r \in RowsOf(d) : r.ts >= stamp - Retention}
      BY <2>2, OthersRows
    <3>5. InTable(d)'
      BY <3>1, <3>2, <3>4, TableKeeps
    <3> QED BY <3>3, <3>5
  <2> QED BY <2>1, <2>2
<1> QED BY <1>1, <1>2, <1>3 DEF WInv

\* The rows of a call whose record says the same of them.
LEMMA SameTable ==
  ASSUME NEW c \in Calls, InTable(c), now' = now, RowsOf(c)' = RowsOf(c),
         call'[c].charge = call[c].charge, call'[c].pair = call[c].pair,
         call'[c].n = call[c].n, call'[c].ts = call[c].ts
  PROVE  InTable(c)'
<1>1. Written(c)' = Written(c)
  BY DEF Written, ChargeRow, RefundRow, Row
<1> QED BY <1>1 DEF InTable

LEMMA NoTable ==
  ASSUME NEW c \in Calls, InTable(c), rows' = rows,
         call[c].charge = "none", call'[c].charge = "none"
  PROVE  InTable(c)'
<1>1. Written(c) = {} /\ Written(c)' = {}
  BY DEF Written
<1>2. RowsOf(c) = {} /\ RowsOf(c)' = {}
  BY <1>1 DEF InTable, RowsOf
<1> QED BY <1>1, <1>2 DEF InTable

LEMMA OneCall ==
  ASSUME IInv, NEW c \in Calls, NEW x, Becomes(c, x)
  PROVE  call'[c] = x /\ \A d \in Calls \ {c} : call'[d] = call[d]
BY DEF Becomes, IInv

\* A step of c that says nothing new of its charge and leaves the table alone.
LEMMA QuietStep ==
  ASSUME IInv, WInv, NEW c \in Calls, \A d \in Calls \ {c} : call'[d] = call[d],
         now' = now, rows' = rows, Phase(c)',
         \/ call[c].charge = "none" /\ call'[c].charge = "none"
         \/ /\ call'[c].charge = call[c].charge /\ call'[c].pair = call[c].pair
            /\ call'[c].n = call[c].n /\ call'[c].ts = call[c].ts
  PROVE  WInv'
<1>1. InTable(c) /\ RowsOf(c)' = RowsOf(c)
  BY DEF WInv, RowsOf
<1>2. InTable(c)'
  BY <1>1, SameTable, NoTable
<1>3. Within'
  BY WithinKeeps
<1>4. now \in Int
  BY DEF IInv
<1> QED BY <1>2, <1>3, <1>4, StepOf

LEMMA EvaluateW ==
  ASSUME IInv, WInv, NEW c \in Calls, NEW p \in Pairs, NEW args \in Args, Evaluate(c, p, args)
  PROVE  WInv'
<1> DEFINE n == CountObjects(CountArg, args)
           x == [call[c] EXCEPT !.pc = "stamp", !.pair = p, !.args = args, !.n = n]
<1>1. /\ call[c] \in CallRec /\ call[c].pc = "new" /\ now' = now /\ rows' = rows
      /\ now \in 0..MaxTime
  BY CallNow DEF Evaluate, IInv
<1>2. call[c].charge = "none" /\ ~call[c].sent /\ call[c].ts <= now
  BY <1>1, CallNow DEF WInv, Phase
<1>3. \/ \E why \in {"refused", "over", "unavailable"} : Refuse(c, why)
      \/ Becomes(c, x)
  BY DEF Evaluate
<1>4. ASSUME NEW why \in {"refused", "over", "unavailable"}, Refuse(c, why)
      PROVE  WInv'
  <2> DEFINE y == [NewCall EXCEPT !.pc = why]
  <2>1. Becomes(c, y)
    BY <1>4 DEF Refuse
  <2>2. y.pc = why /\ y.ts = 0 /\ y.charge = "none" /\ y.sent = FALSE
    BY DEF NewCall
  <2> HIDE DEF y
  <2>3. call'[c] = y /\ \A d \in Calls \ {c} : call'[d] = call[d]
    BY <2>1, OneCall
  <2>4. Phase(c)'
    BY <1>1, <2>2, <2>3 DEF Phase
  <2> QED BY <1>1, <1>2, <2>2, <2>3, <2>4, QuietStep
<1>5. ASSUME Becomes(c, x)
      PROVE  WInv'
  <2>1. x.pc = "stamp" /\ x.ts = call[c].ts /\ x.charge = "none" /\ x.sent = FALSE
    BY <1>1, <1>2 DEF CallRec
  <2> HIDE DEF x
  <2>2. call'[c] = x /\ \A d \in Calls \ {c} : call'[d] = call[d]
    BY <1>5, OneCall
  <2>3. Phase(c)'
    BY <1>1, <1>2, <2>1, <2>2 DEF Phase
  <2> QED BY <1>1, <1>2, <2>1, <2>2, <2>3, QuietStep
<1> QED BY <1>3, <1>4, <1>5

LEMMA StampW ==
  ASSUME IInv, WInv, NEW c \in Calls, Stamp(c)
  PROVE  WInv'
<1> DEFINE x == [call[c] EXCEPT !.pc = "reserve", !.ts = now]
<1>1. /\ call[c] \in CallRec /\ call[c].pc = "stamp" /\ now' = now /\ rows' = rows
      /\ now \in 0..MaxTime /\ Becomes(c, x)
  BY CallNow DEF Stamp, IInv
<1>2. call[c].charge = "none" /\ ~call[c].sent
  BY <1>1, CallNow DEF WInv, Phase
<1>3. x.pc = "reserve" /\ x.ts = now /\ x.charge = "none" /\ x.sent = FALSE
  BY <1>1, <1>2 DEF CallRec
<1> HIDE DEF x
<1>4. call'[c] = x /\ \A d \in Calls \ {c} : call'[d] = call[d]
  BY <1>1, OneCall
<1>5. Phase(c)'
  BY <1>1, <1>3, <1>4, TimeAssumption DEF Phase
<1> QED BY <1>1, <1>2, <1>3, <1>4, <1>5, QuietStep

\* The charge goes in where the sum leaves room for it.
LEMMA ChargeWithin ==
  ASSUME IInv, WInv, NEW c \in Calls, call[c].pc = "reserve",
         UsageSum(call[c].pair, Since(call[c])) + call[c].n <= Limit,
         \A d \in Calls \ {c} : call'[d] = call[d],
         call'[c].pair = call[c].pair, call'[c].n = call[c].n, call'[c].ts = call[c].ts
  PROVE  Within'
<1> SUFFICES ASSUME NEW p \in Pairs, NEW from \in 0..MaxTime
             PROVE  SumFunctionOnSet(Sizes', Holding(p, from)') <= Limit
  BY DEF Within
<1> DEFINE x == call[c]
           H == Holding(p, from)
           K == Holding(p, from)'
           g == Sizes'
<1>1. /\ x.charge = "none" /\ x.ts <= now /\ now - x.ts <= Patience
      /\ x.n \in Nat /\ x.ts \in Int /\ now \in Int
  BY CallNow, SizeAssumption DEF WInv, Phase, IInv
<1>2. /\ IsFiniteSet(H) /\ \A d \in H : d \in Calls /\ Sizes[d] \in Nat
      /\ SumFunctionOnSet(Sizes, H) <= Limit /\ Limit \in Nat
  BY HoldingFinite, SizesNat, SizeAssumption DEF Holding, WInv, Within
<1>3. /\ \A d \in Calls : g[d] = Sizes[d]
      /\ K \subseteq H \cup {c} /\ c \notin H /\ H \subseteq K
  BY <1>1 DEF Sizes, Holding
<1>4. SumFunctionOnSet(Sizes, H) = SumFunctionOnSet(g, H) /\ SumFunctionOnSet(Sizes, H) \in Int
  <2>1. \A d \in H : Sizes[d] \in Int /\ Sizes[d] = g[d]
    BY <1>2, <1>3
  <2> HIDE DEF H, g
  <2> QED BY <1>2, <2>1, SumSame, SumInt
<1>5. CASE c \notin K
  BY <1>2, <1>3, <1>4, <1>5
<1>6. CASE c \in K
  <2>1. p = x.pair /\ x.ts \in from..(from + Span(p))
    BY <1>6 DEF Holding
  <2>2. /\ Span(p) \in Int /\ Span(p) <= Window[p] /\ Span(p) <= Retention - Patience
        /\ Window[p] \in Int /\ Retention \in Int /\ Patience \in Int /\ from \in Int
    BY SpanBounds, WindowAssumption, TimeAssumption
  <2>3. Patience <= Retention
    BY <1>1, <2>1, <2>2
  <2>4. \A d \in H : /\ call[d].charge = "held" /\ call[d].pair = p
                     /\ call[d].ts >= Since(x) /\ call[d].ts >= now - Retention
    <3> SUFFICES ASSUME NEW d \in H
                 PROVE  /\ call[d].charge = "held" /\ call[d].pair = p
                        /\ call[d].ts >= Since(x) /\ call[d].ts >= now - Retention
      OBVIOUS
    <3>1. /\ call[d].charge = "held" /\ call[d].pair = p /\ call[d].ts \in Int
          /\ call[d].ts >= from
      BY <2>2, CallNow DEF Holding
    <3>2. Since(x) = x.ts - Window[p]
      BY <2>1 DEF Since
    <3> HIDE DEF x, H
    <3> QED BY <1>1, <2>1, <2>2, <3>1, <3>2
  <2>5. /\ SumFunctionOnSet(Sizes, H) <= UsageSum(p, Since(x))
        /\ UsageSum(p, Since(x)) \in Int
    <3> HIDE DEF x, H
    <3>1. H \subseteq Calls
      BY <1>2
    <3> QED BY <2>3, <2>4, <3>1, ReadsHeld
  <2>6. UsageSum(p, Since(x)) + x.n <= Limit
    BY <2>1
  <2>7. K = H \cup {c}
    BY <1>3, <1>6
  <2>8. SumFunctionOnSet(g, H \cup {c}) = x.n + SumFunctionOnSet(g, H)
    <3>1. \A d \in H : g[d] \in Int
      BY <1>2, <1>3
    <3>2. g[c] = x.n /\ x.n \in Int
      BY <1>1, <1>3 DEF Sizes
    <3> HIDE DEF g, H, x
    <3> QED BY <1>2, <1>3, <3>1, <3>2, SumAdd
  <2> HIDE DEF x, H, K, g
  <2> QED BY <1>1, <1>2, <1>4, <2>5, <2>6, <2>7, <2>8 DEF K, g
<1> QED BY <1>5, <1>6

LEMMA ReserveW ==
  ASSUME IInv, WInv, NEW c \in Calls, Reserve(c)
  PROVE  WInv'
<1> DEFINE x == call[c]
           held == [x EXCEPT !.pc = "forward", !.charge = "held"]
           lost == [x EXCEPT !.pc = "unavailable", !.charge = "held"]
           r == Row(c, x.n, x.ts)
<1>1. x \in CallRec /\ x.pc = "reserve" /\ now' = now /\ now \in Int /\ x.ts \in Int
  BY CallNow DEF Reserve, IInv
<1>2. /\ x.charge = "none" /\ x.sent = FALSE /\ x.ts <= now /\ now - x.ts <= Patience
      /\ InTable(c)
  BY <1>1, CallNow DEF WInv, Phase
<1>3. \/ /\ UsageSum(x.pair, Since(x)) + x.n <= Limit
         /\ rows' = Recent(x.ts) \cup {r}
         /\ Becomes(c, held) \/ Becomes(c, lost)
      \/ /\ rows' = rows
         /\ \E pc \in {"over", "unavailable"} : Becomes(c, [x EXCEPT !.pc = pc])
  BY DEF Reserve, Goto
<1>4. ASSUME NEW y \in {held, lost}, UsageSum(x.pair, Since(x)) + x.n <= Limit,
             rows' = Recent(x.ts) \cup {r}, Becomes(c, y)
      PROVE  WInv'
  <2>1. /\ y.pc \in {"forward", "unavailable"} /\ y.charge = "held" /\ y.sent = FALSE
        /\ y.pair = x.pair /\ y.n = x.n /\ y.ts = x.ts
    BY <1>1, <1>2 DEF CallRec
  <2>2. call'[c] = y /\ \A d \in Calls \ {c} : call'[d] = call[d]
    <3> HIDE DEF held, lost
    <3> QED BY <1>4, OneCall
  <2> HIDE DEF held, lost
  <2>3. Phase(c)'
    BY <1>1, <1>2, <2>1, <2>2 DEF Phase
  <2>4. RowsOf(c)' = {r} /\ Written(c)' = {r}
    <3>1. RowsOf(c) = {}
      BY <1>2 DEF InTable, Written
    <3>2. RowsOf(c)' = {r}
      BY <1>4, <3>1 DEF RowsOf, Recent, Row
    <3>3. ChargeRow(c)' = r
      BY <2>1, <2>2 DEF ChargeRow, Row
    <3> QED BY <2>1, <2>2, <3>2, <3>3 DEF Written
  <2>5. InTable(c)'
    BY <2>4 DEF InTable
  <2>6. Within'
    BY <1>1, <1>4, <2>1, <2>2, ChargeWithin
  <2> QED BY <1>1, <1>2, <1>4, <2>2, <2>3, <2>5, <2>6, StepOf
<1>5. ASSUME NEW pc \in {"over", "unavailable"}, rows' = rows, Becomes(c, [x EXCEPT !.pc = pc])
      PROVE  WInv'
  <2> DEFINE y == [x EXCEPT !.pc = pc]
  <2>1. /\ y.pc = pc /\ y.charge = "none" /\ y.sent = FALSE /\ y.ts = x.ts
    BY <1>1, <1>2 DEF CallRec
  <2> HIDE DEF y
  <2>2. call'[c] = y /\ \A d \in Calls \ {c} : call'[d] = call[d]
    BY <1>5, OneCall DEF y
  <2>3. Phase(c)'
    BY <1>1, <1>2, <2>1, <2>2 DEF Phase
  <2> QED BY <1>1, <1>2, <1>5, <2>1, <2>2, <2>3, QuietStep
<1> QED BY <1>3, <1>4, <1>5

LEMMA ForwardW ==
  ASSUME IInv, WInv, NEW c \in Calls, Forward(c)
  PROVE  WInv'
<1> DEFINE x == call[c]
           sent == [x EXCEPT !.pc = "done", !.sent = TRUE]
           back == [x EXCEPT !.pc = "refund"]
<1>1. /\ x \in CallRec /\ x.pc = "forward" /\ now' = now /\ rows' = rows /\ now \in Int
  BY CallNow DEF Forward, IInv
<1>2. x.charge = "held" /\ x.sent = FALSE /\ x.ts <= now
  BY <1>1, CallNow DEF WInv, Phase
<1>3. Becomes(c, sent) \/ (now - x.ts <= Patience /\ Becomes(c, back))
  BY DEF Forward, Goto
<1>4. /\ sent.pc = "done" /\ back.pc = "refund" /\ back.sent = FALSE
      /\ \A y \in {sent, back} : /\ y.charge = "held" /\ y.pair = x.pair
                                 /\ y.n = x.n /\ y.ts = x.ts
  BY <1>1, <1>2 DEF CallRec
<1> HIDE DEF sent, back
<1>5. /\ call'[c] \in {sent, back} /\ \A d \in Calls \ {c} : call'[d] = call[d]
      /\ call'[c] = back => now - x.ts <= Patience
  <2>1. CASE Becomes(c, sent)
    <3>1. sent # back
      BY <1>4
    <3> QED BY <2>1, <3>1, OneCall
  <2>2. CASE now - x.ts <= Patience /\ Becomes(c, back)
    BY <2>2, OneCall
  <2> QED BY <1>3, <2>1, <2>2
<1>6. Phase(c)'
  BY <1>1, <1>2, <1>4, <1>5 DEF Phase
<1> QED BY <1>1, <1>2, <1>4, <1>5, <1>6, QuietStep

LEMMA RefundW ==
  ASSUME IInv, WInv, NEW c \in Calls, Refund(c)
  PROVE  WInv'
<1> DEFINE x == call[c]
           back == [x EXCEPT !.pc = "done", !.charge = "returned"]
           kept == [x EXCEPT !.pc = "done"]
           r == Row(c, -x.n, x.ts)
<1>1. /\ x \in CallRec /\ x.pc = "refund" /\ now' = now /\ now \in Int /\ x.ts \in Int
      /\ Retention \in Nat /\ Patience \in Nat
  BY CallNow, WindowAssumption, TimeAssumption DEF Refund, IInv
<1>2. /\ x.charge = "held" /\ x.sent = FALSE /\ x.ts <= now /\ now - x.ts <= Patience
      /\ InTable(c)
  BY <1>1, CallNow DEF WInv, Phase
<1>3. /\ back.pc = "done" /\ back.charge = "returned" /\ back.sent = FALSE
      /\ kept.pc = "done" /\ kept.charge = "held" /\ kept.sent = FALSE
      /\ \A y \in {back, kept} : y.pair = x.pair /\ y.n = x.n /\ y.ts = x.ts
  BY <1>1, <1>2 DEF CallRec
<1>4. \/ rows' = Recent(x.ts) \cup {r} /\ Becomes(c, back)
      \/ (rows' = rows \/ rows' = Recent(x.ts)) /\ Becomes(c, kept)
  BY DEF Refund, Goto, RefundStamp
<1>5. Written(c) = {ChargeRow(c)} /\ {s \in RowsOf(c) : s.ts >= x.ts - Retention} = RowsOf(c)
  <2>1. Written(c) = {ChargeRow(c)}
    BY <1>2 DEF Written
  <2>2. \A s \in RowsOf(c) : s.ts = x.ts
    BY <1>2, <2>1 DEF InTable, ChargeRow, Row
  <2> QED BY <1>1, <2>1, <2>2
<1> HIDE DEF back, kept
<1>6. ASSUME rows' = Recent(x.ts) \cup {r}, Becomes(c, back)
      PROVE  WInv'
  <2>1. call'[c] = back /\ \A d \in Calls \ {c} : call'[d] = call[d]
    BY <1>6, OneCall
  <2>2. Phase(c)'
    BY <1>1, <1>2, <1>3, <2>1 DEF Phase
  <2>3. RowsOf(c)' = RowsOf(c) \cup {r}
    BY <1>5, <1>6 DEF RowsOf, Recent, Row
  <2>4. Written(c)' = Written(c) \cup {r}
    <3>1. ChargeRow(c)' = ChargeRow(c) /\ RefundRow(c)' = r
      BY <1>3, <2>1 DEF ChargeRow, RefundRow, Row
    <3> QED BY <1>3, <1>5, <2>1, <3>1 DEF Written
  <2>5. InTable(c)'
    <3>1. RowsOf(c) = Written(c) \/ x.ts < now - Retention
      BY <1>2 DEF InTable
    <3>2. Patience <= Retention => RowsOf(c) = Written(c)
      BY <1>1, <1>2, <3>1
    <3>3. RowsOf(c) \subseteq Written(c) /\ call'[c].ts = x.ts
      BY <1>2, <1>3, <2>1 DEF InTable
    <3> HIDE DEF x, r
    <3> QED BY <1>1, <2>3, <2>4, <3>1, <3>2, <3>3 DEF InTable
  <2>6. Within'
    BY <1>3, <2>1, WithinKeeps
  <2> QED BY <1>1, <1>2, <1>6, <2>1, <2>2, <2>5, <2>6, StepOf
<1>7. ASSUME rows' = rows \/ rows' = Recent(x.ts), Becomes(c, kept)
      PROVE  WInv'
  <2>1. call'[c] = kept /\ \A d \in Calls \ {c} : call'[d] = call[d]
    BY <1>7, OneCall
  <2>2. Phase(c)'
    BY <1>1, <1>2, <1>3, <2>1 DEF Phase
  <2>3. RowsOf(c)' = RowsOf(c)
    BY <1>5, <1>7 DEF RowsOf, Recent
  <2>4. InTable(c)'
    BY <1>1, <1>2, <1>3, <2>1, <2>3, SameTable
  <2>5. Within'
    BY <1>2, <1>3, <2>1, WithinKeeps
  <2> QED BY <1>1, <1>2, <1>7, <2>1, <2>2, <2>4, <2>5, StepOf
<1> QED BY <1>4, <1>6, <1>7

LEMMA TickW ==
  ASSUME IInv, WInv, Tick
  PROVE  WInv'
<1>1. now \in Int /\ now' = now + 1 /\ rows' = rows /\ call' = call /\ Patience \in Int
  BY TimeAssumption DEF IInv, Tick
<1>2. ASSUME NEW c \in Calls PROVE Phase(c)' /\ InTable(c)'
  <2>1. call[c].ts \in Int /\ Phase(c) /\ InTable(c)
    BY CallNow DEF WInv
  <2>2. call[c].pc \in {"reserve", "refund"} => now - call[c].ts < Patience
    BY DEF Tick
  <2>3. Phase(c)'
    BY <1>1, <2>1, <2>2 DEF Phase
  <2>4. RowsOf(c)' = RowsOf(c) /\ now <= now' /\ now' \in Int
    BY <1>1 DEF RowsOf
  <2>5. InTable(c)'
    BY <1>1, <2>1, <2>4, TableKeeps
  <2> QED BY <2>3, <2>5
<1>3. Within' /\ Underway' = Underway
  BY <1>1 DEF WInv, Within, Holding, Sizes, Underway
<1> QED BY <1>1, <1>2, <1>3 DEF WInv

LEMMA InitWInv == Init => WInv
<1> SUFFICES ASSUME Init PROVE WInv
  OBVIOUS
<1>1. rows = {} /\ Underway = {} /\ IsFiniteSet({})
  BY FS_EmptySet DEF Init, Underway, NewCall
<1>2. ASSUME NEW c \in Calls PROVE Phase(c) /\ InTable(c)
  <2>1. /\ call[c].pc = "new" /\ call[c].ts = 0 /\ call[c].charge = "none"
        /\ call[c].sent = FALSE /\ now = 0 /\ rows = {}
    BY DEF Init, NewCall
  <2>2. Written(c) = {} /\ RowsOf(c) = {}
    BY <2>1 DEF Written, RowsOf
  <2> QED BY <2>1, <2>2 DEF Phase, InTable
<1>3. Within
  <2> SUFFICES ASSUME NEW p \in Pairs, NEW from \in 0..MaxTime
               PROVE  SumFunctionOnSet(Sizes, Holding(p, from)) <= Limit
    BY DEF Within
  <2>1. Holding(p, from) = {}
    BY DEF Init, NewCall, Holding
  <2>2. SumFunctionOnSet(Sizes, {}) = 0
    BY SumEmpty
  <2> QED BY <2>1, <2>2, SizeAssumption
<1> QED BY <1>1, <1>2, <1>3 DEF WInv

LEMMA StepWInv == IInv /\ WInv /\ [Next]_vars => WInv'
<1> SUFFICES ASSUME IInv, WInv, [Next]_vars PROVE WInv'
  OBVIOUS
<1>1. CASE UNCHANGED vars
  BY <1>1 DEF vars, WInv, Phase, InTable, RowsOf, Written, ChargeRow, RefundRow, Row,
              Within, Holding, Sizes, Underway
<1>2. CASE Next
  BY <1>2, EvaluateW, StampW, ReserveW, ForwardW, RefundW, TickW DEF Next
<1> QED BY <1>1, <1>2

LEMMA Accounted == Spec => [](IInv /\ WInv)
BY InitIInv, StepIInv, InitWInv, StepWInv, PTL DEF Spec

\* What the rows in the window add up to is what the calls in it hold, for any
\* calls, however late their charges come, whatever is purged or given back.
THEOREM ChargesMatch == Spec => []WindowMatchesCharges
BY Accounted, ReadMatches, PTL

\* No stretch of the window holds more objects than the limit among the calls
\* that reached the upstream, as the upstream counts them: a charge finds every
\* earlier one it is to share the window with still in the table.
THEOREM WindowNeverExceeded == Spec => []WindowHolds
<1>1. ASSUME IInv, WInv PROVE WindowHolds
  <2> SUFFICES ASSUME NEW p \in Pairs, NEW from \in 0..MaxTime
               PROVE  Touched({c \in Calls : /\ call[c].sent /\ call[c].pair = p
                                             /\ call[c].ts \in from..(from + Span(p))}) <= Limit
    BY DEF WindowHolds
  <2> DEFINE S == {c \in Calls : /\ call[c].sent /\ call[c].pair = p
                                 /\ call[c].ts \in from..(from + Span(p))}
             H == Holding(p, from)
             f == [c \in S |-> Most(c)]
  <2>1. S \subseteq H
    BY <1>1 DEF WInv, Phase, Holding
  <2>2. /\ IsFiniteSet(H) /\ \A c \in H : Sizes[c] \in Nat
        /\ SumFunctionOnSet(Sizes, H) <= Limit
    BY <1>1, HoldingFinite, SizesNat DEF WInv, Within, Holding
  <2>3. ASSUME NEW c \in S PROVE f[c] = Sizes[c]
    <3> DEFINE args == call[c].args
               n == CountObjects(CountArg, args)
    <3>1. c \in Calls /\ args \in Args /\ Sizes[c] = n /\ n # NoCount
      BY <1>1 DEF IInv, CallOK, Judged, Sizes
    <3>2. CASE CountArg \in DOMAIN args
      <4>1. IsItem(args[CountArg])
        BY <3>1, <3>2, ArgsAssumption DEF IsValue
      <4>2. n \in Nat /\ \A v \in Read(c, CountArg) : Touches(v) = n
        BY <3>1, <3>2, <4>1, CountOfReadings DEF Read
      <4>3. Read(c, CountArg) # {}
        BY <3>2 DEF Read, Readings
      <4>4. {Touches(v) : v \in Read(c, CountArg)} = {n}
        BY <4>2, <4>3
      <4>5. Max({n}) = n
        BY <4>2 DEF Max
      <4> HIDE DEF n
      <4> QED BY <3>1, <3>2, <4>4, <4>5 DEF Most
    <3>3. CASE CountArg \notin DOMAIN args
      BY <3>1, <3>3 DEF Most, CountObjects
    <3> QED BY <3>2, <3>3
  <2>4. Touched(S) = SumFunctionOnSet(f, S)
    BY DEF Touched, SumFunction
  <2> HIDE DEF S, H, f
  <2>5. IsFiniteSet(S) /\ \A c \in S : Sizes[c] \in Int /\ Sizes[c] = f[c]
    BY <2>1, <2>2, <2>3, FS_Subset
  <2>6. SumFunctionOnSet(f, S) = SumFunctionOnSet(Sizes, S)
    BY <2>5, SumSame
  <2>7. /\ SumFunctionOnSet(Sizes, S) <= SumFunctionOnSet(Sizes, H)
        /\ SumFunctionOnSet(Sizes, H) \in Nat
    BY <2>1, <2>2, SumPart
  <2>8. SumFunctionOnSet(Sizes, S) \in Int
    BY <2>5, SumInt
  <2>9. Touched(S) <= Limit
    BY <2>2, <2>4, <2>6, <2>7, <2>8, SizeAssumption
  <2> QED BY <2>9 DEF S
<1> QED BY <1>1, Accounted, PTL

=============================================================================
