----------------------------- MODULE PoolProofs -----------------------------
(* StorePool: its types, the discipline of its connections and its pool,   *)
(* and that a call of it is a StoreCall, for any number of calls and       *)
(* connections and however often the tables vanish.                        *)
EXTENDS StorePool, FiniteSetTheorems, TLAPS

Results == {"none", "ok", "missing", "error", "closed"}

CallRec ==
  [pc : {"new", "lock", "open", "wait", "done"} \cup Working, try : {1, 2},
   conn : Conns \cup {None}, fired : BOOLEAN, ans : {"none", "ok", "missing", "error"},
   res : Results, disturbed : BOOLEAN]

\* TypeOK, a conjunct for each variable.
Types ==
  /\ closed \in BOOLEAN /\ ready \in BOOLEAN /\ tables \in BOOLEAN
  /\ pool \in Calls \cup {None} /\ lock \in Calls \cup {None} /\ alive \subseteq Calls
  /\ closer \in {"none", "drain", "done"}
  /\ conn \in [Conns -> {"none", "idle", "busy"}]
  /\ socket \in [Conns -> {"up", "cut", "dead"}]
  /\ timer \in [Calls -> Conns \cup {None}]
  /\ cancels \subseteq Calls /\ adrift \subseteq Calls
  /\ drops \in 0..MaxDrops
  /\ applied \in [Calls -> Nat]
  /\ call \in [Calls -> CallRec]

LEMMA TypesSame == TypeOK <=> Types
BY DEF TypeOK, Types, CallRec, Results

Works(c) == call[c].pc \in Working

\* A call that works has one busy connection, and the deadline that runs is
\* that connection's.
Holding ==
  \A c \in Calls :
    /\ Works(c) => /\ call[c].conn \in Conns
                   /\ conn[call[c].conn] = "busy"
                   /\ timer[c] = call[c].conn
    /\ ~Works(c) => timer[c] = None /\ ~call[c].fired

\* No two calls work on the same connection.
Exclusive ==
  \A c, d \in Calls : Works(c) /\ Works(d) /\ call[c].conn = call[d].conn => c = d

\* A socket that was cut is in the hands of the call whose deadline did it.
CutHeld ==
  \A k \in Conns : socket[k] = "cut" =>
    \E c \in Calls : Works(c) /\ call[c].conn = k /\ call[c].fired

\* The pools that live are the one in use and the one being opened.
PoolHeld ==
  /\ alive \subseteq {pool, lock} \ {None}
  /\ pool = None \/ lock = None
  /\ closed => pool = None
  /\ \A c \in Calls : lock = c <=> call[c].pc = "open"

\* How far a statement has come by what its call does.
ProgressOf(c) ==
  LET x == call[c]
  IN /\ applied[c] \in {0, 1}
     /\ x.pc = "done" <=> x.res # "none"
     /\ x.pc \notin {"answer", "done"} => applied[c] = 0
     /\ x.pc = "answer" => x.ans # "none" /\ (applied[c] = 1 <=> x.ans = "ok")
     /\ x.res = "ok" => applied[c] = 1
     /\ x.res \in {"missing", "closed"} => applied[c] = 0
     /\ c \in adrift => x.res = "error" /\ applied[c] = 0

Progress == \A c \in Calls : ProgressOf(c)

\* While a call runs undisturbed, tables made by others stay, and in its second
\* try they are there.
UndisturbedOf(c) ==
  LET x == call[c]
  IN /\ InFlight(c) /\ ~x.disturbed =>
          /\ \A d \in Calls : call[d].pc = "made" => tables
          /\ x.try = 2 => /\ ready => tables
                          /\ x.pc = "op" => tables
                          /\ x.pc = "answer" => x.ans # "missing"
     /\ x.pc = "new" => x.try = 1
     /\ x.res = "missing" => x.disturbed

Undisturbed == \A c \in Calls : UndisturbedOf(c)

IInv ==
  /\ Types /\ Holding /\ Exclusive /\ CutHeld
  /\ PoolHeld /\ Progress /\ Undisturbed

-----------------------------------------------------------------------------
(* The operators of the model *)

PCs == {"new", "lock", "open", "wait", "done"} \cup Working

LEMMA NewType == NewCall \in CallRec
BY DEF NewCall, CallRec, Results, Working

\* Only pc changes.
LEMMA PcType ==
  ASSUME NEW x \in CallRec, NEW pc \in PCs
  PROVE  LET y == [x EXCEPT !.pc = pc]
         IN /\ y \in CallRec
            /\ y.pc = pc /\ y.try = x.try /\ y.conn = x.conn /\ y.fired = x.fired
            /\ y.ans = x.ans /\ y.res = x.res /\ y.disturbed = x.disturbed
BY DEF CallRec, PCs

LEMMA EndedType ==
  ASSUME NEW x \in CallRec, NEW res \in Results
  PROVE  /\ Ended(x, res) \in CallRec
         /\ Ended(x, res).pc = "done" /\ Ended(x, res).res = res
         /\ Ended(x, res).conn = None /\ ~Ended(x, res).fired
         /\ Ended(x, res).disturbed = x.disturbed
BY DEF Ended, NewCall, CallRec, Results

LEMMA EnteredType ==
  ASSUME NEW x \in CallRec, closed \in BOOLEAN
  PROVE  /\ Entered(x) \in CallRec
         /\ Entered(x).pc \in {"done", "wait", "lock"}
         /\ Entered(x).pc = "done" => Entered(x).res = "closed"
         /\ Entered(x).pc # "done" => Entered(x).res = x.res
         /\ ~Entered(x).fired
         /\ Entered(x).disturbed = x.disturbed
         /\ Entered(x).pc # "done" => Entered(x).try = x.try
<1>1. CASE closed
  BY <1>1, EndedType DEF Entered, Results
<1>2. CASE ~closed
  BY <1>2 DEF Entered, CallRec
<1> QED BY <1>1, <1>2

LEMMA OfferedType ==
  ASSUME Types, NEW k \in Offered
  PROVE  k \in Conns /\ conn[k] # "busy"
BY DEF Offered, Places, Types

-----------------------------------------------------------------------------
(* What each step makes of its call *)

\* The other calls stay as they are.
Moves(c) ==
  /\ call' \in [Calls -> CallRec]
  /\ \A d \in Calls : d # c => call'[d] = call[d]

\* What a call knows besides where it is and what it was answered.
Keeps(c) ==
  /\ call'[c].try = call[c].try /\ call'[c].conn = call[c].conn
  /\ call'[c].fired = call[c].fired /\ call'[c].disturbed = call[c].disturbed

LEMMA BecomesMoves ==
  ASSUME Types, NEW c \in Calls, NEW x \in CallRec, Becomes(c, x)
  PROVE  Moves(c) /\ call'[c] = x
BY DEF Types, Becomes, Moves

\* Steps that only move pc.
LEMMA PcStep ==
  ASSUME Types, NEW c \in Calls, NEW pc \in PCs,
         Becomes(c, [call[c] EXCEPT !.pc = pc])
  PROVE  /\ Moves(c) /\ Keeps(c) /\ call'[c].pc = pc
         /\ call'[c].ans = call[c].ans /\ call'[c].res = call[c].res
<1> DEFINE y == [call[c] EXCEPT !.pc = pc]
<1>1. call[c] \in CallRec
  BY DEF Types
<1>2. /\ y \in CallRec /\ y.pc = pc /\ y.try = call[c].try /\ y.conn = call[c].conn
      /\ y.fired = call[c].fired /\ y.ans = call[c].ans /\ y.res = call[c].res
      /\ y.disturbed = call[c].disturbed
  BY <1>1, PcType
<1>3. Becomes(c, y)
  OBVIOUS
<1> HIDE DEF y
<1> QED BY <1>2, <1>3, BecomesMoves DEF Keeps

LEMMA AnsStep ==
  ASSUME Types, NEW c \in Calls, NEW ans \in {"none", "ok", "missing", "error"},
         Becomes(c, [call[c] EXCEPT !.pc = "answer", !.ans = ans])
  PROVE  /\ Moves(c) /\ Keeps(c) /\ call'[c].pc = "answer"
         /\ call'[c].ans = ans /\ call'[c].res = call[c].res
<1> DEFINE y == [call[c] EXCEPT !.pc = "answer", !.ans = ans]
<1>1. call[c] \in CallRec
  BY DEF Types
<1>2. /\ y \in CallRec
      /\ y.pc = "answer" /\ y.try = call[c].try /\ y.conn = call[c].conn
      /\ y.fired = call[c].fired /\ y.ans = ans /\ y.res = call[c].res
      /\ y.disturbed = call[c].disturbed
  BY <1>1 DEF CallRec, Working
<1>3. Becomes(c, y)
  OBVIOUS
<1> HIDE DEF y
<1> QED BY <1>2, <1>3, BecomesMoves DEF Keeps

\* A call that ends forgets what it held.
LEMMA EndStep ==
  ASSUME Types, NEW c \in Calls, NEW res \in Results, Becomes(c, Ended(call[c], res))
  PROVE  /\ Moves(c) /\ call'[c].pc = "done" /\ call'[c].res = res
         /\ ~call'[c].fired /\ call'[c].disturbed = call[c].disturbed
<1>1. call[c] \in CallRec
  BY DEF Types
<1> QED BY <1>1, EndedType, BecomesMoves

\* A call that enters, anew or for its second try.
LEMMA EnterStep ==
  ASSUME Types, NEW c \in Calls, NEW x \in CallRec, Becomes(c, Entered(x))
  PROVE  /\ Moves(c) /\ call'[c].pc \in {"done", "wait", "lock"} /\ ~call'[c].fired
         /\ call'[c].disturbed = x.disturbed
         /\ call'[c].pc = "done" => call'[c].res = "closed"
         /\ call'[c].pc # "done" => call'[c].res = x.res /\ call'[c].try = x.try
<1>1. closed \in BOOLEAN
  BY DEF Types
<1> QED BY <1>1, EnteredType, BecomesMoves

LEMMA StartStep ==
  ASSUME Types, NEW c \in Calls, Start(c)
  PROVE  /\ Moves(c) /\ call[c].pc = "new"
         /\ call'[c].pc \in {"done", "wait", "lock"} /\ ~call'[c].fired
         /\ call'[c].pc = "done" => call'[c].res = "closed"
         /\ call'[c].pc # "done" => call'[c].res = call[c].res /\ call'[c].try = call[c].try
         /\ ~call'[c].disturbed => \A d \in Calls : ~InFlight(d)
<1> DEFINE e == \E d \in Calls : InFlight(d)
<1> DEFINE x == [call[c] EXCEPT !.disturbed = e]
<1>1. e \in BOOLEAN
  OBVIOUS
<1>2. call[c] \in CallRec
  BY DEF Types
<1> HIDE DEF e
<1>3. /\ x \in CallRec /\ x.res = call[c].res /\ x.try = call[c].try
      /\ x.disturbed = e
  BY <1>1, <1>2 DEF CallRec
<1>4. Becomes(c, Entered(x)) /\ call[c].pc = "new"
  BY DEF Start, e
<1> HIDE DEF x
<1> QED BY <1>3, <1>4, EnterStep DEF e

LEMMA TakeStep ==
  ASSUME Types, NEW c \in Calls, NEW k \in Conns,
         Becomes(c, [call[c] EXCEPT !.pc = "check", !.conn = k])
  PROVE  /\ Moves(c) /\ call'[c].pc = "check" /\ call'[c].conn = k
         /\ call'[c].fired = call[c].fired /\ call'[c].try = call[c].try
         /\ call'[c].res = call[c].res /\ call'[c].disturbed = call[c].disturbed
<1> DEFINE y == [call[c] EXCEPT !.pc = "check", !.conn = k]
<1>1. call[c] \in CallRec
  BY DEF Types
<1>2. /\ y \in CallRec
      /\ y.pc = "check" /\ y.try = call[c].try /\ y.conn = k
      /\ y.fired = call[c].fired /\ y.res = call[c].res
      /\ y.disturbed = call[c].disturbed
  BY <1>1 DEF CallRec, Working
<1>3. Becomes(c, y)
  OBVIOUS
<1> HIDE DEF y
<1> QED BY <1>2, <1>3, BecomesMoves

\* The connection failed its check.
LEMMA BackStep ==
  ASSUME Types, NEW c \in Calls,
         Becomes(c, [call[c] EXCEPT !.pc = "wait", !.conn = None, !.fired = FALSE])
  PROVE  /\ Moves(c) /\ call'[c].pc = "wait" /\ ~call'[c].fired
         /\ call'[c].try = call[c].try
         /\ call'[c].res = call[c].res /\ call'[c].disturbed = call[c].disturbed
<1> DEFINE y == [call[c] EXCEPT !.pc = "wait", !.conn = None, !.fired = FALSE]
<1>1. call[c] \in CallRec
  BY DEF Types
<1>2. /\ y \in CallRec /\ y.pc = "wait" /\ y.try = call[c].try
      /\ ~y.fired /\ y.res = call[c].res /\ y.disturbed = call[c].disturbed
  BY <1>1 DEF CallRec
<1>3. Becomes(c, y)
  OBVIOUS
<1> HIDE DEF y
<1> QED BY <1>2, <1>3, BecomesMoves

LEMMA CheckedStep ==
  ASSUME Types, NEW c \in Calls, Checked(c)
  PROVE  /\ Moves(c) /\ call[c].pc = "check" /\ call'[c].pc \in {"op", "ddl", "wait"}
         /\ call'[c].pc = "op" => ready
         /\ call'[c].try = call[c].try
         /\ call'[c].res = call[c].res /\ call'[c].disturbed = call[c].disturbed
<1>0. call[c].pc = "check" /\ ready \in BOOLEAN
  BY DEF Checked, Types
<1>1. CASE ready /\ Becomes(c, [call[c] EXCEPT !.pc = "op"])
  BY <1>0, <1>1, PcStep DEF Keeps, PCs, Working
<1>2. CASE ~ready /\ Becomes(c, [call[c] EXCEPT !.pc = "ddl"])
  BY <1>0, <1>2, PcStep DEF Keeps, PCs, Working
<1>3. CASE Becomes(c, [call[c] EXCEPT !.pc = "wait", !.conn = None, !.fired = FALSE])
  BY <1>0, <1>3, BackStep
<1>4. CASE ready
  BY <1>1, <1>3, <1>4 DEF Checked
<1>5. CASE ~ready
  BY <1>2, <1>3, <1>5 DEF Checked
<1> QED BY <1>0, <1>4, <1>5

LEMMA FiredStep ==
  ASSUME Types, NEW c \in Calls, Becomes(c, [call[c] EXCEPT !.fired = TRUE])
  PROVE  /\ Moves(c) /\ call'[c].fired /\ call'[c].pc = call[c].pc
         /\ call'[c].conn = call[c].conn /\ call'[c].try = call[c].try
         /\ call'[c].ans = call[c].ans
         /\ call'[c].res = call[c].res /\ call'[c].disturbed = call[c].disturbed
<1> DEFINE y == [call[c] EXCEPT !.fired = TRUE]
<1>1. call[c] \in CallRec
  BY DEF Types
<1>2. /\ y \in CallRec /\ y.fired /\ y.pc = call[c].pc
      /\ y.conn = call[c].conn /\ y.try = call[c].try /\ y.ans = call[c].ans
      /\ y.res = call[c].res /\ y.disturbed = call[c].disturbed
  BY <1>1 DEF CallRec
<1>3. Becomes(c, y)
  OBVIOUS
<1> HIDE DEF y
<1> QED BY <1>2, <1>3, BecomesMoves

\* The second try, of which nothing was done before.
LEMMA AgainStep ==
  ASSUME Types, NEW c \in Calls,
         Becomes(c, Entered([call[c] EXCEPT !.try = 2, !.ans = "none"]))
  PROVE  /\ Moves(c) /\ call'[c].pc \in {"done", "wait", "lock"} /\ ~call'[c].fired
         /\ call'[c].disturbed = call[c].disturbed
         /\ call'[c].pc = "done" => call'[c].res = "closed"
         /\ call'[c].pc # "done" => call'[c].res = call[c].res
<1> DEFINE x == [call[c] EXCEPT !.try = 2, !.ans = "none"]
<1>1. call[c] \in CallRec
  BY DEF Types
<1>2. x \in CallRec /\ x.res = call[c].res /\ x.disturbed = call[c].disturbed
  BY <1>1 DEF CallRec
<1>3. Becomes(c, Entered(x))
  OBVIOUS
<1> HIDE DEF x
<1> QED BY <1>2, <1>3, EnterStep

LEMMA AnswerStep ==
  ASSUME Types, NEW c \in Calls, Answer(c)
  PROVE  /\ Moves(c) /\ call[c].pc = "answer" /\ ~call'[c].fired
         /\ call'[c].disturbed = call[c].disturbed
         /\ \/ /\ call[c].ans = "missing" /\ ~ready'
               /\ \/ call'[c].pc = "done" /\ call'[c].res = "closed"
                  \/ call'[c].pc \in {"wait", "lock"} /\ call'[c].res = call[c].res
            \/ /\ call'[c].pc = "done" /\ call'[c].res = call[c].ans
               /\ call[c].ans = "missing" => call[c].try = 2
               /\ ready' = ready
<1>1. /\ call[c].ans \in Results /\ call[c].try \in {1, 2}
      /\ call[c].pc = "answer"
  BY DEF Types, CallRec, Results, Answer
<1>2. CASE /\ call[c].ans = "missing" /\ ready' = FALSE
           /\ Becomes(c, Entered([call[c] EXCEPT !.try = 2, !.ans = "none"]))
  BY <1>1, <1>2, AgainStep
<1>3. CASE /\ ~(call[c].ans = "missing" /\ call[c].try = 1) /\ ready' = ready
           /\ Becomes(c, Ended(call[c], call[c].ans))
  BY <1>1, <1>3, EndStep
<1> QED BY <1>2, <1>3 DEF Answer

LEMMA DropStep ==
  ASSUME Types, DropTables
  PROVE  /\ call' \in [Calls -> CallRec]
         /\ \A c \in Calls :
              /\ call'[c].pc = call[c].pc /\ call'[c].conn = call[c].conn
              /\ call'[c].try = call[c].try /\ call'[c].fired = call[c].fired
              /\ call'[c].ans = call[c].ans /\ call'[c].res = call[c].res
              /\ call'[c].disturbed = (call[c].disturbed \/ InFlight(c))
<1>1. \A c \in Calls : call[c] \in CallRec
  BY DEF Types
<1>2. ASSUME NEW c \in Calls
      PROVE  LET y == [call[c] EXCEPT !.disturbed = @ \/ InFlight(c)]
             IN /\ y \in CallRec
                /\ y.pc = call[c].pc /\ y.conn = call[c].conn
                /\ y.try = call[c].try /\ y.fired = call[c].fired
                /\ y.ans = call[c].ans /\ y.res = call[c].res
                /\ y.disturbed = (call[c].disturbed \/ InFlight(c))
  BY <1>1 DEF CallRec, InFlight
<1> QED BY <1>2 DEF DropTables

-----------------------------------------------------------------------------
(* The invariant *)

LEMMA InitIInv == Init => IInv
<1> SUFFICES ASSUME Init PROVE IInv
  OBVIOUS
<1>1. Types
  <2>1. NewCall \in CallRec
    BY NewType
  <2>2. drops \in 0..MaxDrops
    BY DropAssumption DEF Init
  <2> QED BY <2>1, <2>2 DEF Types, Init
<1> USE NoneAssumption DEF Init, NewCall, Works, Working, InFlight
<1>2. Holding /\ Exclusive /\ CutHeld
  BY DEF Holding, Exclusive, CutHeld
<1>3. PoolHeld /\ Progress /\ Undisturbed
  BY DEF PoolHeld, Progress, ProgressOf, Undisturbed, UndisturbedOf
<1> QED BY <1>1, <1>2, <1>3 DEF IInv

\* Every step keeps the types.
LEMMA TypeStep == Types /\ [Next]_vars => Types'
<1> SUFFICES ASSUME Types, [Next]_vars PROVE Types'
  OBVIOUS
<1>0. CASE UNCHANGED vars
  BY <1>0 DEF Types, Moves, PCs, Results, Working, vars, life, wires, server
<1>1. ASSUME NEW c \in Calls, Start(c) PROVE Types'
  BY <1>1, StartStep, NoneAssumption, DropAssumption DEF Types, Moves, PCs,
     Results, Working, Start, life, wires, server
<1>2. ASSUME NEW c \in Calls, OpenPool(c) PROVE Types'
  BY <1>2, PcStep, NoneAssumption, DropAssumption DEF Types, Moves, PCs,
     Results, Working, OpenPool, wires, server
<1>3. ASSUME NEW c \in Calls, Opened(c) PROVE Types'
  BY <1>3, PcStep, EndStep, NoneAssumption, DropAssumption, ZenonT(60) DEF Types, Moves,
     PCs, Results, Working, Opened, wires, server
<1>4. ASSUME NEW c \in Calls, PoolTimeout(c) PROVE Types'
  BY <1>4, EndStep, NoneAssumption, DropAssumption DEF Types, Moves, PCs,
     Results, Working, PoolTimeout, life, wires, server
<1>5. ASSUME NEW c \in Calls, Deadline(c) PROVE Types'
  BY <1>5, FiredStep, NoneAssumption, DropAssumption DEF Types, Moves, PCs,
     Results, Working, Deadline, life, server
<1>6. ASSUME NEW c \in Calls, TakeConn(c) PROVE Types'
  <2>1. PICK k \in Offered :
          /\ conn' = [conn EXCEPT ![k] = "busy"]
          /\ timer' = [timer EXCEPT ![c] = k]
          /\ Becomes(c, [call[c] EXCEPT !.pc = "check", !.conn = k])
    BY <1>6 DEF TakeConn
  <2>2. k \in Conns
    BY OfferedType
  <2>3. call' \in [Calls -> CallRec]
    BY <2>1, <2>2, TakeStep DEF Moves
  <2> QED BY <1>6, <2>1, <2>2, <2>3 DEF TakeConn, Types, life, server
<1>7. ASSUME NEW c \in Calls, Checked(c) PROVE Types'
  BY <1>7, PcStep, BackStep, NoneAssumption, DropAssumption, ZenonT(60) DEF Types,
     Moves, PCs, Results, Working, Checked, Discard, StopTimer, life, wires,
     server
<1>8. ASSUME NEW c \in Calls, Ddl(c) PROVE Types'
  BY <1>8, PcStep, NoneAssumption, DropAssumption DEF Types, Moves, PCs,
     Results, Working, Ddl, life, wires
<1>9. ASSUME NEW c \in Calls, DdlHeard(c) PROVE Types'
  BY <1>9, PcStep, NoneAssumption, DropAssumption DEF Types, Moves, PCs,
     Results, Working, DdlHeard, life, wires, server
<1>10. ASSUME NEW c \in Calls, Op(c) PROVE Types'
  <2>1. applied' \in [Calls -> Nat]
    BY <1>10 DEF Op, Effect, Types
  <2>2. call' \in [Calls -> CallRec]
    BY <1>10, AnsStep DEF Op, Moves
  <2> QED BY <1>10, <2>1, <2>2 DEF Op, Types, life, wires
<1>11. ASSUME NEW c \in Calls, Refused(c) PROVE Types'
  BY <1>11, AnsStep, NoneAssumption, DropAssumption DEF Types, Moves, PCs,
     Results, Working, Refused, life, wires, server
<1>12. ASSUME NEW c \in Calls, Answer(c) PROVE Types'
  <2>1. call[c].ans \in Results
    BY DEF Types, CallRec, Results
  <2>2. call' \in [Calls -> CallRec] /\ ready' \in BOOLEAN
    BY <1>12, <2>1, AgainStep, EndStep DEF Answer, Moves, Types
  <2>3. /\ conn' \in [Conns -> {"none", "idle", "busy"}]
        /\ socket' \in [Conns -> {"up", "cut", "dead"}]
    BY <1>12 DEF Answer, HandBack, Discard, Types
  <2>4. timer' \in [Calls -> Conns \cup {None}]
    BY <1>12 DEF Answer, StopTimer, Types
  <2> QED BY <1>12, <2>2, <2>3, <2>4 DEF Answer, Types, life, server
<1>13. ASSUME NEW c \in Calls, Fail(c) PROVE Types'
  BY <1>13, EndStep, NoneAssumption, DropAssumption DEF Types, Moves, PCs,
     Results, Working, Fail, Discard, StopTimer, life
<1>14. ASSUME NEW c \in Calls, CancelEnds(c) PROVE Types'
  BY <1>14, NoneAssumption, DropAssumption DEF Types, Moves, PCs, Results,
     Working, CancelEnds, life, wires, server
<1>15. ASSUME NEW c \in Calls, LateEffect(c) PROVE Types'
  BY <1>15, NoneAssumption, DropAssumption DEF Types, Moves, PCs, Results,
     Working, LateEffect, Effect, life, wires
<1>16. ASSUME NEW k \in Conns, Break(k) PROVE Types'
  BY <1>16, NoneAssumption, DropAssumption DEF Types, Moves, PCs, Results,
     Working, Break, life, server
<1>17. CASE DropTables
  <2>1. call' \in [Calls -> CallRec]
    BY <1>17, DropStep
  <2>2. drops' \in 0..MaxDrops
    BY <1>17, DropAssumption DEF DropTables, Types
  <2> QED BY <1>17, <2>1, <2>2 DEF DropTables, Types, life, wires
<1>18. CASE Close
  BY <1>18, NoneAssumption, DropAssumption DEF Types, Moves, PCs, Results,
     Working, Close, server
<1>19. CASE Drain
  BY <1>19, NoneAssumption, DropAssumption DEF Types, Moves, PCs, Results,
     Working, Drain, wires, server
<1> QED
  BY <1>0, <1>1, <1>2, <1>3, <1>4, <1>5, <1>6, <1>7, <1>8, <1>9, <1>10,
     <1>11, <1>12, <1>13, <1>14, <1>15, <1>16, <1>17, <1>18, <1>19 DEF Next

-----------------------------------------------------------------------------
(* Connections: each step by what it does with one *)

Wired == Holding /\ Exclusive /\ CutHeld

\* A call without a connection stays without one.
LEMMA IdleWired ==
  ASSUME Types, Wired, NEW c \in Calls, Moves(c), UNCHANGED wires,
         ~Works(c), ~Works(c)', ~call'[c].fired
  PROVE  Wired'
BY DEF Wired, Holding, Exclusive, CutHeld, Works, Moves, wires, Types

\* A call goes on working on the connection it has.
LEMMA BusyWired ==
  ASSUME Types, Wired, NEW c \in Calls, Moves(c), UNCHANGED wires,
         Works(c), Works(c)',
         call'[c].conn = call[c].conn, call'[c].fired = call[c].fired
  PROVE  Wired'
BY DEF Wired, Holding, Exclusive, CutHeld, Works, Moves, wires, Types

\* A call lets go of its connection, and a socket that was cut is gone.
LEMMA ReleaseWired ==
  ASSUME Types, Wired, NEW c \in Calls, Moves(c),
         Works(c), ~Works(c)', ~call'[c].fired, StopTimer(c),
         conn'[call[c].conn] \in {"none", "idle"}, socket'[call[c].conn] # "cut",
         \A k \in Conns : k # call[c].conn => conn'[k] = conn[k] /\ socket'[k] = socket[k]
  PROVE  Wired'
<1> USE DEF Wired
<1>1. Holding'
  BY DEF Holding, Exclusive, Works, Moves, StopTimer, Types
<1>2. Exclusive'
  BY DEF Exclusive, Works, Moves
<1>3. CutHeld'
  BY DEF CutHeld, Holding, Works, Moves, Types
<1> QED BY <1>1, <1>2, <1>3

\* What is known about the calls and the sockets is not touched.
LEMMA SameWired ==
  ASSUME Wired, UNCHANGED wires,
         \A c \in Calls : /\ call'[c].pc = call[c].pc /\ call'[c].conn = call[c].conn
                          /\ call'[c].fired = call[c].fired
  PROVE  Wired'
BY DEF Wired, Holding, Exclusive, CutHeld, Works, wires

LEMMA TakeWired ==
  ASSUME Types, Wired, NEW c \in Calls, TakeConn(c)
  PROVE  Wired'
<1>1. PICK k \in Offered :
        /\ conn' = [conn EXCEPT ![k] = "busy"]
        /\ timer' = [timer EXCEPT ![c] = k]
        /\ Becomes(c, [call[c] EXCEPT !.pc = "check", !.conn = k])
  BY DEF TakeConn
<1>2. k \in Conns /\ conn[k] # "busy" /\ socket' = socket /\ ~Works(c)
  BY OfferedType DEF TakeConn, Works, Working
<1>3. Moves(c) /\ call'[c].conn = k /\ call'[c].fired = call[c].fired /\ Works(c)'
  BY <1>1, <1>2, TakeStep DEF Works, Working
<1>4. \A d \in Calls : Works(d) => call[d].conn # k
  BY <1>2 DEF Wired, Holding
<1>5. Holding'
  BY <1>1, <1>2, <1>3, <1>4 DEF Wired, Holding, Works, Moves, Types
<1>6. Exclusive'
  BY <1>3, <1>4 DEF Wired, Exclusive, Works, Moves
<1>7. CutHeld'
  BY <1>2, <1>3 DEF Wired, CutHeld, Works, Moves
<1> QED BY <1>5, <1>6, <1>7 DEF Wired

LEMMA DeadlineWired ==
  ASSUME Types, Wired, NEW c \in Calls, Deadline(c)
  PROVE  Wired'
<1>1. /\ Works(c) /\ call[c].conn = timer[c] /\ timer[c] \in Conns
      /\ conn' = conn /\ timer' = timer
      /\ socket' = [socket EXCEPT ![timer[c]] = "cut"]
  BY DEF Deadline, Wired, Holding
<1>2. Moves(c) /\ Works(c)' /\ call'[c].fired /\ call'[c].conn = call[c].conn
  BY <1>1, FiredStep DEF Deadline, Works
<1>3. Holding' /\ Exclusive'
  BY <1>1, <1>2 DEF Wired, Holding, Exclusive, Works, Moves
<1>4. CutHeld'
  BY <1>1, <1>2 DEF Wired, CutHeld, Works, Moves, Types
<1> QED BY <1>3, <1>4 DEF Wired

LEMMA CheckedWired ==
  ASSUME Types, Wired, NEW c \in Calls, Checked(c)
  PROVE  Wired'
<1>1. Works(c)
  BY DEF Checked, Works, Working
<1>2. CASE /\ Becomes(c, [call[c] EXCEPT !.pc = IF ready THEN "op" ELSE "ddl"])
           /\ UNCHANGED wires
  BY <1>1, <1>2, PcStep, BusyWired DEF Keeps, PCs, Works, Working
<1>3. CASE /\ Discard(call[c].conn) /\ StopTimer(c)
           /\ Becomes(c, [call[c] EXCEPT !.pc = "wait", !.conn = None, !.fired = FALSE])
  <2>1. Moves(c) /\ ~Works(c)' /\ ~call'[c].fired
    BY <1>3, BackStep DEF Works, Working
  <2>2. call[c].conn \in Conns
    BY <1>1 DEF Wired, Holding
  <2> QED BY <1>1, <1>3, <2>1, <2>2, ReleaseWired DEF Discard, Types
<1> QED BY <1>2, <1>3 DEF Checked

LEMMA FailWired ==
  ASSUME Types, Wired, NEW c \in Calls, Fail(c)
  PROVE  Wired'
<1>1. Works(c) /\ Discard(call[c].conn) /\ StopTimer(c)
  BY DEF Fail, Works
<1>2. Moves(c) /\ ~Works(c)' /\ ~call'[c].fired
  BY EndStep DEF Fail, Works, Working, Results
<1>3. call[c].conn \in Conns
  BY <1>1 DEF Wired, Holding
<1> QED BY <1>1, <1>2, <1>3, ReleaseWired DEF Discard, Types

\* An answer crossed by the cut does not save the connection.
LEMMA AnswerWired ==
  ASSUME Types, Wired, NEW c \in Calls, Answer(c)
  PROVE  Wired'
<1>1. Works(c) /\ HandBack(c) /\ StopTimer(c)
  BY DEF Answer, Works, Working
<1>3. Moves(c) /\ ~Works(c)' /\ ~call'[c].fired
  BY AnswerStep DEF Works, Working
<1>4. call[c].conn \in Conns
  BY <1>1 DEF Wired, Holding
<1>5. socket[call[c].conn] = "cut" => call[c].fired
  BY <1>1, <1>4 DEF Wired, CutHeld, Exclusive
<1>6. /\ conn'[call[c].conn] \in {"none", "idle"} /\ socket'[call[c].conn] # "cut"
      /\ \A k \in Conns : k # call[c].conn => conn'[k] = conn[k] /\ socket'[k] = socket[k]
  BY <1>1, <1>4, <1>5 DEF HandBack, Discard, Types
<1> QED BY <1>1, <1>3, <1>6, ReleaseWired

\* A call has its connection from the moment the pool hands it out until it is
\* handed back or discarded.
LEMMA WiredStep == Types /\ Wired /\ [Next]_vars => Wired'
<1> SUFFICES ASSUME Types, Wired, [Next]_vars PROVE Wired'
  OBVIOUS
<1>0. CASE UNCHANGED vars
  BY <1>0 DEF Wired, Holding, Exclusive, CutHeld, Works, vars, life, wires,
     server
<1>1. ASSUME NEW c \in Calls, Start(c) PROVE Wired'
  <2>1. ~Works(c) /\ UNCHANGED wires
    BY <1>1 DEF Start, Works, Working
  <2>2. Moves(c) /\ ~Works(c)' /\ ~call'[c].fired
    BY <1>1, <2>1, StartStep DEF Start, Works, Working, Keeps, PCs, Results
  <2> QED BY <2>1, <2>2, IdleWired
<1>2. ASSUME NEW c \in Calls, OpenPool(c) PROVE Wired'
  <2>1. ~Works(c) /\ ~call[c].fired /\ UNCHANGED wires
    BY <1>2 DEF OpenPool, Works, Working, Wired, Holding
  <2>2. CASE Becomes(c, [call[c] EXCEPT !.pc = "open"])
    <3>1. Moves(c) /\ Keeps(c) /\ call'[c].pc = "open"
      BY <2>2, PcStep DEF PCs
    <3> QED BY <2>1, <3>1, IdleWired DEF Works, Working, Keeps
  <2>3. CASE Becomes(c, [call[c] EXCEPT !.pc = "wait"])
    <3>1. Moves(c) /\ Keeps(c) /\ call'[c].pc = "wait"
      BY <2>3, PcStep DEF PCs
    <3> QED BY <2>1, <3>1, IdleWired DEF Works, Working, Keeps
  <2> QED BY <1>2, <2>2, <2>3 DEF OpenPool
<1>3. ASSUME NEW c \in Calls, Opened(c) PROVE Wired'
  <2>1. ~Works(c) /\ ~call[c].fired /\ UNCHANGED wires
    BY <1>3 DEF Opened, Works, Working, Wired, Holding
  <2>2. CASE Becomes(c, Ended(call[c], "closed"))
    BY <2>1, <2>2, EndStep, IdleWired DEF Works, Working, Results
  <2>3. CASE Becomes(c, [call[c] EXCEPT !.pc = "wait"])
    <3>1. Moves(c) /\ Keeps(c) /\ call'[c].pc = "wait"
      BY <2>3, PcStep DEF PCs
    <3> QED BY <2>1, <3>1, IdleWired DEF Works, Working, Keeps
  <2> QED BY <1>3, <2>2, <2>3 DEF Opened
<1>4. ASSUME NEW c \in Calls, PoolTimeout(c) PROVE Wired'
  <2>1. ~Works(c) /\ UNCHANGED wires
    BY <1>4 DEF PoolTimeout, Works, Working
  <2>2. Moves(c) /\ ~Works(c)' /\ ~call'[c].fired
    BY <1>4, <2>1, EndStep DEF PoolTimeout, Works, Working, Keeps, PCs, Results
  <2> QED BY <2>1, <2>2, IdleWired
<1>5. ASSUME NEW c \in Calls, Deadline(c) PROVE Wired'
  BY <1>5, DeadlineWired
<1>6. ASSUME NEW c \in Calls, TakeConn(c) PROVE Wired'
  BY <1>6, TakeWired
<1>7. ASSUME NEW c \in Calls, Checked(c) PROVE Wired'
  BY <1>7, CheckedWired
<1>8. ASSUME NEW c \in Calls, Ddl(c) PROVE Wired'
  <2>1. Works(c) /\ UNCHANGED wires
    BY <1>8 DEF Ddl, Works, Working
  <2>2. /\ Moves(c) /\ Works(c)'
        /\ call'[c].conn = call[c].conn /\ call'[c].fired = call[c].fired
    BY <1>8, PcStep DEF Ddl, Works, Working, Keeps, PCs
  <2> QED BY <2>1, <2>2, BusyWired
<1>9. ASSUME NEW c \in Calls, DdlHeard(c) PROVE Wired'
  <2>1. Works(c) /\ UNCHANGED wires
    BY <1>9 DEF DdlHeard, Works, Working
  <2>2. /\ Moves(c) /\ Works(c)'
        /\ call'[c].conn = call[c].conn /\ call'[c].fired = call[c].fired
    BY <1>9, PcStep DEF DdlHeard, Works, Working, Keeps, PCs
  <2> QED BY <2>1, <2>2, BusyWired
<1>10. ASSUME NEW c \in Calls, Op(c) PROVE Wired'
  <2>1. Works(c) /\ UNCHANGED wires
    BY <1>10 DEF Op, Works, Working
  <2>2. /\ Moves(c) /\ Works(c)'
        /\ call'[c].conn = call[c].conn /\ call'[c].fired = call[c].fired
    BY <1>10, AnsStep DEF Op, Works, Working, Keeps, PCs
  <2> QED BY <2>1, <2>2, BusyWired
<1>11. ASSUME NEW c \in Calls, Refused(c) PROVE Wired'
  <2>1. Works(c) /\ UNCHANGED wires
    BY <1>11 DEF Refused, Works, Working
  <2>2. /\ Moves(c) /\ Works(c)'
        /\ call'[c].conn = call[c].conn /\ call'[c].fired = call[c].fired
    BY <1>11, AnsStep DEF Refused, Works, Working, Keeps, PCs
  <2> QED BY <2>1, <2>2, BusyWired
<1>12. ASSUME NEW c \in Calls, Answer(c) PROVE Wired'
  BY <1>12, AnswerWired
<1>13. ASSUME NEW c \in Calls, Fail(c) PROVE Wired'
  BY <1>13, FailWired
<1>14. ASSUME NEW c \in Calls, CancelEnds(c) PROVE Wired'
  BY <1>14, SameWired DEF CancelEnds
<1>15. ASSUME NEW c \in Calls, LateEffect(c) PROVE Wired'
  BY <1>15, SameWired DEF LateEffect
<1>16. ASSUME NEW k \in Conns, Break(k) PROVE Wired'
  BY <1>16 DEF Break, Wired, Holding, Exclusive, CutHeld, Works, Types
<1>17. CASE DropTables
  BY <1>17, DropStep, SameWired DEF DropTables
<1>18. CASE Close
  BY <1>18 DEF Close, Wired, Holding, Exclusive, CutHeld, Works, Types
<1>19. CASE Drain
  BY <1>19, SameWired DEF Drain
<1> QED
  BY <1>0, <1>1, <1>2, <1>3, <1>4, <1>5, <1>6, <1>7, <1>8, <1>9, <1>10,
     <1>11, <1>12, <1>13, <1>14, <1>15, <1>16, <1>17, <1>18, <1>19 DEF Next

-----------------------------------------------------------------------------
(* The pool *)

LEMMA SamePool ==
  ASSUME PoolHeld, NEW c \in Calls, Moves(c), UNCHANGED life,
         call[c].pc # "open", call'[c].pc # "open"
  PROVE  PoolHeld'
BY DEF PoolHeld, Moves, life

LEMMA OpenPoolHeld ==
  ASSUME Types, PoolHeld, NEW c \in Calls, OpenPool(c)
  PROVE  PoolHeld'
<1>1. call[c].pc = "lock" /\ lock = None /\ pool' = pool /\ closed' = closed
  BY DEF OpenPool
<1>2. CASE /\ pool = None /\ lock' = c /\ alive' = alive \cup {c}
           /\ Becomes(c, [call[c] EXCEPT !.pc = "open"])
  <2>1. Moves(c) /\ call'[c].pc = "open"
    BY <1>2, PcStep DEF PCs
  <2> QED BY <1>1, <1>2, <2>1, NoneAssumption DEF PoolHeld, Moves
<1>3. CASE /\ Becomes(c, [call[c] EXCEPT !.pc = "wait"])
           /\ UNCHANGED <<lock, alive>>
  <2>1. Moves(c) /\ call'[c].pc = "wait"
    BY <1>3, PcStep DEF PCs
  <2> QED BY <1>1, <1>3, <2>1 DEF PoolHeld, Moves
<1> QED BY <1>2, <1>3 DEF OpenPool

\* A pool that opened into a store that was closed meanwhile is closed too.
LEMMA OpenedHeld ==
  ASSUME Types, PoolHeld, NEW c \in Calls, Opened(c)
  PROVE  PoolHeld'
<1>1. call[c].pc = "open" /\ lock = c /\ pool = None /\ lock' = None /\ closed' = closed
  BY NoneAssumption DEF Opened, PoolHeld
<1>2. Moves(c) /\ call'[c].pc # "open"
  BY PcStep, EndStep DEF Opened, PCs, Results
<1>3. \A d \in Calls : call'[d].pc # "open" /\ lock' # d
  BY <1>1, <1>2, NoneAssumption DEF PoolHeld, Moves
<1>4. CASE closed /\ alive' = alive \ {c} /\ pool' = pool
  BY <1>1, <1>3, <1>4 DEF PoolHeld
<1>5. CASE ~closed /\ pool' = c /\ alive' = alive
  BY <1>1, <1>3, <1>5, NoneAssumption DEF PoolHeld
<1> QED BY <1>4, <1>5 DEF Opened

\* At most one pool is in use or being opened, and a closed store keeps none.
LEMMA PoolStep == Types /\ PoolHeld /\ [Next]_vars => PoolHeld'
<1> SUFFICES ASSUME Types, PoolHeld, [Next]_vars PROVE PoolHeld'
  OBVIOUS
<1>0. CASE UNCHANGED vars
  BY <1>0 DEF PoolHeld, vars, life, wires, server
<1>1. ASSUME NEW c \in Calls, Start(c) PROVE PoolHeld'
  <2>1. Moves(c) /\ call[c].pc # "open" /\ call'[c].pc # "open"
    BY <1>1, StartStep DEF Start, PCs, Results, Working
  <2> QED BY <1>1, <2>1, SamePool DEF Start
<1>2. ASSUME NEW c \in Calls, OpenPool(c) PROVE PoolHeld'
  BY <1>2, OpenPoolHeld
<1>3. ASSUME NEW c \in Calls, Opened(c) PROVE PoolHeld'
  BY <1>3, OpenedHeld
<1>4. ASSUME NEW c \in Calls, PoolTimeout(c) PROVE PoolHeld'
  <2>1. Moves(c) /\ call[c].pc # "open" /\ call'[c].pc # "open"
    BY <1>4, EndStep DEF PoolTimeout, PCs, Results, Working
  <2> QED BY <1>4, <2>1, SamePool DEF PoolTimeout
<1>5. ASSUME NEW c \in Calls, Deadline(c) PROVE PoolHeld'
  <2>1. Moves(c) /\ call'[c].pc = call[c].pc
    BY <1>5, FiredStep DEF Deadline
  <2> QED BY <1>5, <2>1 DEF Deadline, PoolHeld, Moves, life
<1>6. ASSUME NEW c \in Calls, TakeConn(c) PROVE PoolHeld'
  <2>1. Moves(c) /\ call[c].pc # "open" /\ call'[c].pc # "open"
    BY <1>6, TakeStep, OfferedType DEF TakeConn
  <2> QED BY <1>6, <2>1, SamePool DEF TakeConn
<1>7. ASSUME NEW c \in Calls, Checked(c) PROVE PoolHeld'
  <2>1. Moves(c) /\ call[c].pc # "open" /\ call'[c].pc # "open"
    BY <1>7, CheckedStep DEF Checked, PCs, Results, Working
  <2> QED BY <1>7, <2>1, SamePool DEF Checked
<1>8. ASSUME NEW c \in Calls, Ddl(c) PROVE PoolHeld'
  <2>1. Moves(c) /\ call[c].pc # "open" /\ call'[c].pc # "open"
    BY <1>8, PcStep, ZenonT(60) DEF Ddl, PCs, Results, Working
  <2> QED BY <1>8, <2>1, SamePool DEF Ddl
<1>9. ASSUME NEW c \in Calls, DdlHeard(c) PROVE PoolHeld'
  <2>1. Moves(c) /\ call[c].pc # "open" /\ call'[c].pc # "open"
    BY <1>9, PcStep DEF DdlHeard, PCs, Results, Working
  <2> QED BY <1>9, <2>1, SamePool DEF DdlHeard
<1>10. ASSUME NEW c \in Calls, Op(c) PROVE PoolHeld'
  <2>1. Moves(c) /\ call[c].pc # "open" /\ call'[c].pc # "open"
    BY <1>10, AnsStep DEF Op, PCs, Results, Working
  <2> QED BY <1>10, <2>1, SamePool DEF Op
<1>11. ASSUME NEW c \in Calls, Refused(c) PROVE PoolHeld'
  <2>1. Moves(c) /\ call[c].pc # "open" /\ call'[c].pc # "open"
    BY <1>11, AnsStep DEF Refused, PCs, Results, Working
  <2> QED BY <1>11, <2>1, SamePool DEF Refused
<1>12. ASSUME NEW c \in Calls, Answer(c) PROVE PoolHeld'
  <2>1. Moves(c) /\ call[c].pc # "open" /\ call'[c].pc # "open"
    BY <1>12, AnswerStep DEF Answer, PCs, Results, Working
  <2> QED BY <1>12, <2>1, SamePool DEF Answer
<1>13. ASSUME NEW c \in Calls, Fail(c) PROVE PoolHeld'
  <2>1. Moves(c) /\ call[c].pc # "open" /\ call'[c].pc # "open"
    BY <1>13, EndStep DEF Fail, PCs, Results, Working
  <2> QED BY <1>13, <2>1, SamePool DEF Fail
<1>14. ASSUME NEW c \in Calls, CancelEnds(c) PROVE PoolHeld'
  BY <1>14 DEF CancelEnds, PoolHeld, life
<1>15. ASSUME NEW c \in Calls, LateEffect(c) PROVE PoolHeld'
  BY <1>15 DEF LateEffect, PoolHeld, life
<1>16. ASSUME NEW k \in Conns, Break(k) PROVE PoolHeld'
  BY <1>16 DEF Break, PoolHeld, life
<1>17. CASE DropTables
  BY <1>17, DropStep DEF DropTables, PoolHeld, life
<1>18. CASE Close
  BY <1>18, NoneAssumption DEF Close, PoolHeld
<1>19. CASE Drain
  BY <1>19 DEF Drain, PoolHeld
<1> QED
  BY <1>0, <1>1, <1>2, <1>3, <1>4, <1>5, <1>6, <1>7, <1>8, <1>9, <1>10,
     <1>11, <1>12, <1>13, <1>14, <1>15, <1>16, <1>17, <1>18, <1>19 DEF Next

-----------------------------------------------------------------------------
(* Statements *)

LEMMA OneProgress ==
  ASSUME Progress, NEW c \in Calls, Moves(c), ProgressOf(c)',
         \A d \in Calls : d # c =>
           applied'[d] = applied[d] /\ (d \in adrift' <=> d \in adrift)
  PROVE  Progress'
BY DEF Progress, ProgressOf, Moves

LEMMA ProgressOfNow ==
  ASSUME Progress, NEW c \in Calls
  PROVE  ProgressOf(c)
BY DEF Progress

\* A statement takes effect once, by the server or late, and not at all if the
\* call was refused.
LEMMA ProgressStep == Types /\ Progress /\ [Next]_vars => Progress'
<1> SUFFICES ASSUME Types, Progress, [Next]_vars PROVE Progress'
  OBVIOUS
<1>0. CASE UNCHANGED vars
  BY <1>0 DEF Progress, ProgressOf, vars, life, wires, server
<1>1. ASSUME NEW c \in Calls, Start(c) PROVE Progress'
  <2>1. Moves(c) /\ ProgressOf(c)'
    BY <1>1, StartStep, ProgressOfNow DEF Start, ProgressOf, server
  <2> QED BY <1>1, <2>1, OneProgress DEF Start, server
<1>2. ASSUME NEW c \in Calls, OpenPool(c) PROVE Progress'
  <2>1. Moves(c) /\ ProgressOf(c)'
    BY <1>2, PcStep, ProgressOfNow DEF OpenPool, ProgressOf, server, PCs
  <2> QED BY <1>2, <2>1, OneProgress DEF OpenPool, server
<1>3. ASSUME NEW c \in Calls, Opened(c) PROVE Progress'
  <2>1. Moves(c) /\ ProgressOf(c)'
    BY <1>3, PcStep, EndStep, ProgressOfNow DEF Opened, ProgressOf, server, PCs, Results
  <2> QED BY <1>3, <2>1, OneProgress DEF Opened, server
<1>4. ASSUME NEW c \in Calls, PoolTimeout(c) PROVE Progress'
  <2>1. Moves(c) /\ ProgressOf(c)'
    BY <1>4, EndStep, ProgressOfNow DEF PoolTimeout, ProgressOf, server, Results
  <2> QED BY <1>4, <2>1, OneProgress DEF PoolTimeout, server
<1>5. ASSUME NEW c \in Calls, Deadline(c) PROVE Progress'
  <2>1. Moves(c) /\ ProgressOf(c)'
    BY <1>5, FiredStep, ProgressOfNow DEF Deadline, ProgressOf, server
  <2> QED BY <1>5, <2>1, OneProgress DEF Deadline, server
<1>6. ASSUME NEW c \in Calls, TakeConn(c) PROVE Progress'
  <2>1. Moves(c) /\ ProgressOf(c)'
    BY <1>6, TakeStep, OfferedType, ProgressOfNow DEF TakeConn, ProgressOf, server
  <2> QED BY <1>6, <2>1, OneProgress DEF TakeConn, server
<1>7. ASSUME NEW c \in Calls, Checked(c) PROVE Progress'
  <2>1. Moves(c) /\ ProgressOf(c)'
    BY <1>7, CheckedStep, ProgressOfNow DEF Checked, ProgressOf, server
  <2> QED BY <1>7, <2>1, OneProgress DEF Checked, server
<1>8. ASSUME NEW c \in Calls, Ddl(c) PROVE Progress'
  <2>1. Moves(c) /\ call[c].pc = "ddl" /\ call'[c].pc = "made" /\ call'[c].res = call[c].res
    BY <1>8, PcStep DEF Ddl, PCs, Working
  <2>2. ProgressOf(c)'
    BY <1>8, <2>1, ProgressOfNow DEF Ddl, ProgressOf, server
  <2> QED BY <1>8, <2>1, <2>2, OneProgress DEF Ddl, server
<1>9. ASSUME NEW c \in Calls, DdlHeard(c) PROVE Progress'
  <2>1. Moves(c) /\ call[c].pc = "made" /\ call'[c].pc = "op" /\ call'[c].res = call[c].res
    BY <1>9, PcStep DEF DdlHeard, PCs, Working
  <2>2. ProgressOf(c)'
    BY <1>9, <2>1, ProgressOfNow DEF DdlHeard, ProgressOf, server
  <2> QED BY <1>9, <2>1, <2>2, OneProgress DEF DdlHeard, server
<1>10. ASSUME NEW c \in Calls, Op(c) PROVE Progress'
  <2>1. Moves(c) /\ call[c].pc = "op" /\ call'[c].pc = "answer" /\ call'[c].res = call[c].res
    BY <1>10, AnsStep DEF Op
  <2>2. \/ call'[c].ans = "ok" /\ Effect(c)
        \/ call'[c].ans = "missing" /\ applied' = applied
    BY <1>10, AnsStep DEF Op
  <2>3. applied[c] = 0 /\ c \notin adrift /\ adrift' = adrift /\ call[c].res = "none"
    BY <1>10, <2>1, ProgressOfNow DEF Op, ProgressOf
  <2>4. \/ call'[c].ans = "ok" /\ applied'[c] = 1
        \/ call'[c].ans = "missing" /\ applied'[c] = 0
    BY <2>2, <2>3 DEF Effect, Types
  <2>5. ProgressOf(c)'
    BY <2>1, <2>3, <2>4 DEF ProgressOf
  <2> QED BY <2>1, <2>2, <2>3, <2>5, OneProgress DEF Effect, Types
<1>11. ASSUME NEW c \in Calls, Refused(c) PROVE Progress'
  <2>1. /\ Moves(c) /\ call[c].pc \in {"ddl", "op"} /\ call'[c].pc = "answer"
        /\ call'[c].res = call[c].res /\ call'[c].ans = "error"
    BY <1>11, AnsStep DEF Refused
  <2>2. ProgressOf(c)'
    BY <1>11, <2>1, ProgressOfNow DEF Refused, ProgressOf, server
  <2> QED BY <1>11, <2>1, <2>2, OneProgress DEF Refused, server
<1>12. ASSUME NEW c \in Calls, Answer(c) PROVE Progress'
  <2>1. Moves(c) /\ ProgressOf(c)'
    BY <1>12, AnswerStep, ProgressOfNow, ZenonT(60) DEF Answer, ProgressOf, server
  <2> QED BY <1>12, <2>1, OneProgress DEF Answer, server
<1>13. ASSUME NEW c \in Calls, Fail(c) PROVE Progress'
  <2>1. Moves(c) /\ ProgressOf(c)'
    BY <1>13, EndStep, ProgressOfNow DEF Fail, ProgressOf, Results, Working
  <2> QED BY <1>13, <2>1, OneProgress DEF Fail
<1>14. ASSUME NEW c \in Calls, CancelEnds(c) PROVE Progress'
  BY <1>14 DEF CancelEnds, Progress, ProgressOf, server
<1>15. ASSUME NEW c \in Calls, LateEffect(c) PROVE Progress'
  <2>1. /\ call' = call /\ adrift' = adrift \ {c} /\ c \in adrift
        /\ \/ Effect(c)
           \/ applied' = applied
    BY <1>15 DEF LateEffect
  <2>2. call[c].res = "error" /\ applied[c] = 0 /\ call[c].pc = "done"
    BY <2>1, ProgressOfNow DEF ProgressOf
  <2>3. applied'[c] \in {0, 1} /\ \A d \in Calls : d # c => applied'[d] = applied[d]
    BY <2>1, <2>2 DEF Effect, Types
  <2>4. ProgressOf(c)'
    BY <2>1, <2>2, <2>3, ProgressOfNow DEF ProgressOf
  <2>5. Moves(c)
    BY <2>1 DEF Moves, Types
  <2> QED BY <2>1, <2>3, <2>4, <2>5, OneProgress
<1>16. ASSUME NEW k \in Conns, Break(k) PROVE Progress'
  BY <1>16 DEF Break, Progress, ProgressOf, server
<1>17. CASE DropTables
  <2>1. /\ applied' = applied /\ adrift' = adrift
        /\ \A c \in Calls : /\ call'[c].pc = call[c].pc /\ call'[c].res = call[c].res
                           /\ call'[c].ans = call[c].ans
    BY <1>17, DropStep DEF DropTables
  <2> QED BY <2>1 DEF Progress, ProgressOf
<1>18. CASE Close
  BY <1>18 DEF Close, Progress, ProgressOf, server
<1>19. CASE Drain
  BY <1>19 DEF Drain, Progress, ProgressOf, server
<1> QED
  BY <1>0, <1>1, <1>2, <1>3, <1>4, <1>5, <1>6, <1>7, <1>8, <1>9, <1>10,
     <1>11, <1>12, <1>13, <1>14, <1>15, <1>16, <1>17, <1>18, <1>19 DEF Next

-----------------------------------------------------------------------------
(* Tables that vanish *)

LEMMA UndisturbedNow ==
  ASSUME Undisturbed, NEW c \in Calls
  PROVE  UndisturbedOf(c)
BY DEF Undisturbed

\* A step of one call that neither makes tables nor unmakes them, nor learns
\* that they are there, unless it was the one that made them.
LEMMA OneUndisturbed ==
  ASSUME Undisturbed, NEW c \in Calls, Moves(c), UndisturbedOf(c)',
         tables' = tables,
         ready' => ready \/ call[c].pc = "made",
         call'[c].pc # "made" \/ call[c].pc = "made"
  PROVE  Undisturbed'
BY DEF Undisturbed, UndisturbedOf, Moves, InFlight

LEMMA StartUndisturbed ==
  ASSUME Types, Progress, Undisturbed, NEW c \in Calls, Start(c)
  PROVE  Undisturbed'
<1>1. tables' = tables /\ ready' = ready
  BY DEF Start, server
<1>2. UndisturbedOf(c) /\ ProgressOf(c)
  BY UndisturbedNow, ProgressOfNow
<1>3. ~call'[c].disturbed => \A d \in Calls : call'[d].pc # "made"
  BY StartStep DEF InFlight, Moves
<1>4. call'[c].pc # "done" => call'[c].try = 1
  BY <1>2, StartStep DEF UndisturbedOf
<1>5. call'[c].pc \in {"done", "wait", "lock"} /\ call'[c].res # "missing"
  BY <1>2, StartStep DEF ProgressOf
<1>6. UndisturbedOf(c)'
  BY <1>3, <1>4, <1>5 DEF UndisturbedOf, InFlight
<1> QED BY <1>1, <1>5, <1>6, StartStep, OneUndisturbed

\* The tables are made, for whoever is under way.
LEMMA DdlUndisturbed ==
  ASSUME Types, Undisturbed, NEW c \in Calls, Ddl(c)
  PROVE  Undisturbed'
<1>1. tables' /\ ready' = ready /\ call[c].pc = "ddl"
  BY DEF Ddl
<1>2. /\ Moves(c) /\ call'[c].pc = "made" /\ call'[c].res = call[c].res
      /\ call'[c].disturbed = call[c].disturbed
  BY PcStep DEF Ddl, PCs, Working, Keeps
<1> QED BY <1>1, <1>2 DEF Undisturbed, UndisturbedOf, InFlight, Moves

LEMMA OpUndisturbed ==
  ASSUME Types, Undisturbed, NEW c \in Calls, Op(c)
  PROVE  Undisturbed'
<1>1. tables' = tables /\ ready' = ready /\ call[c].pc = "op"
  BY DEF Op
<1>2. Moves(c) /\ Keeps(c) /\ call'[c].pc = "answer" /\ call'[c].res = call[c].res
  BY AnsStep DEF Op
<1>3. tables => call'[c].ans # "missing"
  BY AnsStep DEF Op
<1>4. UndisturbedOf(c)
  BY UndisturbedNow
<1>5. UndisturbedOf(c)'
  BY <1>1, <1>2, <1>3, <1>4 DEF UndisturbedOf, InFlight, Moves, Keeps
<1> QED BY <1>1, <1>2, <1>5, OneUndisturbed

LEMMA AnswerUndisturbed ==
  ASSUME Types, Progress, Undisturbed, NEW c \in Calls, Answer(c)
  PROVE  Undisturbed'
<1>1. tables' = tables /\ call[c].pc = "answer" /\ InFlight(c)
  BY AnswerStep DEF Answer, server, InFlight
<1>2. UndisturbedOf(c) /\ ProgressOf(c)
  BY UndisturbedNow, ProgressOfNow
<1>3. Moves(c) /\ (ready' => ready) /\ call'[c].pc \in {"done", "wait", "lock"}
  BY AnswerStep
<1>4. call'[c].pc = "done" => (call'[c].res = "missing" => call'[c].disturbed)
  BY <1>1, <1>2, AnswerStep DEF UndisturbedOf
<1>5. call'[c].pc # "done" => ~ready' /\ call'[c].res # "missing"
  BY <1>1, <1>2, AnswerStep DEF ProgressOf
<1>6. ~call'[c].disturbed => \A d \in Calls : call'[d].pc = "made" => tables'
  BY <1>1, <1>2, <1>3, AnswerStep DEF UndisturbedOf, Moves
<1>7. UndisturbedOf(c)'
  BY <1>3, <1>4, <1>5, <1>6 DEF UndisturbedOf, InFlight
<1> QED BY <1>1, <1>3, <1>7, OneUndisturbed

\* The tables vanish under every call that is under way.
LEMMA DropUndisturbed ==
  ASSUME Types, Undisturbed, DropTables
  PROVE  Undisturbed'
<1>1. /\ \A c \in Calls :
           /\ call'[c].pc = call[c].pc /\ call'[c].try = call[c].try
           /\ call'[c].res = call[c].res
           /\ call'[c].disturbed = (call[c].disturbed \/ InFlight(c))
  BY DropStep
<1>2. ASSUME NEW c \in Calls
      PROVE  UndisturbedOf(c)'
  <2>1. InFlight(c)' <=> InFlight(c)
    BY <1>1 DEF InFlight
  <2> QED BY <1>1, <2>1, UndisturbedNow DEF UndisturbedOf
<1> QED BY <1>2 DEF Undisturbed

\* Under a call that nothing disturbed, tables that are there stay.
LEMMA UndisturbedStep == Types /\ Progress /\ Undisturbed /\ [Next]_vars => Undisturbed'
<1> SUFFICES ASSUME Types, Progress, Undisturbed, [Next]_vars PROVE Undisturbed'
  OBVIOUS
<1>0. CASE UNCHANGED vars
  BY <1>0 DEF Undisturbed, UndisturbedOf, InFlight, vars, life, wires,
     server
<1>1. ASSUME NEW c \in Calls, Start(c) PROVE Undisturbed'
  BY <1>1, StartUndisturbed
<1>2. ASSUME NEW c \in Calls, OpenPool(c) PROVE Undisturbed'
  <2>1. tables' = tables /\ ready' = ready
    BY <1>2 DEF OpenPool, server
  <2>2. Moves(c) /\ call[c].pc = "lock" /\ call'[c].pc \in {"open", "wait"}
        /\ call'[c].try = call[c].try /\ call'[c].res = call[c].res
        /\ call'[c].disturbed = call[c].disturbed
    BY <1>2, PcStep DEF OpenPool, PCs, Working, Keeps, Results
  <2>3. UndisturbedOf(c)'
    BY <2>1, <2>2, UndisturbedNow DEF UndisturbedOf, InFlight, Moves
  <2> QED BY <2>1, <2>2, <2>3, OneUndisturbed
<1>3. ASSUME NEW c \in Calls, Opened(c) PROVE Undisturbed'
  <2>1. tables' = tables /\ ready' = ready
    BY <1>3 DEF Opened, server
  <2>2. CASE Becomes(c, Ended(call[c], "closed"))
    <3>1. Moves(c) /\ call'[c].pc = "done" /\ call'[c].res = "closed"
      BY <2>2, EndStep DEF Results
    <3>2. UndisturbedOf(c)'
      BY <3>1 DEF UndisturbedOf, InFlight
    <3> QED BY <2>1, <3>1, <3>2, OneUndisturbed
  <2>3. CASE Becomes(c, [call[c] EXCEPT !.pc = "wait"])
    <3>1. /\ Moves(c) /\ Keeps(c) /\ call'[c].pc = "wait" /\ call'[c].res = call[c].res
          /\ call[c].pc = "open"
      BY <1>3, <2>3, PcStep DEF Opened, PCs
    <3>2. UndisturbedOf(c)'
      BY <2>1, <3>1, UndisturbedNow DEF UndisturbedOf, InFlight, Moves, Keeps
    <3> QED BY <2>1, <3>1, <3>2, OneUndisturbed
  <2> QED BY <1>3, <2>2, <2>3 DEF Opened
<1>4. ASSUME NEW c \in Calls, PoolTimeout(c) PROVE Undisturbed'
  <2>1. tables' = tables /\ ready' = ready
    BY <1>4 DEF PoolTimeout, server
  <2>2. Moves(c) /\ call'[c].pc = "done" /\ call'[c].res # "missing"
    BY <1>4, EndStep DEF PoolTimeout, PCs, Working, Keeps, Results
  <2>3. UndisturbedOf(c)'
    BY <2>1, <2>2, UndisturbedNow DEF UndisturbedOf, InFlight, Moves
  <2> QED BY <2>1, <2>2, <2>3, OneUndisturbed
<1>5. ASSUME NEW c \in Calls, Deadline(c) PROVE Undisturbed'
  <2>1. tables' = tables /\ ready' = ready
    BY <1>5 DEF Deadline, server
  <2>2. Moves(c) /\ call'[c].pc = call[c].pc /\ call'[c].ans = call[c].ans
        /\ call'[c].try = call[c].try /\ call'[c].res = call[c].res
        /\ call'[c].disturbed = call[c].disturbed
    BY <1>5, FiredStep DEF Deadline, PCs, Working, Keeps, Results
  <2>3. UndisturbedOf(c)'
    BY <2>1, <2>2, UndisturbedNow DEF UndisturbedOf, InFlight, Moves
  <2> QED BY <2>1, <2>2, <2>3, OneUndisturbed
<1>6. ASSUME NEW c \in Calls, TakeConn(c) PROVE Undisturbed'
  <2>1. tables' = tables /\ ready' = ready
    BY <1>6 DEF TakeConn, server
  <2>2. Moves(c) /\ call[c].pc = "wait" /\ call'[c].pc = "check"
        /\ call'[c].try = call[c].try /\ call'[c].res = call[c].res
        /\ call'[c].disturbed = call[c].disturbed
    BY <1>6, TakeStep, OfferedType DEF TakeConn, PCs, Working, Keeps, Results
  <2>3. UndisturbedOf(c)'
    BY <2>1, <2>2, UndisturbedNow DEF UndisturbedOf, InFlight, Moves
  <2> QED BY <2>1, <2>2, <2>3, OneUndisturbed
<1>7. ASSUME NEW c \in Calls, Checked(c) PROVE Undisturbed'
  <2>1. tables' = tables /\ ready' = ready
    BY <1>7 DEF Checked, server
  <2>2. Moves(c) /\ call[c].pc = "check" /\ call'[c].pc \in {"op", "ddl", "wait"}
        /\ (call'[c].pc = "op" => ready)
        /\ call'[c].try = call[c].try /\ call'[c].res = call[c].res
        /\ call'[c].disturbed = call[c].disturbed
    BY <1>7, CheckedStep DEF Checked, PCs, Working, Keeps, Results
  <2>3. UndisturbedOf(c)'
    BY <2>1, <2>2, UndisturbedNow DEF UndisturbedOf, InFlight, Moves
  <2> QED BY <2>1, <2>2, <2>3, OneUndisturbed
<1>8. ASSUME NEW c \in Calls, Ddl(c) PROVE Undisturbed'
  BY <1>8, DdlUndisturbed
<1>9. ASSUME NEW c \in Calls, DdlHeard(c) PROVE Undisturbed'
  <2>1. tables' = tables /\ call[c].pc = "made"
    BY <1>9 DEF DdlHeard, server
  <2>2. /\ Moves(c) /\ call'[c].pc = "op" /\ call'[c].try = call[c].try
        /\ call'[c].res = call[c].res /\ call'[c].disturbed = call[c].disturbed
    BY <1>9, PcStep DEF DdlHeard, PCs, Working, Keeps
  <2>3. UndisturbedOf(c)'
    BY <2>1, <2>2, UndisturbedNow DEF UndisturbedOf, InFlight, Moves
  <2> QED BY <2>1, <2>2, <2>3, OneUndisturbed
<1>10. ASSUME NEW c \in Calls, Op(c) PROVE Undisturbed'
  BY <1>10, OpUndisturbed
<1>11. ASSUME NEW c \in Calls, Refused(c) PROVE Undisturbed'
  <2>1. tables' = tables /\ ready' = ready
    BY <1>11 DEF Refused, server
  <2>2. Moves(c) /\ call[c].pc \in {"ddl", "op"} /\ call'[c].pc = "answer"
        /\ call'[c].ans = "error"
        /\ call'[c].try = call[c].try /\ call'[c].res = call[c].res
        /\ call'[c].disturbed = call[c].disturbed
    BY <1>11, AnsStep DEF Refused, PCs, Working, Keeps, Results
  <2>3. UndisturbedOf(c)'
    BY <2>1, <2>2, UndisturbedNow DEF UndisturbedOf, InFlight, Moves
  <2> QED BY <2>1, <2>2, <2>3, OneUndisturbed
<1>12. ASSUME NEW c \in Calls, Answer(c) PROVE Undisturbed'
  BY <1>12, AnswerUndisturbed
<1>13. ASSUME NEW c \in Calls, Fail(c) PROVE Undisturbed'
  <2>1. tables' = tables /\ ready' = ready
    BY <1>13 DEF Fail, server
  <2>2. Moves(c) /\ call'[c].pc = "done" /\ call'[c].res # "missing"
    BY <1>13, EndStep DEF Fail, PCs, Working, Keeps, Results
  <2>3. UndisturbedOf(c)'
    BY <2>1, <2>2, UndisturbedNow DEF UndisturbedOf, InFlight, Moves
  <2> QED BY <2>1, <2>2, <2>3, OneUndisturbed
<1>14. ASSUME NEW c \in Calls, CancelEnds(c) PROVE Undisturbed'
  BY <1>14 DEF CancelEnds, Undisturbed, UndisturbedOf, InFlight, server
<1>15. ASSUME NEW c \in Calls, LateEffect(c) PROVE Undisturbed'
  BY <1>15 DEF LateEffect, Undisturbed, UndisturbedOf, InFlight, server
<1>16. ASSUME NEW k \in Conns, Break(k) PROVE Undisturbed'
  BY <1>16 DEF Break, Undisturbed, UndisturbedOf, InFlight, server
<1>17. CASE DropTables
  BY <1>17, DropUndisturbed
<1>18. CASE Close
  BY <1>18 DEF Close, Undisturbed, UndisturbedOf, InFlight, server
<1>19. CASE Drain
  BY <1>19 DEF Drain, Undisturbed, UndisturbedOf, InFlight, server
<1> QED
  BY <1>0, <1>1, <1>2, <1>3, <1>4, <1>5, <1>6, <1>7, <1>8, <1>9, <1>10,
     <1>11, <1>12, <1>13, <1>14, <1>15, <1>16, <1>17, <1>18, <1>19 DEF Next

-----------------------------------------------------------------------------
(* What the store promises *)

LEMMA InvStep == IInv /\ [Next]_vars => IInv'
BY TypeStep, WiredStep, PoolStep, ProgressStep, UndisturbedStep DEF IInv, Wired

\* The inductive invariant holds always.
THEOREM Invariant == Spec => []IInv
BY InitIInv, InvStep, PTL DEF Spec

\* Every variable of the store has its type, for any number of calls and
\* connections.
THEOREM TypeCorrect == Spec => []TypeOK
<1>1. IInv => TypeOK
  BY TypesSame DEF IInv
<1> QED BY <1>1, Invariant, PTL

LEMMA OnePoolHolds == IInv => OnePool
<1> SUFFICES ASSUME IInv PROVE OnePool
  OBVIOUS
<1>1. alive = {} \/ \E p \in alive : alive = {p}
  BY DEF IInv, PoolHeld
<1>2. Cardinality(alive) <= 1
  <2>1. CASE alive = {}
    BY <2>1, FS_EmptySet
  <2>2. CASE \E p \in alive : alive = {p}
    <3>1. PICK p \in alive : alive = {p}
      BY <2>2
    <3>2. Cardinality({p}) = 1
      BY FS_Singleton
    <3> QED BY <3>1, <3>2
  <2> QED BY <1>1, <2>1, <2>2
<1>3. (\A c \in Calls : ~InFlight(c)) => (closed => alive = {})
  BY DEF IInv, PoolHeld, Types, InFlight
<1> QED BY <1>2, <1>3 DEF OnePool

\* The calls of one process open one pool between them, and none outlives the
\* store that was closed.
THEOREM OnlyPool == Spec => []OnePool
BY Invariant, OnePoolHolds, PTL

LEMMA CutIsOwnHolds == IInv => CutIsOwn
<1> SUFFICES ASSUME IInv PROVE CutIsOwn
  OBVIOUS
<1>1. \A k \in Conns : socket[k] = "cut" => conn[k] = "busy"
  BY DEF IInv, CutHeld, Holding
<1>2. \A c \in Calls : Works(c) /\ socket[call[c].conn] = "cut" => call[c].fired
  BY DEF IInv, CutHeld, Holding, Exclusive
<1> QED BY <1>1, <1>2 DEF CutIsOwn, Works

\* No deadline cuts a connection under another call, and none that was cut is
\* used again.
THEOREM CutStaysOwn == Spec => []CutIsOwn
BY Invariant, CutIsOwnHolds, PTL

\* A call that runs alone never answers that the tables are missing.
THEOREM TablesHeal == Spec => []Heals
<1>1. IInv => Heals
  BY DEF IInv, Undisturbed, UndisturbedOf, Heals
<1> QED BY <1>1, Invariant, PTL

-----------------------------------------------------------------------------
(* A call of the store is a StoreCall *)

LEMMA AnswerIs ==
  ASSUME NEW c \in Calls
  PROVE  /\ call[c].res = "none" => AnswerOf(c) = "none"
         /\ call[c].res = "ok" => AnswerOf(c) = "ok"
         /\ call[c].res = "error" => AnswerOf(c) = "failed"
         /\ call[c].res \in {"missing", "closed"} => AnswerOf(c) = "refused"
BY DEF AnswerOf

LEMMA AnswerIsNext ==
  ASSUME NEW c \in Calls
  PROVE  /\ call'[c].res = "ok" => AnswerOf(c)' = "ok"
         /\ call'[c].res = "error" => AnswerOf(c)' = "failed"
         /\ call'[c].res \in {"missing", "closed"} => AnswerOf(c)' = "refused"
         /\ call'[c].res = call[c].res => AnswerOf(c)' = AnswerOf(c)
BY DEF AnswerOf

\* A step that answers nobody and applies nothing is a stutter.
LEMMA Quiet ==
  ASSUME applied' = applied, \A c \in Calls : call'[c].res = call[c].res
  PROVE  UNCHANGED Abstract!vars
<1>1. \A c \in Calls : AnswerOf(c)' = AnswerOf(c)
  BY AnswerIsNext
<1> QED BY <1>1 DEF Abstract!vars

\* A call is answered, by what the server did for it.
LEMMA Answers ==
  ASSUME NEW c \in Calls, Moves(c), applied' = applied,
         call[c].res = "none", call'[c].res \in {"ok", "missing", "error", "closed"},
         call'[c].res = "ok" => applied[c] = 1,
         call'[c].res \in {"missing", "closed"} => applied[c] = 0
  PROVE  Abstract!Next
<1>1. \A d \in Calls : d # c => AnswerOf(d)' = AnswerOf(d)
  BY AnswerIsNext DEF Moves
<1>2. AnswerOf(c) = "none" /\ AnswerOf(c)' \in {"ok", "refused", "failed"}
  BY AnswerIs, AnswerIsNext
<1>3. /\ AnswerOf(c)' = "ok" => applied[c] = 1
      /\ AnswerOf(c)' = "refused" => applied[c] = 0
  BY AnswerIsNext
<1>4. Abstract!Answer(c, AnswerOf(c)')
  BY <1>1, <1>2, <1>3 DEF Abstract!Answer
<1> QED BY <1>2, <1>4 DEF Abstract!Next

\* A statement takes effect, under its call or after it failed.
LEMMA Applies ==
  ASSUME Types, NEW c \in Calls, Effect(c), applied[c] = 0,
         \A d \in Calls : call'[d].res = call[d].res,
         call[c].res \in {"none", "error"}
  PROVE  Abstract!Next
<1>1. \A d \in Calls : AnswerOf(d)' = AnswerOf(d)
  BY AnswerIsNext
<1>2. AnswerOf(c) \in {"none", "failed"}
  BY AnswerIs
<1>3. applied' = [applied EXCEPT ![c] = 1]
  BY DEF Effect, Types
<1>4. Abstract!Apply(c)
  BY <1>1, <1>2, <1>3 DEF Abstract!Apply
<1> QED BY <1>4 DEF Abstract!Next

LEMMA InitAbstract == Init => Abstract!Init
BY DEF Init, NewCall, Abstract!Init, AnswerOf

\* Each step of the pool is one of a StoreCall, or none.
LEMMA StepAbstract == IInv /\ [Next]_vars => (Abstract!Next \/ UNCHANGED Abstract!vars)
<1> SUFFICES ASSUME IInv, [Next]_vars PROVE Abstract!Next \/ UNCHANGED Abstract!vars
  OBVIOUS
<1> USE DEF IInv
<1>0. CASE UNCHANGED vars
  BY <1>0, Quiet DEF vars, life, wires, server
<1>1. ASSUME NEW c \in Calls, Start(c) PROVE Abstract!Next \/ UNCHANGED Abstract!vars
  <2>1. applied' = applied
    BY <1>1 DEF Start, server
  <2>2. ProgressOf(c) /\ call[c].pc = "new"
    BY <1>1, ProgressOfNow DEF IInv, Start
  <2>3. CASE call'[c].pc = "done"
    BY <1>1, <2>1, <2>2, <2>3, StartStep, Answers DEF ProgressOf
  <2>4. CASE call'[c].pc # "done"
    BY <1>1, <2>1, <2>4, StartStep, Quiet DEF Moves
  <2> QED BY <2>3, <2>4
<1>2. ASSUME NEW c \in Calls, OpenPool(c) PROVE Abstract!Next \/ UNCHANGED Abstract!vars
  <2>1. applied' = applied /\ \A d \in Calls : call'[d].res = call[d].res
    BY <1>2, PcStep DEF OpenPool, PCs, Moves, server
  <2> QED BY <2>1, Quiet
<1>3. ASSUME NEW c \in Calls, Opened(c) PROVE Abstract!Next \/ UNCHANGED Abstract!vars
  <2>1. applied' = applied /\ call[c].pc = "open"
    BY <1>3 DEF Opened, server
  <2>2. ProgressOf(c)
    BY ProgressOfNow DEF IInv
  <2>3. CASE Becomes(c, Ended(call[c], "closed"))
    <3>1. Moves(c) /\ call'[c].res = "closed"
      BY <2>3, EndStep DEF Results
    <3> QED BY <2>1, <2>2, <3>1, Answers DEF ProgressOf
  <2>4. CASE Becomes(c, [call[c] EXCEPT !.pc = "wait"])
    <3>1. Moves(c) /\ call'[c].res = call[c].res
      BY <2>4, PcStep DEF PCs
    <3> QED BY <2>1, <3>1, Quiet DEF Moves
  <2> QED BY <1>3, <2>3, <2>4 DEF Opened
<1>4. ASSUME NEW c \in Calls, PoolTimeout(c) PROVE Abstract!Next \/ UNCHANGED Abstract!vars
  <2>1. applied' = applied /\ call[c].pc \notin {"answer", "done"}
    BY <1>4 DEF PoolTimeout, server
  <2>2. ProgressOf(c)
    BY ProgressOfNow DEF IInv
  <2>3. Moves(c) /\ call'[c].res = "error"
    BY <1>4, <2>1, <2>2, EndStep DEF PoolTimeout, Results, PCs
  <2> QED BY <2>1, <2>2, <2>3, Answers DEF ProgressOf
<1>5. ASSUME NEW c \in Calls, Deadline(c) PROVE Abstract!Next \/ UNCHANGED Abstract!vars
  <2>1. applied' = applied /\ \A d \in Calls : call'[d].res = call[d].res
    BY <1>5, FiredStep DEF Deadline, Moves, server
  <2> QED BY <2>1, Quiet
<1>6. ASSUME NEW c \in Calls, TakeConn(c) PROVE Abstract!Next \/ UNCHANGED Abstract!vars
  <2>1. applied' = applied /\ \A d \in Calls : call'[d].res = call[d].res
    BY <1>6, TakeStep, OfferedType DEF TakeConn, Moves, server
  <2> QED BY <2>1, Quiet
<1>7. ASSUME NEW c \in Calls, Checked(c) PROVE Abstract!Next \/ UNCHANGED Abstract!vars
  <2>1. applied' = applied /\ \A d \in Calls : call'[d].res = call[d].res
    BY <1>7, CheckedStep DEF Checked, Moves, server
  <2> QED BY <2>1, Quiet
<1>8. ASSUME NEW c \in Calls, Ddl(c) PROVE Abstract!Next \/ UNCHANGED Abstract!vars
  <2>1. applied' = applied /\ \A d \in Calls : call'[d].res = call[d].res
    BY <1>8, PcStep DEF Ddl, PCs, Working, Moves
  <2> QED BY <2>1, Quiet
<1>9. ASSUME NEW c \in Calls, DdlHeard(c) PROVE Abstract!Next \/ UNCHANGED Abstract!vars
  <2>1. applied' = applied /\ \A d \in Calls : call'[d].res = call[d].res
    BY <1>9, PcStep DEF DdlHeard, PCs, Working, Moves, server
  <2> QED BY <2>1, Quiet
<1>10. ASSUME NEW c \in Calls, Op(c) PROVE Abstract!Next \/ UNCHANGED Abstract!vars
  <2>1. call[c].pc = "op" /\ \A d \in Calls : call'[d].res = call[d].res
    BY <1>10, AnsStep DEF Op, Moves
  <2>2. applied[c] = 0 /\ call[c].res = "none"
    BY <2>1, ProgressOfNow DEF IInv, ProgressOf
  <2>3. CASE Effect(c)
    BY <2>1, <2>2, <2>3, Applies DEF IInv
  <2>4. CASE applied' = applied
    BY <2>1, <2>4, Quiet
  <2> QED BY <1>10, <2>3, <2>4 DEF Op
<1>11. ASSUME NEW c \in Calls, Refused(c) PROVE Abstract!Next \/ UNCHANGED Abstract!vars
  <2>1. applied' = applied /\ \A d \in Calls : call'[d].res = call[d].res
    BY <1>11, AnsStep DEF Refused, Moves, server
  <2> QED BY <2>1, Quiet
<1>12. ASSUME NEW c \in Calls, Answer(c) PROVE Abstract!Next \/ UNCHANGED Abstract!vars
  <2>1. applied' = applied
    BY <1>12 DEF Answer, server
  <2>2. ProgressOf(c) /\ call[c].pc = "answer" /\ call[c].ans \in {"ok", "missing", "error"}
    BY <1>12, ProgressOfNow DEF IInv, Answer, ProgressOf, Types, CallRec
  <2>3. CASE call'[c].pc = "done"
    BY <1>12, <2>1, <2>2, <2>3, AnswerStep, Answers DEF ProgressOf
  <2>4. CASE call'[c].pc # "done"
    BY <1>12, <2>1, <2>4, AnswerStep, Quiet DEF Moves
  <2> QED BY <2>3, <2>4
<1>13. ASSUME NEW c \in Calls, Fail(c) PROVE Abstract!Next \/ UNCHANGED Abstract!vars
  <2>1. applied' = applied /\ call[c].pc \in Working
    BY <1>13 DEF Fail
  <2>2. ProgressOf(c)
    BY ProgressOfNow DEF IInv
  <2>3. Moves(c) /\ call'[c].res = "error"
    BY <1>13, EndStep DEF Fail, Results
  <2> QED BY <2>1, <2>2, <2>3, Answers DEF ProgressOf, Working
<1>14. ASSUME NEW c \in Calls, CancelEnds(c) PROVE Abstract!Next \/ UNCHANGED Abstract!vars
  BY <1>14, Quiet DEF CancelEnds, server
<1>15. ASSUME NEW c \in Calls, LateEffect(c) PROVE Abstract!Next \/ UNCHANGED Abstract!vars
  <2>1. c \in adrift /\ call' = call
    BY <1>15 DEF LateEffect
  <2>2. applied[c] = 0 /\ call[c].res = "error"
    BY <2>1, ProgressOfNow DEF IInv, ProgressOf
  <2>3. CASE Effect(c)
    BY <2>1, <2>2, <2>3, Applies DEF IInv
  <2>4. CASE applied' = applied
    BY <2>1, <2>4, Quiet
  <2> QED BY <1>15, <2>3, <2>4 DEF LateEffect
<1>16. ASSUME NEW k \in Conns, Break(k) PROVE Abstract!Next \/ UNCHANGED Abstract!vars
  BY <1>16, Quiet DEF Break, server
<1>17. CASE DropTables
  <2>1. applied' = applied /\ \A d \in Calls : call'[d].res = call[d].res
    BY <1>17, DropStep DEF DropTables
  <2> QED BY <2>1, Quiet
<1>18. CASE Close
  BY <1>18, Quiet DEF Close, server
<1>19. CASE Drain
  BY <1>19, Quiet DEF Drain, server
<1> QED
  BY <1>0, <1>1, <1>2, <1>3, <1>4, <1>5, <1>6, <1>7, <1>8, <1>9, <1>10,
     <1>11, <1>12, <1>13, <1>14, <1>15, <1>16, <1>17, <1>18, <1>19 DEF Next

\* The refinement: a store call takes effect at most once, an answer means
\* that it did, a refusal that it never will, whatever the server does.
THEOREM Implements == Spec => RefinesStoreCall
<1>1. IInv /\ [Next]_vars => [Abstract!Next]_(Abstract!vars)
  BY StepAbstract
<1>2. Spec => Init /\ [][Next]_vars
  BY DEF Spec
<1> QED BY <1>1, <1>2, InitAbstract, Invariant, PTL DEF RefinesStoreCall, Abstract!Spec
=============================================================================
