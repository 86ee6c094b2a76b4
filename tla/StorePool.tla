------------------------------ MODULE StorePool ------------------------------
(***************************************************************************)
(* PostgresStore: _run, _conn, _deadline, _open_pool and aclose, with as   *)
(* many calls at once as the event loop lets in.  psycopg_pool is modelled *)
(* by what the store relies on: it hands a connection to one call at a     *)
(* time after the store's check, takes it back, discards a closed one and  *)
(* gives a waiting call up at its timeout.  The server may answer, break a *)
(* connection, lose its tables, or not answer at all; a statement that was *)
(* cut may still be executed later.                                        *)
(***************************************************************************)
EXTENDS Naturals, FiniteSets

CONSTANTS
  Calls,      \* store calls, the pings of /readyz among them
  Conns,      \* the places of the pool, max_size
  None,       \* no pool, no connection
  MaxDrops    \* bound on the times the tables vanish

ASSUME NoneAssumption == None \notin Calls /\ None \notin Conns

ASSUME DropAssumption == MaxDrops \in Nat

VARIABLES
  closed,    \* self._closed
  pool,      \* self._pool, named by the call that opened it
  lock,      \* self._pool_lock
  alive,     \* pools created and not closed
  ready,     \* self._ready
  conn,      \* conn[k]: "none", "idle" in the pool, or "busy"
  socket,    \* socket[k]: "up", "cut" by us, "dead" at the other end
  timer,     \* timer[c]: the connection the deadline of the call will cut
  cancels,   \* self._cancels
  call,      \* what each call is doing
  closer,    \* where aclose() stands
  tables,    \* the server has the tables
  drops,     \* how often they vanished
  adrift,    \* cut statements the server has still to look at
  applied    \* applied[c]: how often the statement took effect

wires == <<conn, socket, timer>>
server == <<tables, drops, adrift, applied>>
life == <<closed, pool, lock, alive, closer>>
vars == <<life, ready, wires, cancels, call, server>>

Working == {"check", "ddl", "made", "op", "answer"}

NewCall ==
  [pc |-> "new", try |-> 1, conn |-> None, fired |-> FALSE, ans |-> "none",
   res |-> "none", disturbed |-> FALSE]

Init ==
  /\ closed = FALSE /\ pool = None /\ lock = None /\ alive = {} /\ closer = "none"
  /\ ready = FALSE
  /\ conn = [k \in Conns |-> "none"]
  /\ socket = [k \in Conns |-> "up"]
  /\ timer = [c \in Calls |-> None]
  /\ cancels = {}
  /\ call = [c \in Calls |-> NewCall]
  /\ tables = FALSE /\ drops = 0 /\ adrift = {}
  /\ applied = [c \in Calls |-> 0]

InFlight(c) == call[c].pc \notin {"new", "done"}

-----------------------------------------------------------------------------
(* Getting a connection *)

Becomes(c, x) == call' = [call EXCEPT ![c] = x]

\* What the call knew is gone; its answer stays.
Ended(x, res) == [NewCall EXCEPT !.pc = "done", !.res = res, !.disturbed = x.disturbed]

\* _conn up to its first await.
Entered(x) ==
  IF closed THEN Ended(x, "closed")
  ELSE [x EXCEPT !.pc = IF pool # None THEN "wait" ELSE "lock",
                      !.conn = None, !.fired = FALSE]

\* A call that starts while another runs may meet what that one leaves behind.
Start(c) ==
  /\ call[c].pc = "new"
  /\ Becomes(c, Entered([call[c] EXCEPT !.disturbed = \E d \in Calls : InFlight(d)]))
  /\ UNCHANGED <<life, ready, wires, cancels, server>>

\* Variant: the pool is not looked for again under the lock.
OpenPoolBlind(c) ==
  /\ call[c].pc = "lock" /\ lock = None
  /\ lock' = c
  /\ alive' = alive \cup {c}
  /\ Becomes(c, [call[c] EXCEPT !.pc = "open"])
  /\ UNCHANGED <<closed, pool, closer, ready, wires, cancels, server>>

OpenPool(c) ==
  /\ call[c].pc = "lock" /\ lock = None
  /\ \/ /\ pool = None
        /\ lock' = c
        /\ alive' = alive \cup {c}
        /\ Becomes(c, [call[c] EXCEPT !.pc = "open"])
     \/ /\ pool # None
        /\ Becomes(c, [call[c] EXCEPT !.pc = "wait"])
        /\ UNCHANGED <<lock, alive>>
  /\ UNCHANGED <<closed, pool, closer, ready, wires, cancels, server>>

\* aclose() may have run while the pool was opening, and seen none to close.
Opened(c) ==
  /\ call[c].pc = "open"
  /\ lock' = None
  /\ \/ /\ closed
        /\ alive' = alive \ {c}
        /\ Becomes(c, Ended(call[c], "closed"))
        /\ UNCHANGED pool
     \/ /\ ~closed
        /\ pool' = c
        /\ Becomes(c, [call[c] EXCEPT !.pc = "wait"])
        /\ UNCHANGED alive
  /\ UNCHANGED <<closed, closer, ready, wires, cancels, server>>

Places(state) == {k \in Conns : conn[k] = state}

\* An idle connection, or a new one where there is room.
Offered ==
  IF Places("idle") # {} \/ Places("none") = {} THEN Places("idle")
  ELSE {CHOOSE k \in Conns : conn[k] = "none"}

\* The pool hands out a connection; the store's check (or its configure, on a
\* new one) runs first, with a deadline of its own.
TakeConn(c) ==
  /\ call[c].pc = "wait" /\ pool \in alive
  /\ \E k \in Offered :
       /\ conn' = [conn EXCEPT ![k] = "busy"]
       /\ timer' = [timer EXCEPT ![c] = k]
       /\ Becomes(c, [call[c] EXCEPT !.pc = "check", !.conn = k])
  /\ UNCHANGED <<life, ready, socket, cancels, server>>

\* PoolTimeout, or PoolClosed.
PoolTimeout(c) ==
  /\ call[c].pc = "wait"
  /\ Becomes(c, Ended(call[c], "error"))
  /\ UNCHANGED <<life, ready, wires, cancels, server>>

-----------------------------------------------------------------------------
(* Working on it, under the deadline *)

\* What the pool does with a connection that comes back.
Discard(k) ==
  /\ conn' = [conn EXCEPT ![k] = "none"]
  /\ socket' = [socket EXCEPT ![k] = "up"]

\* Variant: a deadline that fired is forgotten when the answer came.
HandBackBlind(c) ==
  LET k == call[c].conn
  IN IF pool \notin alive \/ socket[k] = "dead" THEN Discard(k)
     ELSE conn' = [conn EXCEPT ![k] = "idle"] /\ socket' = socket

\* The end of _deadline: the timer is cancelled, a connection it cut is closed.
HandBack(c) ==
  LET k == call[c].conn
  IN IF pool \notin alive \/ call[c].fired \/ socket[k] = "dead" THEN Discard(k)
     ELSE conn' = [conn EXCEPT ![k] = "idle"] /\ socket' = socket

StopTimer(c) == timer' = [timer EXCEPT ![c] = None]

\* The check answered, and the cut did not cross it: the call goes on under a
\* new deadline; or the connection is no good and the pool looks for another.
Checked(c) ==
  LET k == call[c].conn
  IN /\ call[c].pc = "check"
     /\ \/ /\ socket[k] = "up" /\ ~call[c].fired
           /\ Becomes(c, [call[c] EXCEPT !.pc = IF ready THEN "op" ELSE "ddl"])
           /\ UNCHANGED wires
        \/ /\ socket[k] # "up" \/ call[c].fired
           /\ Discard(k)
           /\ StopTimer(c)
           /\ Becomes(c, [call[c] EXCEPT !.pc = "wait", !.conn = None, !.fired = FALSE])
  /\ UNCHANGED <<life, ready, cancels, server>>

\* The server commits the DDL, and the loop hears of it later.
Ddl(c) ==
  /\ call[c].pc = "ddl" /\ socket[call[c].conn] = "up"
  /\ tables' = TRUE
  /\ Becomes(c, [call[c] EXCEPT !.pc = "made"])
  /\ UNCHANGED <<life, ready, wires, cancels, drops, adrift, applied>>

DdlHeard(c) ==
  /\ call[c].pc = "made"
  /\ ready' = TRUE
  /\ Becomes(c, [call[c] EXCEPT !.pc = "op"])
  /\ UNCHANGED <<life, wires, cancels, server>>

Effect(c) == applied' = [applied EXCEPT ![c] = @ + 1]

\* The server executes the statement of the call.
Op(c) ==
  /\ call[c].pc = "op" /\ socket[call[c].conn] = "up"
  /\ \/ tables /\ Effect(c) /\ Becomes(c, [call[c] EXCEPT !.pc = "answer", !.ans = "ok"])
     \/ /\ ~tables
        /\ applied' = applied
        /\ Becomes(c, [call[c] EXCEPT !.pc = "answer", !.ans = "missing"])
  /\ UNCHANGED <<life, ready, wires, cancels, tables, drops, adrift>>

\* lock_timeout or statement_timeout: a server error on a connection that stays.
Refused(c) ==
  /\ call[c].pc \in {"ddl", "op"} /\ socket[call[c].conn] = "up"
  /\ Becomes(c, [call[c] EXCEPT !.pc = "answer", !.ans = "error"])
  /\ UNCHANGED <<life, ready, wires, cancels, server>>

\* Variant: the tables stay known to be there.
AnswerReady(c) ==
  /\ call[c].pc = "answer"
  /\ HandBack(c) /\ StopTimer(c)
  /\ ready' = ready
  /\ Becomes(c, IF call[c].ans = "missing" /\ call[c].try = 1
                THEN Entered([call[c] EXCEPT !.try = 2, !.ans = "none"])
                ELSE Ended(call[c], call[c].ans))
  /\ UNCHANGED <<life, cancels, server>>

\* Variant: no end to the tries.
AnswerForever(c) ==
  /\ call[c].pc = "answer"
  /\ HandBack(c) /\ StopTimer(c)
  /\ \/ /\ call[c].ans = "missing"
        /\ ready' = FALSE
        /\ Becomes(c, Entered([call[c] EXCEPT !.try = @ + 1, !.ans = "none"]))
     \/ /\ call[c].ans # "missing"
        /\ ready' = ready
        /\ Becomes(c, Ended(call[c], call[c].ans))
  /\ UNCHANGED <<life, cancels, server>>

\* The answer is read, even one that a cut left in the socket's buffer; a
\* missing table gets the DDL and a second try, once.
Answer(c) ==
  /\ call[c].pc = "answer"
  /\ HandBack(c) /\ StopTimer(c)
  /\ \/ /\ call[c].ans = "missing" /\ call[c].try = 1
        /\ ready' = FALSE
        /\ Becomes(c, Entered([call[c] EXCEPT !.try = 2, !.ans = "none"]))
     \/ /\ ~(call[c].ans = "missing" /\ call[c].try = 1)
        /\ ready' = ready
        /\ Becomes(c, Ended(call[c], call[c].ans))
  /\ UNCHANGED <<life, cancels, server>>

\* Variant: a lost connection gets a second try as well.
FailRetried(c) ==
  /\ call[c].pc \in Working \ {"check"} /\ socket[call[c].conn] # "up"
  /\ Discard(call[c].conn) /\ StopTimer(c)
  /\ adrift' = adrift
  /\ Becomes(c, IF call[c].try = 1 THEN Entered([call[c] EXCEPT !.try = 2, !.ans = "none"])
                ELSE Ended(call[c], "error"))
  /\ UNCHANGED <<life, ready, cancels, tables, drops, applied>>

\* The connection is gone under the call.  A statement that was cut on its way
\* may still be read by the server.
Fail(c) ==
  /\ call[c].pc \in Working \ {"check"} /\ socket[call[c].conn] # "up"
  /\ Discard(call[c].conn) /\ StopTimer(c)
  /\ adrift' = IF call[c].pc = "op" THEN adrift \cup {c} ELSE adrift
  /\ Becomes(c, Ended(call[c], "error"))
  /\ UNCHANGED <<life, ready, cancels, tables, drops, applied>>

\* _cut: the socket is shut, and a cancel request goes out.
Deadline(c) ==
  /\ timer[c] # None
  /\ ~call[c].fired
  /\ socket' = [socket EXCEPT ![timer[c]] = "cut"]
  /\ Becomes(c, [call[c] EXCEPT !.fired = TRUE])
  /\ cancels' = cancels \cup {c}
  /\ UNCHANGED <<life, ready, conn, timer, server>>

-----------------------------------------------------------------------------
(* The server *)

\* The cancel request was answered, or given up; whether the server dropped the
\* work is seen by whether its effect comes.
CancelEnds(c) ==
  /\ c \in cancels
  /\ cancels' = cancels \ {c}
  /\ UNCHANGED <<life, ready, wires, call, server>>

\* The server thaws and finds the statement of a call long answered.
LateEffect(c) ==
  /\ c \in adrift
  /\ adrift' = adrift \ {c}
  /\ IF tables THEN Effect(c) ELSE applied' = applied
  /\ UNCHANGED <<life, ready, wires, cancels, call, tables, drops>>

Break(k) ==
  /\ conn[k] # "none" /\ socket[k] = "up"
  /\ socket' = [socket EXCEPT ![k] = "dead"]
  /\ UNCHANGED <<life, ready, conn, timer, cancels, call, server>>

\* The database is recreated empty.
DropTables ==
  /\ tables /\ drops < MaxDrops
  /\ tables' = FALSE
  /\ drops' = drops + 1
  /\ call' = [c \in Calls |-> [call[c] EXCEPT !.disturbed = @ \/ InFlight(c)]]
  /\ UNCHANGED <<life, ready, wires, cancels, adrift, applied>>

-----------------------------------------------------------------------------
(* aclose *)

Close ==
  /\ closer = "none"
  /\ closed' = TRUE
  /\ pool' = None
  /\ closer' = "drain"
  /\ alive' = alive \ {pool}
  /\ conn' = [k \in Conns |-> IF conn[k] = "idle" THEN "none" ELSE conn[k]]
  /\ socket' = [k \in Conns |-> IF conn[k] = "idle" THEN "up" ELSE socket[k]]
  /\ UNCHANGED <<lock, ready, timer, cancels, call, server>>

\* Variant: every cancel request is waited for.
DrainAll ==
  /\ closer = "drain" /\ cancels = {}
  /\ closer' = "done"
  /\ UNCHANGED <<closed, pool, lock, alive, ready, wires, cancels, call, server>>

\* They all ended, or those that did not within the second are cancelled.
Drain ==
  /\ closer = "drain"
  /\ closer' = "done"
  /\ cancels' = {}
  /\ UNCHANGED <<closed, pool, lock, alive, ready, wires, call, server>>

\* What ends by itself: the event loop's own steps and everything that has a
\* timeout.
Step(c) ==
  \/ OpenPool(c) \/ Opened(c) \/ Deadline(c) \/ Fail(c)
  \/ Checked(c) /\ call'[c].pc = "wait"

Next ==
  \/ \E c \in Calls :
       \/ Start(c) \/ OpenPool(c) \/ Opened(c) \/ PoolTimeout(c) \/ Deadline(c)
       \/ TakeConn(c) \/ Checked(c)
       \/ Ddl(c) \/ DdlHeard(c) \/ Op(c) \/ Refused(c) \/ Answer(c) \/ Fail(c)
       \/ CancelEnds(c) \/ LateEffect(c)
  \/ \E k \in Conns : Break(k)
  \/ DropTables \/ Close \/ Drain

\* Nothing is assumed of the server.  The pool's timeout runs over the whole
\* wait, however many connections fail their check in it: strong fairness.
Fairness ==
  /\ \A c \in Calls : WF_vars(Step(c)) /\ SF_vars(PoolTimeout(c))
  /\ WF_vars(Drain)

Spec == Init /\ [][Next]_vars /\ Fairness

-----------------------------------------------------------------------------
(* What the store promises *)

\* Types of all the state.
TypeOK ==
  /\ {closed, ready, tables} \subseteq BOOLEAN
  /\ {pool, lock} \subseteq Calls \cup {None} /\ alive \subseteq Calls
  /\ closer \in {"none", "drain", "done"}
  /\ conn \in [Conns -> {"none", "idle", "busy"}]
  /\ socket \in [Conns -> {"up", "cut", "dead"}]
  /\ timer \in [Calls -> Conns \cup {None}]
  /\ cancels \subseteq Calls /\ adrift \subseteq Calls
  /\ drops \in 0..MaxDrops
  /\ applied \in [Calls -> Nat]
  /\ call \in [Calls ->
       [pc : {"new", "lock", "open", "wait", "done"} \cup Working, try : {1, 2},
        conn : Conns \cup {None}, fired : BOOLEAN, ans : {"none", "ok", "missing", "error"},
        res : {"none", "ok", "missing", "error", "closed"}, disturbed : BOOLEAN]]

\* src/src/mcp_airlock/store.py:155 "concurrent first calls create exactly one
\* pool", and :172: one that was opening while aclose() ran is closed as well.
OnePool ==
  /\ ~closed => Cardinality(alive) <= 1
  /\ (closed /\ \A c \in Calls : ~InFlight(c)) => alive = {}

\* A connection that was cut never goes back to the pool, and the one a call
\* works on was cut by no deadline but its own, however often connections
\* change hands.
CutIsOwn ==
  /\ \A k \in Conns : socket[k] = "cut" => conn[k] = "busy"
  /\ \A c \in Calls :
       (call[c].pc \in Working /\ socket[call[c].conn] = "cut") => call[c].fired

\* Tables that vanished are made again by the next call: one that runs alone,
\* and under which they do not vanish, never answers that they are missing.
Heals == \A c \in Calls : call[c].res = "missing" => call[c].disturbed

AnswerOf(c) ==
  CASE call[c].res = "none" -> "none"
    [] call[c].res = "ok" -> "ok"
    [] call[c].res = "error" -> "failed"
    [] call[c].res \in {"missing", "closed"} -> "refused"

Abstract == INSTANCE StoreCall WITH answer <- [c \in Calls |-> AnswerOf(c)]

\* A store call is what the gate takes it for: through cuts, crossing answers,
\* the second try and late statements it takes effect at most once, and its
\* answer never claims more than the server did.
RefinesStoreCall == Abstract!Spec

\* Every call ends, and so does aclose(), whatever the server does; each starts
\* once, so in the end nothing is under way.
EverythingEnds == <>[](closer # "drain" /\ \A c \in Calls : ~InFlight(c))
=============================================================================
