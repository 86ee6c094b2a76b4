----------------------------- MODULE AuditMirror -----------------------------
(***************************************************************************)
(* PostgresAuditLog: rows handed over by the event loop, a bounded queue,  *)
(* one worker thread that writes them, and a close from another thread     *)
(* while both may be at work.  The database may refuse, drop the           *)
(* connection or not answer at all, and its table may be dropped.          *)
(***************************************************************************)
EXTENDS Integers, FiniteSets, SequencesExt

CONSTANTS
  Sizes,       \* serialized sizes a row may have
  QueueMax,    \* QUEUE_MAX
  BytesMax,    \* QUEUE_MAX_BYTES
  MaxRows,     \* bound on the rows handed over
  MaxAdrift    \* bound on the INSERTs of lost connections under way at once

ASSUME SizeAssumption == Sizes # {} /\ Sizes \subseteq Nat \ {0}

ASSUME QueueAssumption ==
  /\ QueueMax \in Nat \ {0} /\ BytesMax \in Nat \ {0}
  /\ MaxRows \in Nat /\ MaxAdrift \in Nat

Rows == 1..MaxRows

\* The stop sentinel has no size and no number.
Stop == [id |-> 0, size |-> 0]
Items == [id : Rows, size : Sizes] \cup {Stop}

VARIABLES
  seq,      \* rows handed over so far
  q,        \* self._q
  pending,  \* self._pending
  bytes,    \* self._bytes
  dropped,  \* self._dropped
  closed,   \* self._closed
  worker,   \* what the thread does: "none" before the first row
  item,     \* the record it works on
  conn,     \* self._conn: "none", "up", or a "cut" socket
  closer,   \* what close() does
  table,    \* airlock_audit: the rows in the order of their INSERTs
  adrift,   \* INSERTs that a backend is still at, their connection lost
  there,    \* the table exists
  outcome   \* what became of each row, in the end

database == <<table, adrift, there>>
vars ==
  <<seq, q, pending, bytes, dropped, closed, worker, item, conn, closer, database, outcome>>
counters == <<pending, bytes>>

Steps == {"none", "get", "write", "retry", "again", "wrote", "account", "stopped"}

Init ==
  /\ seq = 0
  /\ q = <<>>
  /\ pending = 0 /\ bytes = 0 /\ dropped = 0
  /\ closed = FALSE
  /\ worker = "none"
  /\ item = Stop
  /\ conn = "none"
  /\ closer = "none"
  /\ table = <<>> /\ adrift = {}
  /\ there \in BOOLEAN
  /\ outcome = [r \in Rows |-> "none"]

-----------------------------------------------------------------------------
(* write_row, on the event loop, under the lock *)

\* Variant: a row is let in whenever the queue is not over its bytes yet.
FullLate(size) == bytes > BytesMax \/ Len(q) >= QueueMax

\* Variant: a row too big for an empty queue never gets in.
FullAlone(size) == bytes + size > BytesMax \/ Len(q) >= QueueMax

\* One row alone is never too big.
Full(size) == (bytes > 0 /\ bytes + size > BytesMax) \/ Len(q) >= QueueMax

\* Variant: nobody looks whether the sink was closed.
WriteRowAnyTime(size) ==
  /\ seq < MaxRows /\ ~Full(size)
  /\ seq' = seq + 1
  /\ q' = Append(q, [id |-> seq', size |-> size])
  /\ pending' = pending + 1
  /\ bytes' = bytes + size
  /\ worker' = IF worker = "none" THEN "get" ELSE worker
  /\ UNCHANGED <<dropped, outcome, closed, item, conn, closer, database>>

WriteRow(size) ==
  /\ seq < MaxRows
  /\ seq' = seq + 1
  /\ \/ /\ closed
        /\ outcome' = [outcome EXCEPT ![seq'] = "closed"]
        /\ UNCHANGED <<q, counters, dropped, worker>>
     \/ /\ ~closed /\ Full(size)
        /\ outcome' = [outcome EXCEPT ![seq'] = "dropped"]
        /\ dropped' = dropped + 1
        /\ UNCHANGED <<q, counters, worker>>
     \/ /\ ~closed /\ ~Full(size)
        /\ q' = Append(q, [id |-> seq', size |-> size])
        /\ pending' = pending + 1
        /\ bytes' = bytes + size
        /\ worker' = IF worker = "none" THEN "get" ELSE worker
        /\ UNCHANGED <<dropped, outcome>>
  /\ UNCHANGED <<closed, item, conn, closer, database>>

-----------------------------------------------------------------------------
(* The worker thread *)

Settle(what) == outcome' = [outcome EXCEPT ![item.id] = what]

\* Variant: the newest record first.
GetNewest ==
  /\ worker = "get" /\ q # <<>>
  /\ item' = Last(q)
  /\ q' = Front(q)
  /\ worker' = IF item' = Stop THEN "stopped" ELSE "write"
  /\ conn' = IF item' = Stop THEN "none" ELSE conn
  /\ UNCHANGED <<seq, counters, dropped, closed, closer, database, outcome>>

Get ==
  /\ worker = "get" /\ q # <<>>
  /\ item' = Head(q)
  /\ q' = Tail(q)
  /\ worker' = IF item' = Stop THEN "stopped" ELSE "write"
  /\ conn' = IF item' = Stop THEN "none" ELSE conn
  /\ UNCHANGED <<seq, counters, dropped, closed, closer, database, outcome>>

\* A new connection creates the table, and so does the second try without it.
Prepares == conn = "none" \/ worker = "again"

Prepared == there' \in {there, there \/ Prepares}

Inserted == table' = Append(table, [id |-> item.id, late |-> FALSE])

\* The record is written, on a connection made first if there is none.
Written ==
  /\ conn # "cut" /\ (there \/ Prepares)
  /\ conn' = "up"
  /\ there' = TRUE
  /\ Inserted
  /\ adrift' = adrift
  /\ Settle("written")
  /\ worker' = "wrote"

\* A failed connect, or a server error on a connection that stays.
Failed ==
  /\ conn # "cut"
  /\ conn' \in {conn, "up"}
  /\ Prepared
  /\ UNCHANGED <<table, adrift>>
  /\ Settle("failed")
  /\ worker' = "account"

\* The connection goes while the INSERT is under way: before it was committed,
\* after it was, or while a backend that does not notice is still at it.
Lost ==
  /\ conn' = "none"
  /\ Prepared
  /\ \/ UNCHANGED <<table, adrift>>
     \/ there' /\ Inserted /\ adrift' = adrift
     \/ /\ Cardinality(adrift) < MaxAdrift
        /\ adrift' = adrift \cup {<<item.id, worker>>}
        /\ table' = table

GiveUp == Settle("failed") /\ worker' = "account"

\* UndefinedTable: the table was dropped since this connection looked.
Undefined ==
  /\ conn = "up" /\ ~there
  /\ worker' = "again"
  /\ UNCHANGED <<conn, database, outcome>>

\* _write: the first attempt.  A lost connection gets a second one on a new
\* connection, unless close() is what cut it; a lost table gets one on this.
Attempt ==
  /\ worker = "write"
  /\ \/ Written \/ Failed \/ Undefined
     \/ Lost /\ closed /\ GiveUp
     \/ Lost /\ ~closed /\ worker' = "retry" /\ UNCHANGED outcome
  /\ UNCHANGED <<seq, q, counters, dropped, closed, item, closer>>

\* The second attempt raises whatever it meets.
Retry ==
  /\ worker \in {"retry", "again"}
  /\ Written \/ Failed \/ (Lost /\ GiveUp)
  /\ UNCHANGED <<seq, q, counters, dropped, closed, item, closer>>

\* Caught up: the next drop is worth a warning again.
CaughtUp ==
  /\ worker = "wrote"
  /\ dropped' = 0
  /\ worker' = "account"
  /\ UNCHANGED <<seq, q, counters, closed, item, conn, closer, database, outcome>>

\* Variant: a record that failed stays on the books.
AccountWritten ==
  /\ worker = "account"
  /\ pending' = IF outcome[item.id] = "written" THEN pending - 1 ELSE pending
  /\ bytes' = bytes - item.size
  /\ worker' = "get"
  /\ UNCHANGED <<seq, q, dropped, closed, item, conn, closer, database, outcome>>

\* The finally block of _run.
Account ==
  /\ worker = "account"
  /\ pending' = pending - 1
  /\ bytes' = bytes - item.size
  /\ worker' = "get"
  /\ UNCHANGED <<seq, q, dropped, closed, item, conn, closer, database, outcome>>

-----------------------------------------------------------------------------
(* close, on a thread of its own *)

Close ==
  /\ closer = "none"
  /\ closed' = TRUE
  /\ closer' = IF worker = "none" THEN "done" ELSE "flush"
  /\ UNCHANGED <<seq, q, counters, dropped, worker, item, conn, database, outcome>>

\* Everything was written or given up, or the deadline came first.
Flush ==
  /\ closer = "flush"
  /\ \/ pending = 0 /\ closer' = "stop"
     \/ closer' = "drain"
  /\ UNCHANGED <<seq, q, counters, dropped, closed, worker, item, conn, database, outcome>>

\* Variant: the backlog is only counted.
DrainNothing ==
  /\ closer = "drain"
  /\ closer' = "cut"
  /\ UNCHANGED <<seq, q, counters, dropped, closed, worker, item, conn, database, outcome>>

\* Variant: the books are closed on the record in flight as well.
DrainAll ==
  /\ closer = "drain"
  /\ q' = <<>>
  /\ pending' = 0 /\ bytes' = 0
  /\ outcome' = [r \in Rows |-> IF \E x \in Range(q) : x.id = r THEN "left" ELSE outcome[r]]
  /\ closer' = "cut"
  /\ UNCHANGED <<seq, dropped, closed, worker, item, conn, database>>

\* The backlog goes, record by record, off the books as well.
Drain ==
  /\ closer = "drain"
  /\ q' = <<>>
  /\ pending' = pending - Len(q)
  /\ bytes' = bytes - SumFunction([i \in DOMAIN q |-> q[i].size])
  /\ outcome' = [r \in Rows |-> IF \E x \in Range(q) : x.id = r THEN "left" ELSE outcome[r]]
  /\ closer' = "cut"
  /\ UNCHANGED <<seq, dropped, closed, worker, item, conn, database>>

\* The cut ends the record in flight, if its connection is the one seen here.
CutConn ==
  /\ closer = "cut"
  /\ conn' \in {conn, IF conn = "up" THEN "cut" ELSE conn}
  /\ closer' = "stop"
  /\ UNCHANGED <<seq, q, counters, dropped, closed, worker, item, database, outcome>>

\* put(None) waits for room in the queue.
PutStop ==
  /\ closer = "stop"
  /\ Len(q) < QueueMax
  /\ q' = Append(q, Stop)
  /\ closer' = "join"
  /\ UNCHANGED <<seq, counters, dropped, closed, worker, item, conn, database, outcome>>

\* The worker ended, or two seconds passed.
Join ==
  /\ closer = "join"
  /\ closer' = "done"
  /\ UNCHANGED <<seq, q, counters, dropped, closed, worker, item, conn, database, outcome>>

Work == Get \/ Attempt \/ Retry \/ CaughtUp \/ Account

Closing == Flush \/ Drain \/ CutConn \/ PutStop \/ Join

\* Someone drops the table, with the rows in it.
DropTable ==
  /\ there
  /\ there' = FALSE
  /\ table' = <<>>
  /\ UNCHANGED <<seq, q, counters, dropped, closed, worker, item, conn, closer, adrift, outcome>>

\* The INSERT of a lost connection is committed after all; it may be later than
\* that of a row written since, or never be.
LateCommit ==
  /\ there
  /\ \E a \in adrift :
       /\ table' = Append(table, [id |-> a[1], late |-> TRUE])
       /\ adrift' = adrift \ {a}
  /\ UNCHANGED <<seq, q, counters, dropped, closed, worker, item, conn, closer, there, outcome>>

Next == (\E size \in Sizes : WriteRow(size)) \/ Work \/ Close \/ Closing \/ DropTable \/ LateCommit

\* close() waits only with deadlines; the worker may wait on a frozen database
\* for ever.
Spec == Init /\ [][Next]_vars /\ WF_vars(Closing)

-----------------------------------------------------------------------------
(* What the mirror promises *)

\* Types of all the state.
TypeOK ==
  /\ seq \in 0..MaxRows
  /\ Range(q) \subseteq Items /\ Len(q) <= QueueMax
  /\ pending \in 0..MaxRows /\ bytes \in Nat /\ dropped \in 0..MaxRows
  /\ closed \in BOOLEAN
  /\ worker \in Steps /\ item \in Items
  /\ conn \in {"none", "up", "cut"}
  /\ closer \in {"none", "flush", "drain", "cut", "stop", "join", "done"}
  /\ Range(table) \subseteq [id : Rows, late : BOOLEAN] /\ there \in BOOLEAN
  /\ adrift \subseteq Rows \X {"write", "retry", "again"}
  /\ outcome \in [Rows -> {"none", "closed", "dropped", "written", "failed", "left"}]

InHand == IF worker \in {"write", "retry", "again", "wrote", "account"} THEN {item} ELSE {}

\* The records queued and in flight.
Held == (InHand \cup Range(q)) \ {Stop}

\* The counters that bound the queue, end the flush and appear in the warnings
\* count the records queued and in flight, each once, whatever the worker, the
\* drain and the loop do at once.
CountersExact ==
  /\ pending = Cardinality(Held)
  /\ bytes = SumFunction([x \in Held |-> x.size])

\* Two records or more never hold more than QUEUE_MAX_BYTES.
MemoryBounded == Cardinality(Held) > 1 => bytes <= BytesMax

\* A row alone gets in whatever its size: none is refused for want of room while
\* no row is queued or in flight, however close() and the worker count.
LoneRowGetsIn ==
  [][\A r \in Rows : outcome[r] # "dropped" /\ outcome'[r] = "dropped" => Held # {}]_vars

\* The table has the rows in the order the file has them, created again on the
\* way or not; only a retry can write one twice, and only one whose connection
\* was lost before its INSERT was committed can stand behind a later one.
TableInOrder ==
  \A i, j \in DOMAIN table : i < j /\ table[i].id > table[j].id => table[j].late

\* src/src/mcp_airlock/audit.py:475 "Drain the queue ... then stop the worker":
\* once the worker has read the sentinel, every row handed over has met its end,
\* in the table, in a warning or in the count close() logs; none sits behind it.
NoRowForgotten == worker = "stopped" => \A r \in 1..seq : outcome[r] # "none"

\* close() returns whatever the database does.
CloseReturns == (closer # "none") ~> (closer = "done")
=============================================================================
