---------------------------- MODULE MirrorProofs ----------------------------
(***************************************************************************)
(* AuditMirror, for any queue, sizes and number of rows: the table keeps   *)
(* the order of the file, no row is left behind the stop sentinel, and the *)
(* counters the three threads share are exact, so that they bound what is  *)
(* held.                                                                   *)
(***************************************************************************)
EXTENDS AuditMirror, Sums, SequenceTheorems

Outcomes == {"none", "closed", "dropped", "written", "failed", "left"}

\* The types the argument needs; the counters are not part of it.
Types ==
  /\ seq \in 0..MaxRows
  /\ q \in Seq(Items)
  /\ closed \in BOOLEAN
  /\ worker \in Steps /\ item \in Items
  /\ closer \in {"none", "flush", "drain", "cut", "stop", "join", "done"}
  /\ table \in Seq([id : Rows, late : BOOLEAN])
  /\ adrift \subseteq Rows \X {"write", "retry", "again"}
  /\ outcome \in [Rows -> Outcomes]

\* The worker has taken a record and not accounted for it.
InHandNow == worker \in {"write", "retry", "again", "wrote", "account"}

\* It has not settled it either.
Unsettled == worker \in {"write", "retry", "again"}

\* Rows come in the order of their numbers, the sentinel last.
Queued ==
  /\ \A i \in 1..Len(q) : q[i] # Stop => q[i].id <= seq
  /\ \A i, j \in 1..Len(q) : i < j => q[i] # Stop /\ (q[j] # Stop => q[i].id < q[j].id)
  /\ InHandNow => /\ item # Stop /\ item.id <= seq
                  /\ \A i \in 1..Len(q) : q[i] # Stop => item.id < q[i].id

\* The sentinel is the last thing close() does to the queue.
Stopping ==
  /\ closer # "none" => closed
  /\ (worker = "stopped" \/ \E i \in 1..Len(q) : q[i] = Stop) =>
       closer \in {"join", "done"} /\ closed
  /\ worker = "stopped" => q = <<>>
  /\ worker = "none" => q = <<>>
  /\ closer \in {"flush", "drain", "cut", "stop", "join"} => worker # "none"

\* A row without an end is queued or in the worker's hand.
Accounted ==
  \A r \in 1..seq : outcome[r] = "none" =>
    (Unsettled /\ item.id = r) \/ \E i \in 1..Len(q) : q[i].id = r

\* The row numbers up to the one in hand, or up to those queued.
Past(r) ==
  /\ r <= seq
  /\ InHandNow => r <= item.id
  /\ \A j \in 1..Len(q) : q[j] # Stop => r < q[j].id

\* What is in the table, or may still turn up there, came before what is to come.
Ordered ==
  /\ TableInOrder
  /\ \A i \in 1..Len(table) : Past(table[i].id)
  /\ \A a \in adrift : Past(a[1])

IInv == Types /\ Queued /\ Stopping /\ Accounted /\ Ordered

-----------------------------------------------------------------------------

LEMMA ItemType ==
  ASSUME NEW x \in Items
  PROVE  /\ x.id \in Nat /\ (x = Stop <=> x.id = 0)
         /\ x # Stop => x.id \in Rows
BY QueueAssumption DEF Items, Rows, Stop

LEMMA StopType == Stop \in Items /\ Stop.id = 0
BY DEF Items, Stop

LEMMA TableType ==
  ASSUME Types
  PROVE  /\ DOMAIN table = 1..Len(table) /\ Len(table) \in Nat
         /\ \A i \in 1..Len(table) : table[i].id \in Nat /\ table[i].id \in Rows
         /\ \A a \in adrift : a[1] \in Nat /\ a[1] \in Rows
<1>1. \A i \in 1..Len(table) : table[i] \in [id : Rows, late : BOOLEAN]
  <2>1. PICK T : T = [id : Rows, late : BOOLEAN]
    OBVIOUS
  <2>2. table \in Seq(T)
    BY <2>1 DEF Types
  <2>3. \A i \in 1..Len(table) : table[i] \in T
    BY <2>2
  <2> QED BY <2>1, <2>3
<1>2. DOMAIN table = 1..Len(table) /\ Len(table) \in Nat
  BY DEF Types
<1>3. \A r \in Rows : r \in Nat
  BY QueueAssumption DEF Rows
<1>4. \A a \in adrift : a[1] \in Rows
  BY DEF Types
<1> QED BY <1>1, <1>2, <1>3, <1>4

LEMMA InitIInv == Init => IInv
<1> SUFFICES ASSUME Init PROVE IInv
  OBVIOUS
<1>1. Types
  <2>1. seq \in 0..MaxRows
    BY QueueAssumption DEF Init
  <2>2. outcome \in [Rows -> Outcomes]
    BY DEF Init, Outcomes
  <2>3. /\ q \in Seq(Items) /\ table \in Seq([id : Rows, late : BOOLEAN])
        /\ adrift \subseteq Rows \X {"write", "retry", "again"}
    BY DEF Init
  <2> QED BY <2>1, <2>2, <2>3, StopType DEF Init, Types, Steps
<1>2. Queued /\ Stopping /\ Accounted
  BY DEF Init, Queued, Stopping, Accounted, InHandNow
<1>3. Ordered
  BY DEF Init, Ordered, TableInOrder
<1> QED BY <1>1, <1>2, <1>3 DEF IInv

\* A row that is refused has its end at once.
LEMMA Refusals ==
  ASSUME IInv, seq < MaxRows, seq' = seq + 1, NEW o \in Outcomes \ {"none"},
         outcome' = [outcome EXCEPT ![seq'] = o],
         UNCHANGED <<q, worker, closed, item, conn, closer, table, adrift>>
  PROVE  IInv'
<1> USE DEF IInv
<1>1. seq' \in Rows
  BY QueueAssumption DEF Types, Rows
<1>2. Types'
  BY <1>1, QueueAssumption DEF Types, Rows
<1>3. Queued' /\ Stopping'
  BY ItemType DEF Types, Queued, Stopping, InHandNow
<1>4. Accounted'
  BY <1>1 DEF Types, Accounted, Unsettled
<1>5. Ordered'
  <2>1. \A r \in Nat : Past(r) => Past(r)'
    BY DEF Types, Past, InHandNow
  <2> QED BY <2>1, TableType DEF Ordered, TableInOrder
<1> QED BY <1>2, <1>3, <1>4, <1>5

LEMMA Accepts ==
  ASSUME IInv, NEW size \in Sizes, seq < MaxRows, seq' = seq + 1, ~closed,
         q' = Append(q, [id |-> seq', size |-> size]),
         worker' = IF worker = "none" THEN "get" ELSE worker,
         UNCHANGED <<outcome, closed, item, conn, closer, table, adrift>>
  PROVE  IInv'
<1> USE DEF IInv
<1> DEFINE x == [id |-> seq', size |-> size]
<1>1. x \in Items /\ x # Stop /\ x.id = seq + 1 /\ seq \in Nat
  BY QueueAssumption DEF Types, Items, Rows, Stop
<1>2. /\ q \in Seq(Items) /\ Len(q') = Len(q) + 1 /\ q'[Len(q) + 1] = x
      /\ \A i \in 1..Len(q) : q'[i] = q[i]
      /\ q' \in Seq(Items)
  BY <1>1 DEF Types
<1> HIDE DEF x
<1>3. \A i \in 1..Len(q') : i = Len(q) + 1 \/ i \in 1..Len(q)
  BY <1>2
<1>4. Types'
  <2>1. seq' \in 0..MaxRows
    BY <1>1, QueueAssumption DEF Types
  <2> QED BY <1>2, <2>1 DEF Types, Steps
<1>5. \A i \in 1..Len(q) : q[i] # Stop
  BY DEF Stopping
<1>6. Queued'
  BY <1>1, <1>2, <1>3, <1>5, ItemType DEF Types, Queued, InHandNow
<1>7. Stopping'
  BY <1>1, <1>2, <1>3, <1>5 DEF Types, Stopping
<1>8. Accounted'
  <2> SUFFICES ASSUME NEW r \in 1..seq', outcome'[r] = "none"
               PROVE  (Unsettled' /\ item'.id = r) \/ \E i \in 1..Len(q') : q'[i].id = r
    BY DEF Accounted
  <2>1. CASE r = seq + 1
    BY <1>1, <1>2, <2>1
  <2>2. CASE r # seq + 1
    <3>1. r \in 1..seq
      BY <1>1, <2>2
    <3> QED BY <1>2, <1>3, <3>1 DEF Accounted, Unsettled
  <2> QED BY <2>1, <2>2
<1>9. Ordered'
  <2>1. TableInOrder'
    BY DEF Ordered, TableInOrder
  <2>2. ASSUME NEW r \in Nat, Past(r) PROVE Past(r)'
    <3>1. InHandNow' => InHandNow
      BY DEF InHandNow
    <3>2. r <= seq /\ r <= seq'
      BY <1>1, <2>2 DEF Past
    <3>3. \A i \in 1..Len(q') : q'[i] # Stop => r < q'[i].id
      BY <1>1, <1>2, <1>3, <2>2, <3>2 DEF Past
    <3> QED BY <2>2, <3>1, <3>2, <3>3 DEF Past
  <2> QED BY <2>1, <2>2, TableType DEF Ordered
<1> QED BY <1>4, <1>6, <1>7, <1>8, <1>9

\* What an attempt leaves: the row once more in the table or not, and its end
\* or one more attempt.
LEMMA Works ==
  ASSUME IInv, Unsettled, UNCHANGED <<seq, q, closed, item, closer>>,
         \/ table' = table /\ adrift' \in {adrift, adrift \cup {<<item.id, worker>>}}
         \/ table' = Append(table, [id |-> item.id, late |-> FALSE]) /\ adrift' = adrift,
         \/ outcome' = outcome /\ worker' \in {"retry", "again"}
         \/ \E what \in {"written", "failed"} : Settle(what) /\ worker' \in {"wrote", "account"}
  PROVE  IInv'
<1> USE DEF IInv
<1>1. item.id \in Rows /\ item.id \in Nat /\ item.id <= seq /\ InHandNow /\ InHandNow'
  BY ItemType DEF Types, Queued, Unsettled, InHandNow
<1>2. /\ table' \in Seq([id : Rows, late : BOOLEAN])
      /\ \A i \in 1..Len(table') : \/ i \in 1..Len(table) /\ table'[i] = table[i]
                                   \/ i = Len(table) + 1 /\ table'[i].id = item.id
  <2>1. table \in Seq([id : Rows, late : BOOLEAN]) /\ Len(table) \in Nat
    BY DEF Types
  <2>2. CASE table' = table
    BY <2>1, <2>2
  <2>3. CASE table' = Append(table, [id |-> item.id, late |-> FALSE])
    <3>1. PICK x \in [id : Rows, late : BOOLEAN] : x = [id |-> item.id, late |-> FALSE]
      BY <1>1
    <3>2. x.id = item.id /\ table' = Append(table, x)
      BY <2>3, <3>1
    <3>3. /\ Append(table, x) \in Seq([id : Rows, late : BOOLEAN])
          /\ Len(Append(table, x)) = Len(table) + 1
          /\ \A i \in 1..Len(table) : Append(table, x)[i] = table[i]
          /\ Append(table, x)[Len(table) + 1] = x
      BY <2>1, AppendProperties
    <3> QED BY <2>1, <3>2, <3>3
  <2> QED BY <2>2, <2>3
<1>10. /\ adrift' \subseteq Rows \X {"write", "retry", "again"}
       /\ \A a \in adrift' : a \in adrift \/ a[1] = item.id
  BY <1>1 DEF Types, Unsettled
<1>3. Types'
  <2>1. outcome' \in [Rows -> Outcomes]
    BY <1>1 DEF Types, Settle, Outcomes
  <2> QED BY <1>2, <1>10, <2>1 DEF Types, Steps
<1>4. Queued' /\ Stopping'
  BY <1>1 DEF Queued, Stopping, Unsettled
<1>5. Accounted'
  <2>1. CASE outcome' = outcome /\ worker' \in {"retry", "again"}
    BY <2>1 DEF Accounted, Unsettled
  <2>2. CASE \E what \in {"written", "failed"} : Settle(what)
    BY <1>1, <2>2 DEF Accounted, Settle, Types
  <2> QED BY <2>1, <2>2
<1>6. Ordered'
  <2>1. /\ \A i \in 1..Len(table) : table[i].id <= item.id /\ table[i].id \in Nat
        /\ \A a \in adrift : a[1] <= item.id /\ a[1] \in Nat
    BY <1>1, TableType DEF Ordered, Past
  <2>2. /\ \A i \in 1..Len(table') : table'[i].id <= item.id /\ table'[i].id \in Nat
        /\ \A a \in adrift' : a[1] <= item.id /\ a[1] \in Nat
    <3>1. item.id \in Nat
      BY <1>1 DEF Rows
    <3>2. \A i \in 1..Len(table') : table'[i].id <= item.id /\ table'[i].id \in Nat
      BY <1>2, <2>1, <3>1
    <3>3. \A a \in adrift' : a[1] <= item.id /\ a[1] \in Nat
      BY <1>10, <2>1, <3>1
    <3> QED BY <3>2, <3>3
  <2>3. ASSUME NEW i \in 1..Len(table'), NEW j \in 1..Len(table'), i < j,
               table'[i].id > table'[j].id
        PROVE  table'[j].late
    <3>1. Len(table) \in Nat /\ Len(table') \in Nat
      BY <1>2 DEF Types
    <3>2. table'[j].id # item.id
      BY <1>1, <2>2, <2>3
    <3>3. j \in 1..Len(table) /\ table'[j] = table[j]
      BY <1>2, <3>2
    <3>4. i \in 1..Len(table) /\ table'[i] = table[i]
      BY <1>2, <2>3, <3>1, <3>3
    <3> QED BY <2>3, <3>3, <3>4, TableType DEF Ordered, TableInOrder
  <2>4. TableInOrder'
    <3>1. DOMAIN table' = 1..Len(table')
      BY <1>2
    <3> QED BY <2>3, <3>1 DEF TableInOrder
  <2>5. ASSUME NEW r \in Nat, r <= item.id PROVE Past(r)'
    <3>1. seq \in Nat /\ \A j \in 1..Len(q) : q[j] # Stop => item.id < q[j].id /\ q[j].id \in Nat
      BY <1>1, ItemType, QueueAssumption DEF Queued, Types
    <3> QED BY <1>1, <2>5, <3>1 DEF Past
  <2> QED BY <2>2, <2>4, <2>5 DEF Ordered
<1> QED BY <1>3, <1>4, <1>5, <1>6

LEMMA Attempts ==
  ASSUME IInv, Attempt \/ Retry
  PROVE  IInv'
<1>1. Unsettled /\ UNCHANGED <<seq, q, closed, item, closer>>
  BY DEF Attempt, Retry, Unsettled
<1>2. \/ table' = table /\ adrift' \in {adrift, adrift \cup {<<item.id, worker>>}}
      \/ table' = Append(table, [id |-> item.id, late |-> FALSE]) /\ adrift' = adrift
  BY DEF Attempt, Retry, Written, Inserted, Failed, Lost, GiveUp, Undefined, database
<1>3. \/ outcome' = outcome /\ worker' \in {"retry", "again"}
      \/ \E what \in {"written", "failed"} : Settle(what) /\ worker' \in {"wrote", "account"}
  BY DEF Attempt, Retry, Written, Failed, Lost, GiveUp, Undefined
<1> QED BY <1>1, <1>2, <1>3, Works

LEMMA Gets ==
  ASSUME IInv, Get
  PROVE  IInv'
<1> USE DEF IInv
<1>1. /\ q # <<>> /\ worker = "get" /\ item' = q[1]
      /\ worker' = (IF q[1] = Stop THEN "stopped" ELSE "write")
      /\ UNCHANGED <<seq, closed, closer, table, adrift, outcome>>
  BY DEF Get, database
<1>2. /\ Len(q) \in Nat /\ Len(q) >= 1 /\ q' \in Seq(Items) /\ Len(q') = Len(q) - 1
      /\ \A i \in 1..Len(q') : i + 1 \in 1..Len(q) /\ q'[i] = q[i + 1]
      /\ q[1] \in Items /\ 1 \in 1..Len(q)
  BY DEF Get, Types
<1>3. Types'
  BY <1>1, <1>2 DEF Types, Steps
<1>4. Queued'
  <2>1. /\ \A i \in 1..Len(q') : q'[i] # Stop => q'[i].id <= seq
        /\ \A i, j \in 1..Len(q') :
             i < j => q'[i] # Stop /\ (q'[j] # Stop => q'[i].id < q'[j].id)
    <3>1. \A i \in 1..Len(q') : q'[i] # Stop => q'[i].id <= seq
      BY <1>2 DEF Queued
    <3>2. ASSUME NEW i \in 1..Len(q'), NEW j \in 1..Len(q'), i < j
          PROVE  q'[i] # Stop /\ (q'[j] # Stop => q'[i].id < q'[j].id)
      <4>1. i + 1 \in 1..Len(q) /\ j + 1 \in 1..Len(q) /\ i + 1 < j + 1
        BY <1>2, <3>2
      <4>2. q'[i] = q[i + 1] /\ q'[j] = q[j + 1]
        BY <1>2
      <4>3. q[i + 1] # Stop /\ (q[j + 1] # Stop => q[i + 1].id < q[j + 1].id)
        BY <4>1 DEF Queued
      <4> QED BY <4>2, <4>3
    <3> QED BY <3>1, <3>2
  <2>2. InHandNow' => /\ q[1] # Stop /\ q[1].id <= seq
                      /\ \A i \in 1..Len(q') : q'[i] # Stop => q[1].id < q'[i].id
    BY <1>1, <1>2 DEF Queued, InHandNow
  <2> QED BY <1>1, <2>1, <2>2 DEF Queued
<1>5. Stopping'
  <2>1. CASE q[1] = Stop
    <3>1. Len(q) = 1
      BY <1>2, <2>1 DEF Queued
    <3>2. q' = <<>>
      BY <1>2, <3>1
    <3>3. closer \in {"join", "done"} /\ closed
      BY <1>2, <2>1 DEF Stopping
    <3> QED BY <1>1, <2>1, <3>2, <3>3 DEF Stopping
  <2>2. CASE q[1] # Stop
    BY <1>1, <1>2, <2>2 DEF Stopping
  <2> QED BY <2>1, <2>2
<1>6. Accounted'
  <2> SUFFICES ASSUME NEW r \in 1..seq, outcome[r] = "none"
               PROVE  (Unsettled' /\ item'.id = r) \/ \E i \in 1..Len(q') : q'[i].id = r
    BY <1>1 DEF Accounted
  <2>1. PICK i \in 1..Len(q) : q[i].id = r
    BY <1>1 DEF Accounted, Unsettled
  <2>2. CASE i = 1
    <3>1. q[1] # Stop
      BY <2>1, <2>2, StopType
    <3> QED BY <1>1, <2>1, <2>2, <3>1 DEF Unsettled
  <2>3. CASE i # 1
    <3>1. i - 1 \in 1..Len(q') /\ q'[i - 1] = q[i]
      BY <1>2, <2>3
    <3> QED BY <2>1, <3>1
  <2> QED BY <2>2, <2>3
<1>7. Ordered'
  <2>1. TableInOrder'
    BY <1>1 DEF Ordered, TableInOrder
  <2>2. ASSUME NEW r \in Nat, Past(r) PROVE Past(r)'
    <3>1. q[1] # Stop => r <= q[1].id
      BY <1>2, <2>2, ItemType DEF Past
    <3>2. \A i \in 1..Len(q') : q'[i] # Stop => r < q'[i].id
      BY <1>2, <2>2 DEF Past
    <3> QED BY <1>1, <2>2, <3>1, <3>2 DEF Past, InHandNow
  <2> QED BY <1>1, <2>1, <2>2, TableType DEF Ordered
<1> QED BY <1>3, <1>4, <1>5, <1>6, <1>7

LEMMA Drains ==
  ASSUME IInv, Drain
  PROVE  IInv'
<1> USE DEF IInv
<1>1. /\ q' = <<>> /\ closer = "drain" /\ closer' = "cut"
      /\ outcome' = [r \in Rows |-> IF \E x \in Range(q) : x.id = r THEN "left" ELSE outcome[r]]
      /\ UNCHANGED <<seq, closed, worker, item, table, adrift>>
  BY DEF Drain, database
<1>2. Range(q) = {q[i] : i \in 1..Len(q)}
  BY DEF Range, Types
<1>3. Types'
  <2>1. outcome' \in [Rows -> Outcomes]
    BY <1>1 DEF Types, Outcomes
  <2>2. q' \in Seq(Items)
    BY <1>1
  <2> QED BY <1>1, <2>1, <2>2 DEF Types
<1>4. Queued' /\ Stopping'
  BY <1>1 DEF Queued, Stopping, InHandNow
<1>5. Accounted'
  <2> SUFFICES ASSUME NEW r \in 1..seq, outcome'[r] = "none"
               PROVE  Unsettled /\ item.id = r
    BY <1>1 DEF Accounted, Unsettled
  <2>1. r \in Rows
    BY QueueAssumption DEF Types, Rows
  <2>2. outcome[r] = "none" /\ \A x \in Range(q) : x.id # r
    BY <1>1, <2>1
  <2> QED BY <1>2, <2>2 DEF Accounted
<1>6. Ordered'
  <2>1. \A r \in Nat : Past(r) => Past(r)'
    BY <1>1 DEF Past, InHandNow
  <2> QED BY <1>1, <2>1, TableType DEF Ordered, TableInOrder
<1> QED BY <1>3, <1>4, <1>5, <1>6

LEMMA PutStops ==
  ASSUME IInv, PutStop
  PROVE  IInv'
<1> USE DEF IInv
<1>1. /\ closer = "stop" /\ closer' = "join" /\ q' = Append(q, Stop) /\ closed
      /\ UNCHANGED <<seq, closed, worker, item, table, adrift, outcome>>
  BY DEF PutStop, Stopping, database
<1>2. /\ q' \in Seq(Items) /\ Len(q') = Len(q) + 1 /\ Len(q) \in Nat
      /\ q'[Len(q) + 1] = Stop /\ \A i \in 1..Len(q) : q'[i] = q[i]
  BY <1>1, StopType DEF Types
<1>3. \A i \in 1..Len(q') : i = Len(q) + 1 \/ i \in 1..Len(q)
  BY <1>2
<1>4. \A i \in 1..Len(q) : q[i] # Stop
  BY <1>1 DEF Stopping
<1>5. Types'
  BY <1>1, <1>2 DEF Types
<1>6. Queued'
  BY <1>1, <1>2, <1>3, <1>4 DEF Queued, InHandNow
<1>7. Stopping'
  BY <1>1, <1>2 DEF Stopping
<1>8. Accounted'
  BY <1>1, <1>2, <1>3 DEF Accounted, Unsettled
<1>9. Ordered'
  <2>1. \A r \in Nat : Past(r) => Past(r)'
    BY <1>1, <1>2, <1>3 DEF Past, InHandNow
  <2> QED BY <1>1, <2>1, TableType DEF Ordered, TableInOrder
<1> QED BY <1>5, <1>6, <1>7, <1>8, <1>9

\* The other steps touch neither the rows nor the order.
LEMMA Others ==
  ASSUME IInv, CaughtUp \/ Account \/ Close \/ Flush \/ CutConn \/ Join
  PROVE  IInv'
<1> USE DEF IInv
<1>1. UNCHANGED <<seq, q, item, table, adrift, outcome>>
  BY DEF CaughtUp, Account, Close, Flush, CutConn, Join, database
<1>2. Types' /\ Queued' /\ Ordered'
  <2>1. Types' /\ Queued'
    BY <1>1 DEF Types, Steps, Queued, InHandNow,
       CaughtUp, Account, Close, Flush, CutConn, Join
  <2>2. InHandNow' => InHandNow
    BY DEF InHandNow, CaughtUp, Account, Close, Flush, CutConn, Join
  <2>3. \A r \in Nat : Past(r) => Past(r)'
    BY <1>1, <2>2 DEF Past
  <2> QED BY <1>1, <2>1, <2>3, TableType DEF Ordered, TableInOrder
<1>3. Stopping'
  BY <1>1 DEF Stopping, CaughtUp, Account, Close, Flush, CutConn, Join
<1>4. Accounted'
  BY <1>1 DEF Accounted, Unsettled, CaughtUp, Account, Close, Flush, CutConn, Join
<1> QED BY <1>2, <1>3, <1>4

LEMMA Drops ==
  ASSUME IInv, DropTable
  PROVE  IInv'
<1>1. /\ table' = <<>>
      /\ UNCHANGED <<seq, q, closed, worker, item, closer, adrift, outcome>>
  BY DEF DropTable
<1>2. Types' /\ Queued' /\ Stopping' /\ Accounted'
  BY <1>1 DEF IInv, Types, Queued, Stopping, Accounted, InHandNow, Unsettled
<1>3. \A r \in Nat : Past(r) => Past(r)'
  BY <1>1 DEF Past, InHandNow
<1> QED BY <1>1, <1>2, <1>3, TableType DEF IInv, Ordered, TableInOrder

\* What comes late was on its way before what is still to come.
LEMMA Lates ==
  ASSUME IInv, LateCommit
  PROVE  IInv'
<1> USE DEF IInv
<1>1. PICK a \in adrift : /\ table' = Append(table, [id |-> a[1], late |-> TRUE])
                         /\ adrift' = adrift \ {a}
  BY DEF LateCommit
<1>2. UNCHANGED <<seq, q, closed, worker, item, closer, outcome>>
  BY DEF LateCommit
<1>3. PICK x \in [id : Rows, late : BOOLEAN] : x = [id |-> a[1], late |-> TRUE]
  BY TableType
<1>4. /\ table' \in Seq([id : Rows, late : BOOLEAN]) /\ Len(table) \in Nat
      /\ Len(table') = Len(table) + 1 /\ table'[Len(table) + 1] = x
      /\ \A i \in 1..Len(table) : table'[i] = table[i]
  <2>1. table \in Seq([id : Rows, late : BOOLEAN])
    BY DEF Types
  <2> QED BY <1>1, <1>3, <2>1, AppendProperties, TableType
<1>5. \A i \in 1..Len(table') : i = Len(table) + 1 \/ i \in 1..Len(table)
  BY <1>4
<1>6. Types' /\ Queued' /\ Stopping' /\ Accounted'
  BY <1>1, <1>2, <1>4 DEF Types, Queued, Stopping, Accounted, InHandNow, Unsettled
<1>7. \A r \in Nat : Past(r) => Past(r)'
  BY <1>2 DEF Past, InHandNow
<1>8. TableInOrder'
  <2> SUFFICES ASSUME NEW i \in 1..Len(table'), NEW j \in 1..Len(table'), i < j,
                      table'[i].id > table'[j].id
               PROVE  table'[j].late
    BY <1>4 DEF TableInOrder
  <2>1. CASE j = Len(table) + 1
    BY <1>3, <1>4, <2>1
  <2>2. CASE j \in 1..Len(table)
    <3>1. i \in 1..Len(table)
      BY <1>4, <1>5, <2>2
    <3> QED BY <1>4, <2>2, <3>1, TableType DEF Ordered, TableInOrder
  <2> QED BY <1>5, <2>1, <2>2
<1>9. \A i \in 1..Len(table') : Past(table[i].id)'
  <2>1. x.id = a[1] /\ Past(a[1]) /\ a[1] \in Nat
    BY <1>3, TableType DEF Ordered
  <2>2. \A i \in 1..Len(table) : Past(table[i].id) /\ table[i].id \in Nat
    BY TableType DEF Ordered
  <2>3. ASSUME NEW i \in 1..Len(table') PROVE Past(table[i].id)'
    <3>1. PICK r \in Nat : r = table'[i].id /\ Past(r)
      BY <1>4, <1>5, <2>1, <2>2
    <3>2. Past(r)'
      BY <1>7, <3>1
    <3> QED BY <3>1, <3>2
  <2> QED BY <2>3
<1>10. \A b \in adrift' : Past(b[1])'
  BY <1>1, <1>7, TableType DEF Ordered
<1> QED BY <1>6, <1>8, <1>9, <1>10 DEF Ordered

LEMMA InvStep == IInv /\ [Next]_vars => IInv'
<1> SUFFICES ASSUME IInv, [Next]_vars PROVE IInv'
  OBVIOUS
<1>1. ASSUME NEW size \in Sizes, WriteRow(size) PROVE IInv'
  <2>1. CASE ~closed /\ ~Full(size)
    BY <1>1, <2>1, Accepts DEF WriteRow, database
  <2>2. CASE closed \/ Full(size)
    BY <1>1, <2>2, Refusals DEF WriteRow, database, Outcomes
  <2> QED BY <2>1, <2>2
<1>2. CASE Work
  BY <1>2, Gets, Attempts, Others DEF Work
<1>3. CASE Closing
  BY <1>3, Drains, PutStops, Others DEF Closing
<1>4. CASE UNCHANGED vars
  BY <1>4 DEF vars, database, IInv, Types, Queued, Stopping, Accounted, Ordered, Past,
     TableInOrder, InHandNow, Unsettled
<1> QED BY <1>1, <1>2, <1>3, <1>4, Others, Drops, Lates DEF Next

THEOREM Invariant == Spec => []IInv
BY InitIInv, InvStep, PTL DEF Spec

\* The rows of the table are in the order the file has them, whatever the
\* connections, the retries, the table and the closing thread did.
THEOREM FileOrder == Spec => []TableInOrder
<1>1. IInv => TableInOrder
  BY DEF IInv, Ordered
<1> QED BY <1>1, Invariant, PTL

\* Once the worker has stopped every row has met its end.
THEOREM NoneForgotten == Spec => []NoRowForgotten
<1>1. IInv => NoRowForgotten
  <2> SUFFICES ASSUME IInv, worker = "stopped", NEW r \in 1..seq
               PROVE  outcome[r] # "none"
    BY DEF NoRowForgotten
  <2>1. Len(q) = 0 /\ ~Unsettled
    BY DEF IInv, Stopping, Unsettled
  <2> QED BY <2>1 DEF IInv, Accounted
<1> QED BY <1>1, Invariant, PTL

-----------------------------------------------------------------------------
(* The counters *)

SizeOf == [x \in Items |-> x.size]

Bytes(S) == SumFunctionOnSet(SizeOf, S)

\* The sizes of the positions of the queue.
Places == [i \in DOMAIN q |-> q[i].size]

\* The counters, and what bounds them.
Counters ==
  /\ pending = Cardinality(Held) /\ bytes = Bytes(Held)
  /\ MemoryBounded
  /\ pending \in 0..seq /\ dropped \in 0..seq /\ Len(q) <= QueueMax
  /\ conn \in {"none", "up", "cut"} /\ there \in BOOLEAN

LEMMA QueueRange ==
  ASSUME Types
  PROVE  /\ Range(q) = {q[i] : i \in 1..Len(q)} /\ DOMAIN q = 1..Len(q) /\ Len(q) \in Nat
         /\ IsFiniteSet(Range(q)) /\ Range(q) \subseteq Items
<1>1. /\ Range(q) = {q[i] : i \in 1..Len(q)} /\ DOMAIN q = 1..Len(q) /\ Len(q) \in Nat
      /\ Range(q) \subseteq Items
  BY DEF Types, Range
<1>2. IsFiniteSet(1..Len(q))
  BY <1>1, FS_Interval
<1>3. q \in Surjection(1..Len(q), Range(q))
  BY <1>1 DEF Types, Surjection
<1> QED BY <1>1, <1>2, <1>3, FS_Surjection

LEMMA HeldFacts ==
  ASSUME Types
  PROVE  /\ IsFiniteSet(Held) /\ Held \subseteq Items \ {Stop}
         /\ \A x \in Held : SizeOf[x] \in Nat \ {0}
         /\ SumFunction([x \in Held |-> x.size]) = Bytes(Held)
         /\ Bytes(Held) \in Nat
<1>1. InHand \subseteq Items /\ IsFiniteSet(InHand)
  <2>1. IsFiniteSet({item}) /\ IsFiniteSet({})
    BY FS_Singleton, FS_EmptySet
  <2> QED BY <2>1 DEF InHand, Types
<1>2. IsFiniteSet(InHand \cup Range(q)) /\ Held \subseteq InHand \cup Range(q)
  BY <1>1, QueueRange, FS_Union DEF Held
<1>3. IsFiniteSet(Held)
  BY <1>2, FS_Subset
<1>4. Held \subseteq Items \ {Stop}
  BY <1>1, QueueRange DEF Held
<1>5. \A x \in Held : SizeOf[x] = x.size /\ x.size \in Nat \ {0}
  <2> SUFFICES ASSUME NEW x \in Held PROVE SizeOf[x] = x.size /\ x.size \in Nat \ {0}
    OBVIOUS
  <2>1. x \in [id : Rows, size : Sizes] /\ x \in Items
    BY <1>4 DEF Items
  <2> QED BY <2>1, SizeAssumption DEF SizeOf
<1> DEFINE f == [x \in Held |-> x.size]
<1>6. \A x \in Held : f[x] \in Int /\ f[x] = SizeOf[x]
  BY <1>5
<1>7. SumFunction(f) = SumFunctionOnSet(f, Held)
  BY DEF SumFunction
<1> HIDE DEF f
<1>8. SumFunctionOnSet(f, Held) = Bytes(Held)
  BY <1>3, <1>6, SumSame DEF Bytes
<1>9. Bytes(Held) \in Nat
  <2>1. \A x \in Held : SizeOf[x] \in Nat
    BY <1>5
  <2> QED BY <1>3, <2>1, SumPart DEF Bytes
<1> QED BY <1>3, <1>4, <1>5, <1>7, <1>8, <1>9 DEF f

\* A step that holds the same records and counts the same.
LEMMA SameHeld ==
  ASSUME Counters, Held' = Held, UNCHANGED counters, seq <= seq', seq \in Nat, seq' \in Nat,
         dropped' \in 0..seq', Len(q') <= QueueMax,
         conn' \in {"none", "up", "cut"}, there' \in BOOLEAN
  PROVE  Counters'
BY DEF Counters, counters, MemoryBounded, Bytes

LEMMA CountersInit == Init => Counters
<1> SUFFICES ASSUME Init PROVE Counters
  OBVIOUS
<1>1. Held = {} /\ q = <<>> /\ Len(q) = 0 /\ dropped = 0 /\ seq = 0
  BY DEF Init, Held, InHand, Range
<1>2. Cardinality({}) = 0 /\ Bytes({}) = 0
  BY FS_EmptySet, SumEmpty DEF Bytes
<1> QED BY <1>1, <1>2, QueueAssumption DEF Init, Counters, MemoryBounded

\* A row let in: nothing is held, or there is room for it.
LEMMA LetIn ==
  ASSUME IInv, Counters, NEW size \in Sizes, WriteRow(size), ~closed, ~Full(size)
  PROVE  Counters'
<1> DEFINE x == [id |-> seq', size |-> size]
<1>1. /\ seq' = seq + 1 /\ seq \in Nat /\ q' = Append(q, x) /\ x \in Items /\ x # Stop
      /\ pending' = pending + 1 /\ bytes' = bytes + size /\ size \in Nat \ {0}
      /\ UNCHANGED <<dropped, item, conn, there>>
      /\ worker' = IF worker = "none" THEN "get" ELSE worker
  <2>1. /\ seq < MaxRows /\ seq' = seq + 1 /\ q' = Append(q, x)
        /\ pending' = pending + 1 /\ bytes' = bytes + size
        /\ UNCHANGED <<dropped, item, conn, there>>
        /\ worker' = IF worker = "none" THEN "get" ELSE worker
    BY DEF WriteRow, database
  <2>2. seq \in Nat /\ seq + 1 \in Rows /\ size \in Nat \ {0}
    BY <2>1, SizeAssumption, QueueAssumption DEF IInv, Types, Rows
  <2> QED BY <2>1, <2>2 DEF Items, Stop, Rows
<1>2. x \notin Held
  <2>1. \A i \in 1..Len(q) : q[i] # Stop => q[i].id # seq + 1
    BY <1>1, ItemType DEF IInv, Types, Queued
  <2>2. InHandNow => item.id # seq + 1
    BY <1>1, ItemType DEF IInv, Types, Queued
  <2>3. x.id = seq + 1 /\ Range(q) = {q[i] : i \in 1..Len(q)}
    BY <1>1, QueueRange DEF IInv
  <2> QED BY <1>1, <2>1, <2>2, <2>3 DEF Held, InHand, InHandNow
<1> HIDE DEF x
<1>3. Held' = Held \cup {x}
  <2>1. InHand' = InHand
    BY <1>1 DEF InHand
  <2>2. Range(q') = Range(q) \cup {x}
    <3>1. /\ DOMAIN q' = 1..(Len(q) + 1) /\ q'[Len(q) + 1] = x /\ Len(q) \in Nat
          /\ \A i \in 1..Len(q) : q'[i] = q[i]
      BY <1>1 DEF IInv, Types
    <3>2. \A i \in DOMAIN q' : i \in 1..Len(q) \/ i = Len(q) + 1
      BY <3>1
    <3> QED BY <3>1, <3>2, QueueRange DEF IInv, Range
  <2> QED BY <1>1, <2>1, <2>2 DEF Held
<1>4. /\ IsFiniteSet(Held) /\ \A y \in Held : SizeOf[y] \in Nat \ {0}
      /\ SizeOf[x] = size
  BY <1>1, HeldFacts DEF IInv, SizeOf, x
<1>5. Cardinality(Held \cup {x}) = Cardinality(Held) + 1 /\ Cardinality(Held) \in Nat
  BY <1>2, <1>4, FS_AddElement, FS_CardinalityType
<1>6. Bytes(Held \cup {x}) = size + Bytes(Held)
  <2>1. SizeOf[x] \in Int /\ \A y \in Held : SizeOf[y] \in Int
    BY <1>1, <1>4
  <2> QED BY <1>2, <1>4, <2>1, SumAdd DEF Bytes
<1>7. Bytes(Held) \in Nat
  BY HeldFacts DEF IInv
<1>8. MemoryBounded'
  <2>1. CASE bytes = 0
    <3>1. Held = {}
      <4> SUFFICES ASSUME NEW y \in Held PROVE FALSE
        OBVIOUS
      <4>1. Bytes(Held) = SizeOf[y] + SumFunctionOnSet(SizeOf, Held \ {y})
        <5>1. \A z \in Held : SizeOf[z] \in Int
          BY <1>4
        <5> QED BY <1>4, <5>1, SumRemove DEF Bytes
      <4>2. SumFunctionOnSet(SizeOf, Held \ {y}) \in Nat
        <5>1. IsFiniteSet(Held \ {y}) /\ \A z \in Held \ {y} : SizeOf[z] \in Nat
          BY <1>4, FS_Subset
        <5> QED BY <5>1, SumPart
      <4>3. Bytes(Held) = 0 /\ SizeOf[y] \in Nat \ {0}
        BY <1>4, <2>1 DEF Counters
      <4> DEFINE rest == SumFunctionOnSet(SizeOf, Held \ {y})
      <4>4. Bytes(Held) = SizeOf[y] + rest /\ rest \in Nat
        BY <4>1, <4>2
      <4> HIDE DEF rest
      <4> QED BY <4>3, <4>4
    <3>2. Cardinality(Held') = 1
      BY <1>3, <1>5, <3>1, FS_EmptySet
    <3> QED BY <3>2 DEF MemoryBounded
  <2>2. CASE bytes # 0
    <3>1. bytes \in Nat /\ bytes + size <= BytesMax
      <4>1. bytes \in Nat
        BY <1>7 DEF Counters
      <4> QED BY <1>1, <2>2, <4>1, QueueAssumption DEF Full
    <3> QED BY <1>1, <3>1 DEF MemoryBounded
  <2> QED BY <2>1, <2>2
<1>9. Len(q') <= QueueMax
  <2>1. Len(q') = Len(q) + 1 /\ Len(q) \in Nat
    BY <1>1 DEF IInv, Types
  <2> QED BY <2>1, QueueAssumption DEF Full
<1>10. pending' = Cardinality(Held') /\ pending' \in 0..seq' /\ bytes' = Bytes(Held')
  BY <1>1, <1>3, <1>5, <1>6, <1>7 DEF Counters, Bytes
<1> QED BY <1>1, <1>8, <1>9, <1>10 DEF Counters

\* The record settled leaves the books, once.
LEMMA Accounts ==
  ASSUME IInv, Counters, Account
  PROVE  Counters'
<1>1. /\ pending' = pending - 1 /\ bytes' = bytes - item.size /\ InHandNow
      /\ UNCHANGED <<seq, q, dropped, item, conn, there>> /\ worker' = "get"
  BY DEF Account, InHandNow, database
<1>2. /\ item # Stop /\ item \in Items /\ seq \in Nat
      /\ \A i \in 1..Len(q) : q[i] # Stop => item.id < q[i].id
  BY <1>1, QueueAssumption DEF IInv, Types, Queued
<1>3. item \notin Range(q)
  <2> SUFFICES ASSUME NEW i \in 1..Len(q), q[i] = item PROVE FALSE
    BY QueueRange DEF IInv
  <2>1. item.id \in Nat /\ item.id < item.id
    BY <1>2, ItemType
  <2> QED BY <2>1
<1>4. item \in Held /\ Held' = Held \ {item}
  BY <1>1, <1>2, <1>3 DEF Held, InHand, InHandNow
<1>5. /\ IsFiniteSet(Held) /\ \A y \in Held : SizeOf[y] \in Nat \ {0}
      /\ SizeOf[item] = item.size
  BY <1>2, HeldFacts DEF IInv, SizeOf
<1>6. /\ Cardinality(Held \ {item}) = Cardinality(Held) - 1 /\ Cardinality(Held) \in Nat
      /\ Cardinality(Held \ {item}) \in Nat /\ IsFiniteSet(Held \ {item})
  BY <1>4, <1>5, FS_RemoveElement, FS_CardinalityType
<1>7. Bytes(Held) = item.size + Bytes(Held \ {item}) /\ Bytes(Held \ {item}) \in Nat
  <2>1. \A y \in Held : SizeOf[y] \in Int
    BY <1>5
  <2>2. Bytes(Held) = item.size + Bytes(Held \ {item})
    BY <1>4, <1>5, <2>1, SumRemove DEF Bytes
  <2>3. \A y \in Held \ {item} : SizeOf[y] \in Nat
    BY <1>5
  <2>4. Bytes(Held \ {item}) \in Nat
    BY <1>6, <2>3, SumPart DEF Bytes
  <2> QED BY <2>2, <2>4
<1>8. item.size \in Nat
  BY <1>4, <1>5
<1>9. /\ bytes' = Bytes(Held \ {item}) /\ pending' = Cardinality(Held \ {item})
      /\ pending' \in 0..seq /\ bytes \in Int /\ bytes' <= bytes
  <2> DEFINE rest == Bytes(Held \ {item})
  <2>1. bytes = item.size + rest /\ rest \in Nat /\ pending = Cardinality(Held)
        /\ pending \in 0..seq
    BY <1>7 DEF Counters
  <2> HIDE DEF rest
  <2> QED BY <1>1, <1>2, <1>6, <1>8, <2>1 DEF rest
<1>10. MemoryBounded'
  <2>1. Cardinality(Held') > 1 => Cardinality(Held) > 1
    BY <1>4, <1>6
  <2>2. Cardinality(Held) > 1 => bytes <= BytesMax
    BY DEF Counters, MemoryBounded
  <2> QED BY <1>7, <1>9, <2>1, <2>2, QueueAssumption DEF MemoryBounded
<1>11. bytes' = Bytes(Held')
  BY <1>4, <1>9 DEF Bytes
<1> QED BY <1>1, <1>4, <1>9, <1>10, <1>11 DEF Counters

\* What the drain takes off the books is what it takes out of the queue.
LEMMA DrainCounts ==
  ASSUME IInv, Drain, Counters
  PROVE  Counters'
<1> DEFINE R == Range(q)
           S == Held \ R
<1>1. /\ q' = <<>> /\ Len(q') = 0 /\ pending' = pending - Len(q)
      /\ bytes' = bytes - SumFunction(Places)
      /\ UNCHANGED <<seq, dropped, worker, item, conn, there>>
      /\ closer = "drain"
  BY DEF Drain, Places, database
<1>2. /\ \A i \in 1..Len(q) : q[i] # Stop
      /\ \A i, j \in 1..Len(q) : q[i] = q[j] => i = j
  <2>1. \A i \in 1..Len(q) : q[i] # Stop
    BY <1>1 DEF IInv, Stopping
  <2>2. \A i, j \in 1..Len(q) : i < j => q[i].id < q[j].id
    BY <2>1 DEF IInv, Queued
  <2> SUFFICES ASSUME NEW i \in 1..Len(q), NEW j \in 1..Len(q), q[i] = q[j], i # j
               PROVE  FALSE
    BY <2>1
  <2>3. q[i].id \in Nat /\ Len(q) \in Nat
    BY QueueRange, ItemType DEF IInv
  <2>4. q[i].id < q[i].id
    <3>1. i < j \/ j < i
      BY <2>3
    <3> QED BY <2>2, <3>1
  <2> QED BY <2>3, <2>4
<1>3. /\ R = {q[i] : i \in 1..Len(q)} /\ DOMAIN q = 1..Len(q) /\ Len(q) \in Nat
      /\ IsFiniteSet(R) /\ R \subseteq Items
  BY QueueRange DEF IInv
<1>4. /\ R \subseteq Held /\ Stop \notin R
  BY <1>2, <1>3 DEF Held
<1>5. Held' = S
  <2>1. Range(q') = {}
    BY <1>1 DEF Range
  <2>2. InHand' = InHand
    BY <1>1 DEF InHand
  <2>3. item \in R => item.id # item.id \/ ~InHandNow
    <3>1. ASSUME NEW i \in 1..Len(q), q[i] = item, InHandNow PROVE FALSE
      <4>1. item.id < item.id /\ item.id \in Nat
        BY <1>2, <3>1, ItemType DEF IInv, Queued, Types
      <4> QED BY <4>1
    <3> QED BY <1>3, <3>1
  <2> QED BY <2>1, <2>2, <2>3 DEF Held, InHand, InHandNow
<1>6. /\ IsFiniteSet(Held) /\ \A y \in Held : SizeOf[y] \in Nat \ {0}
      /\ IsFiniteSet(S) /\ Held = S \cup R /\ S \cap R = {}
  BY <1>4, HeldFacts, FS_Subset DEF IInv
<1>7. Cardinality(R) = Len(q)
  <2> DEFINE n == Len(q)
  <2>1. q \in Surjection(1..n, R) /\ q \in Injection(1..n, R) /\ n \in Nat
    BY <1>2, <1>3 DEF IInv, Types, Injection, IsInjective, Surjection
  <2> HIDE DEF n, R
  <2>2. IsFiniteSet(1..n) /\ Cardinality(1..n) = IF 1 > n THEN 0 ELSE n - 1 + 1
    BY <2>1, FS_Interval
  <2>3. Cardinality(R) = Cardinality(1..n)
    BY <2>1, <2>2, FS_Surjection
  <2>4. Cardinality(R) = n
    BY <2>1, <2>2, <2>3
  <2> QED BY <2>4 DEF n
<1>8. Cardinality(Held) = Cardinality(S) + Len(q) /\ Cardinality(S) \in Nat
  <2> HIDE DEF S, R
  <2>1. /\ Cardinality(S \cup R) = Cardinality(S) + Cardinality(R) - Cardinality(S \cap R)
        /\ Cardinality(S \cap R) = 0 /\ Cardinality(S) \in Nat
    BY <1>3, <1>6, FS_Union, FS_EmptySet, FS_CardinalityType
  <2>2. /\ Cardinality(Held) = Cardinality(S) + Cardinality(R) - 0
        /\ Cardinality(R) \in Nat
    BY <1>3, <1>6, <1>7, <2>1
  <2> QED BY <1>7, <2>1, <2>2
<1>9. SumFunction(Places) = Bytes(R)
  <2>1. \A i \in 1..Len(q) : Places[i] \in Int /\ SizeOf[q[i]] = Places[i]
    <3> SUFFICES ASSUME NEW i \in 1..Len(q)
                 PROVE  Places[i] \in Int /\ SizeOf[q[i]] = Places[i]
      OBVIOUS
    <3>1. q[i] \in Held /\ q[i] \in Items
      BY <1>3, <1>4
    <3>2. SizeOf[q[i]] \in Nat /\ SizeOf[q[i]] = q[i].size /\ Places[i] = q[i].size
      BY <1>3, <1>6, <3>1 DEF Places, SizeOf
    <3> QED BY <3>2
  <2>2. SumFunction(Places) = SumFunctionOnSet(Places, 1..Len(q))
    BY <1>3 DEF SumFunction, Places
  <2>3. IsFiniteSet(1..Len(q))
    BY <1>3, FS_Interval
  <2> DEFINE D == 1..Len(q)
  <2>4. \A i, j \in D : q[i] = q[j] => i = j
    BY <1>2
  <2>5. IsFiniteSet(D) /\ \A i \in D : Places[i] \in Int /\ SizeOf[q[i]] = Places[i]
    BY <2>1, <2>3
  <2> HIDE DEF D, R
  <2>6. SumFunctionOnSet(SizeOf, {q[i] : i \in D}) = SumFunctionOnSet(Places, D)
    BY <2>4, <2>5, SumRenamed
  <2> QED BY <1>3, <2>2, <2>6 DEF D, Bytes
<1>10. Bytes(Held) = Bytes(S) + Bytes(R) /\ Bytes(S) \in Nat /\ Bytes(R) \in Nat
  <2>1. \A y \in S \cup R : SizeOf[y] \in Nat
    BY <1>6
  <2> HIDE DEF S, R
  <2>2. Bytes(S \cup R) = Bytes(S) + Bytes(R)
    BY <1>3, <1>6, <2>1, SumUnion DEF Bytes
  <2>3. Bytes(S) \in Nat /\ Bytes(R) \in Nat
    BY <1>3, <1>6, <2>1, SumPart DEF Bytes
  <2> QED BY <1>6, <2>2, <2>3
<1>11. bytes' = Bytes(Held') /\ pending' = Cardinality(Held')
  <2>1. bytes' = Bytes(S) /\ pending' = Cardinality(S)
    <3> HIDE DEF S, R
    <3> QED BY <1>1, <1>3, <1>8, <1>9, <1>10 DEF Counters
  <2> QED BY <1>5, <2>1 DEF Bytes
<1>12. MemoryBounded'
  <2>1. Cardinality(Held') > 1 => Cardinality(Held) > 1
    <3> HIDE DEF S
    <3> QED BY <1>3, <1>5, <1>8
  <2>2. bytes' <= bytes /\ bytes \in Nat /\ bytes' \in Int
    <3> HIDE DEF S, R
    <3> QED BY <1>1, <1>9, <1>10 DEF Counters
  <2> QED BY <2>1, <2>2, QueueAssumption DEF MemoryBounded, Counters
<1>13. pending' \in 0..seq'
  <2>1. pending' = Cardinality(S) /\ pending = Cardinality(S) + Len(q) /\ pending \in 0..seq
        /\ seq \in Nat
    BY <1>5, <1>8, <1>11, QueueAssumption DEF Counters, IInv, Types
  <2> HIDE DEF S
  <2> QED BY <1>1, <1>3, <1>8, <2>1
<1> QED BY <1>1, <1>11, <1>12, <1>13, QueueAssumption DEF Counters

\* A row taken from the queue is in hand; the sentinel was never counted.
LEMMA GetCounts ==
  ASSUME IInv, Get, Counters
  PROVE  Counters'
<1>1. /\ q # <<>> /\ worker = "get" /\ item' = q[1]
      /\ worker' = (IF q[1] = Stop THEN "stopped" ELSE "write")
      /\ UNCHANGED <<seq, counters, dropped, there>> /\ q' = Tail(q)
      /\ conn' \in {"none", conn}
  BY DEF Get, database
<1>2. /\ Len(q) \in Nat /\ Len(q) >= 1 /\ q' \in Seq(Items) /\ Len(q') = Len(q) - 1
      /\ \A i \in 1..Len(q') : i + 1 \in 1..Len(q) /\ q'[i] = q[i + 1]
      /\ 1 \in 1..Len(q)
  BY <1>1 DEF IInv, Types
<1>3. Range(q) = {q[1]} \cup Range(q')
  <2>1. Range(q) = {q[i] : i \in 1..Len(q)}
    BY QueueRange DEF IInv
  <2>3. Range(q') = {q'[i] : i \in 1..Len(q')}
    BY <1>2 DEF Range
  <2>2. \A i \in 1..Len(q) : i = 1 \/ (i - 1 \in 1..Len(q') /\ q'[i - 1] = q[i])
    BY <1>2
  <2> QED BY <1>2, <2>1, <2>2, <2>3
<1>4. Held' = Held
  <2>1. InHand = {}
    BY <1>1 DEF InHand
  <2>2. CASE q[1] = Stop
    BY <1>1, <1>3, <2>1, <2>2 DEF Held, InHand
  <2>3. CASE q[1] # Stop
    BY <1>1, <1>3, <2>1, <2>3 DEF Held, InHand
  <2> QED BY <2>2, <2>3
<1>5. /\ seq \in Nat /\ dropped' \in 0..seq' /\ conn' \in {"none", "up", "cut"}
      /\ there' \in BOOLEAN /\ Len(q') <= QueueMax
  BY <1>1, <1>2, QueueAssumption DEF Counters, IInv, Types
<1> QED BY <1>1, <1>4, <1>5, SameHeld

LEMMA StopCounts ==
  ASSUME IInv, PutStop, Counters
  PROVE  Counters'
<1>1. /\ Len(q) < QueueMax /\ q' = Append(q, Stop)
      /\ UNCHANGED <<seq, counters, dropped, worker, item, conn, there>>
  BY DEF PutStop, database
<1>2. /\ Len(q') = Len(q) + 1 /\ Len(q) \in Nat /\ DOMAIN q' = 1..(Len(q) + 1)
      /\ q'[Len(q) + 1] = Stop /\ \A i \in 1..Len(q) : q'[i] = q[i]
  BY <1>1, StopType DEF IInv, Types
<1>3. Range(q') = Range(q) \cup {Stop}
  <2>1. \A i \in DOMAIN q' : i \in 1..Len(q) \/ i = Len(q) + 1
    BY <1>2
  <2> QED BY <1>2, <2>1, QueueRange DEF IInv, Range
<1>4. Held' = Held
  BY <1>1, <1>3 DEF Held, InHand
<1>5. /\ seq \in Nat /\ dropped' \in 0..seq' /\ conn' \in {"none", "up", "cut"}
      /\ there' \in BOOLEAN /\ Len(q') <= QueueMax
  BY <1>1, <1>2, QueueAssumption DEF Counters, IInv, Types
<1> QED BY <1>1, <1>4, <1>5, SameHeld

\* The worker's attempts and the closing thread's waits count nothing.
LEMMA OtherCounts ==
  ASSUME IInv, Counters,
         Attempt \/ Retry \/ CaughtUp \/ Close \/ Flush \/ CutConn \/ Join
         \/ DropTable \/ LateCommit
  PROVE  Counters'
<1>1. UNCHANGED <<seq, q, counters, item>>
  BY DEF Attempt, Retry, CaughtUp, Close, Flush, CutConn, Join, DropTable, LateCommit
<1>2. InHand' = InHand
  BY <1>1 DEF InHand, Attempt, Retry, CaughtUp, Close, Flush, CutConn, Join, DropTable,
     LateCommit, database, Written, Failed, Lost, GiveUp, Undefined
<1>3. Held' = Held
  BY <1>1, <1>2 DEF Held
<1>4. /\ dropped' \in {0, dropped} /\ there' \in BOOLEAN
      /\ conn' \in {"none", "up", "cut"}
  BY DEF Attempt, Retry, CaughtUp, Close, Flush, CutConn, Join, DropTable,
     LateCommit, database, Written, Failed, Lost, GiveUp, Undefined, Prepared, Prepares, Counters
<1>5. seq \in Nat /\ dropped' \in 0..seq' /\ Len(q') <= QueueMax
  BY <1>1, <1>4, QueueAssumption DEF Counters, IInv, Types
<1> QED BY <1>1, <1>3, <1>4, <1>5, SameHeld

\* A row that is refused is not counted.
LEMMA RefusalCounts ==
  ASSUME IInv, Counters, NEW size \in Sizes, WriteRow(size), closed \/ Full(size)
  PROVE  Counters'
<1>1. /\ seq' = seq + 1 /\ UNCHANGED <<q, counters, worker, item, conn, there>>
      /\ dropped' \in {dropped, dropped + 1} /\ seq \in Nat
  BY QueueAssumption DEF WriteRow, database, IInv, Types
<1>2. Held' = Held
  BY <1>1 DEF Held, InHand
<1>3. dropped' \in 0..seq' /\ Len(q') <= QueueMax
  BY <1>1 DEF Counters
<1> QED BY <1>1, <1>2, <1>3, SameHeld DEF Counters

LEMMA CountersStep == IInv /\ Counters /\ [Next]_vars => Counters'
<1> SUFFICES ASSUME IInv, Counters, [Next]_vars PROVE Counters'
  OBVIOUS
<1>1. ASSUME NEW size \in Sizes, WriteRow(size) PROVE Counters'
  BY <1>1, LetIn, RefusalCounts
<1>2. CASE Work
  BY <1>2, GetCounts, Accounts, OtherCounts DEF Work
<1>3. CASE Closing
  BY <1>3, DrainCounts, StopCounts, OtherCounts DEF Closing
<1>4. CASE UNCHANGED vars
  BY <1>4 DEF vars, database, Counters, MemoryBounded, Held, InHand, Bytes
<1> QED BY <1>1, <1>2, <1>3, <1>4, OtherCounts DEF Next

LEMMA Counted == Spec => [](IInv /\ Counters)
BY InitIInv, InvStep, CountersInit, CountersStep, PTL DEF Spec

\* Every row is a row handed over, the queue is within its length, and no
\* counter is ever negative or above the rows there were.
THEOREM TypeCorrect == Spec => []TypeOK
<1>1. IInv /\ Counters => TypeOK
  <2> SUFFICES ASSUME IInv, Counters PROVE TypeOK
    OBVIOUS
  <2>1. Range(q) \subseteq Items
    BY QueueRange DEF IInv
  <2>4. Range(table) \subseteq [id : Rows, late : BOOLEAN]
    <3>1. PICK T : T = [id : Rows, late : BOOLEAN]
      OBVIOUS
    <3>2. table \in Seq(T)
      BY <3>1 DEF IInv, Types
    <3>3. Range(table) \subseteq T
      BY <3>2 DEF Range
    <3> QED BY <3>1, <3>3
  <2>2. bytes \in Nat
    BY HeldFacts DEF IInv, Counters
  <2>3. pending \in 0..MaxRows /\ dropped \in 0..MaxRows
    BY QueueAssumption DEF IInv, Types, Counters
  <2> QED BY <2>1, <2>2, <2>3, <2>4 DEF IInv, Types, Counters, TypeOK, Outcomes
<1> QED BY <1>1, Counted, PTL

\* The two counters are the records queued and in flight and their bytes, for
\* any queue, whatever the loop, the worker and the closing thread interleave.
THEOREM CountsAreExact == Spec => []CountersExact
<1>1. IInv /\ Counters => CountersExact
  BY HeldFacts DEF IInv, Counters, CountersExact
<1> QED BY <1>1, Counted, PTL

\* No row is refused for want of room while none is held, of whatever size:
\* src/src/mcp_airlock/audit.py:445-456.
THEOREM LoneRowsGetIn == Spec => LoneRowGetsIn
<1> DEFINE A == \A r \in Rows : outcome[r] # "dropped" /\ outcome'[r] = "dropped" => Held # {}
<1>1. IInv /\ Counters /\ [Next]_vars => [A]_vars
  <2> SUFFICES ASSUME IInv, Counters, [Next]_vars, NEW r \in Rows,
                      outcome[r] # "dropped", outcome'[r] = "dropped", Held = {}
               PROVE  FALSE
    OBVIOUS
  <2>1. PICK size \in Sizes : WriteRow(size)
    BY DEF IInv, Types, Next, vars, database, Work, Closing, Get, Attempt, Retry, Written,
       Failed, Lost, GiveUp, Undefined, Settle, CaughtUp, Account, Close, Flush, Drain, CutConn,
       PutStop, Join, DropTable, LateCommit
  <2>2. ~closed /\ Full(size)
    BY <2>1 DEF WriteRow, IInv, Types
  <2>3. bytes = 0
    BY SumEmpty DEF Counters, Bytes
  <2>4. q = <<>>
    <3>1. \A i \in 1..Len(q) : q[i] = Stop
      BY QueueRange DEF IInv, Held
    <3>2. \A i \in 1..Len(q) : q[i] # Stop
      BY <2>2 DEF IInv, Stopping
    <3> QED BY <3>1, <3>2, QueueRange DEF IInv, Types
  <2>5. Len(q) < QueueMax
    BY <2>4, QueueAssumption
  <2> QED BY <2>2, <2>3, <2>5, QueueAssumption DEF Full, IInv, Types
<1> QED BY <1>1, Counted, PTL DEF Spec, LoneRowGetsIn

\* More than one record is never more than QUEUE_MAX_BYTES.
THEOREM MemoryIsBounded == Spec => []MemoryBounded
<1>1. Counters => MemoryBounded
  BY DEF Counters
<1> QED BY <1>1, Counted, PTL

=============================================================================
