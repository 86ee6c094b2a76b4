---------------------------- MODULE CatalogProofs ----------------------------
(* Catalog: its types, and that no call is told of a dry_run argument that *)
(* the upstream had not lately shown to its own caller, for any number of  *)
(* calls, callers and pages, any ttl and any pace of the upstream.         *)
EXTENDS Catalog, TLAPS

\* The upstream showed dry_run to w at time t or later.
ShownSince(w, t) ==
  declared[w] = "dry" \/ (lastDry[w] # None /\ t <= lastDry[w])

\* What a fetch has read so far was declared after it began.
FetchOK(x) ==
  x.pc = "page" =>
    /\ x.who \in Callers
    /\ x.asked <= now /\ now <= x.asked + Slow
    /\ x.page = "dry" \/ x.def = "dry" => ShownSince(x.who, x.asked)

\* What an entry says was declared within a ttl and a fetch of its expiry.
EntryOK(w) ==
  LET e == cache[CacheKey(w)]
  IN /\ e.exp <= now + TTL
     /\ e.def = "dry" =>
          declared[w] = "dry" \/ (lastDry[w] # None /\ e.exp <= lastDry[w] + TTL + Slow)

IInv ==
  /\ TypeOK
  /\ \A c \in Calls : FetchOK(consult[c])
  /\ \A w \in Callers : EntryOK(w)
  /\ DryRunWasDeclared

\* Two callers share an entry of the cache only if they are the same caller.
LEMMA KeyIsCaller ==
  ASSUME NEW v \in Callers, NEW w \in Callers, CacheKey(v) = CacheKey(w)
  PROVE  v = w
BY DEF Callers, CacheKey

LEMMA KeyIsKey == \A w \in Callers : CacheKey(w) \in Keys
BY DEF Keys

LEMMA NewConsultType == NewConsult \in Consults
BY BoundAssumption DEF NewConsult, Consults, Defs

LEMMA ToldType ==
  ASSUME NEW w \in Callers, NEW def \in Defs
  PROVE  /\ Told(w, def) \in Consults
         /\ Told(w, def).pc = "told" /\ Told(w, def).def = def
         /\ Told(w, def).known = (def = "dry" => DeclaredLately(w))
BY NewConsultType, BoundAssumption DEF Told, NewConsult, Consults, Defs

LEMMA MergedType ==
  ASSUME NEW x \in Consults, x.page # None
  PROVE  /\ Merged(x) \in Defs
         /\ Merged(x) = "dry" => x.page = "dry" \/ x.def = "dry"
BY BoundAssumption DEF Merged, Consults, Defs

LEMMA InitIInv == Init => IInv
<1> SUFFICES ASSUME Init PROVE IInv
  OBVIOUS
<1> USE DEF Init
<1>1. TypeOK
  BY NewConsultType, BoundAssumption DEF TypeOK, NoEntry, Entries, Defs
<1>2. \A c \in Calls : FetchOK(consult[c])
  BY DEF FetchOK, NewConsult
<1>3. \A w \in Callers : EntryOK(w)
  BY KeyIsKey, BoundAssumption DEF EntryOK, NoEntry
<1>4. DryRunWasDeclared
  BY DEF DryRunWasDeclared, NewConsult
<1> QED BY <1>1, <1>2, <1>3, <1>4 DEF IInv

\* A step of one call that leaves the rest of the world alone.
LEMMA OneConsult ==
  ASSUME IInv, NEW c \in Calls, NEW x \in Consults,
         UNCHANGED <<now, declared, lastDry, cache>>,
         consult' = [consult EXCEPT ![c] = x],
         FetchOK(x),
         x.pc = "told" /\ x.def = "dry" => x.known
  PROVE  IInv'
<1> USE DEF IInv
<1>1. TypeOK'
  BY DEF TypeOK
<1>2. \A d \in Calls : FetchOK(consult[d])'
  BY DEF TypeOK, FetchOK, ShownSince
<1>3. \A w \in Callers : EntryOK(w)'
  BY DEF EntryOK
<1>4. DryRunWasDeclared'
  BY DEF TypeOK, DryRunWasDeclared
<1> QED BY <1>1, <1>2, <1>3, <1>4

LEMMA ConsultIInv ==
  ASSUME IInv, NEW c \in Calls, NEW w \in Callers, Consult(c, w)
  PROVE  IInv'
<1> USE DEF IInv
<1> DEFINE e == cache[CacheKey(w)]
<1>t. now \in Nat /\ e \in Entries /\ EntryOK(w) /\ TTL \in Nat /\ Slow \in Nat
      /\ lastDry[w] \in Nat \cup {None} /\ None \notin Nat
  BY KeyIsKey, BoundAssumption DEF TypeOK
<1>1. CASE Fresh(e)
  <2>1. e.def = "dry" => DeclaredLately(w)
    BY <1>t, <1>1 DEF EntryOK, Fresh, DeclaredLately, Entries
  <2>2. consult' = [consult EXCEPT ![c] = Told(w, e.def)]
    BY <1>1 DEF Consult
  <2>3. e.def \in Defs
    BY <1>t DEF Entries
  <2>4. FetchOK(Told(w, e.def))
    BY <2>3, ToldType DEF FetchOK
  <2> HIDE DEF e, IInv
  <2> QED BY <2>1, <2>2, <2>3, <2>4, ToldType, OneConsult DEF Consult
<1>2. CASE ~Fresh(e)
  <2> DEFINE x == [NewConsult EXCEPT !.pc = "page", !.who = w, !.asked = now]
  <2>1. x \in Consults /\ x.pc = "page"
    BY <1>t, NewConsultType DEF NewConsult, Consults
  <2>2. FetchOK(x)
    BY <1>t, BoundAssumption DEF NewConsult, FetchOK, Defs
  <2>3. consult' = [consult EXCEPT ![c] = x]
    BY <1>2 DEF Consult
  <2> HIDE DEF x, IInv
  <2> QED BY <2>1, <2>2, <2>3, OneConsult DEF Consult
<1> QED BY <1>1, <1>2

LEMMA ServePageIInv ==
  ASSUME IInv, NEW c \in Calls, ServePage(c)
  PROVE  IInv'
<1> DEFINE x == consult[c]
<1>1. x \in Consults /\ x.pc = "page" /\ FetchOK(x)
  BY DEF IInv, TypeOK, ServePage
<1>2. PICK def \in {"absent", declared[x.who]} : consult' = [consult EXCEPT ![c].page = def]
  BY DEF ServePage
<1> DEFINE y == [x EXCEPT !.page = def]
<1>3. consult' = [consult EXCEPT ![c] = y]
  BY <1>2 DEF IInv, TypeOK
<1>4. declared[x.who] \in Defs
  BY <1>1, CatalogAssumption DEF IInv, TypeOK, FetchOK
<1>5. y \in Consults /\ y.pc = "page"
  BY <1>1, <1>4 DEF Consults, Defs
<1>6. FetchOK(y)
  <2>1. def = "dry" => ShownSince(x.who, x.asked)
    BY DEF ShownSince
  <2> QED BY <1>1, <2>1 DEF FetchOK, Consults
<1> HIDE DEF x, y
<1> QED BY <1>3, <1>5, <1>6, OneConsult DEF ServePage

LEMMA NextPageIInv ==
  ASSUME IInv, NEW c \in Calls, NextPage(c)
  PROVE  IInv'
<1> DEFINE x == consult[c]
<1>1. x \in Consults /\ x.pc = "page" /\ FetchOK(x) /\ x.page # None
  BY DEF IInv, TypeOK, NextPage
<1>2. Merged(x) \in Defs /\ (Merged(x) = "dry" => x.page = "dry" \/ x.def = "dry")
  BY <1>1, MergedType
<1>3. CASE x.pages + 1 < MaxPages
  <2> DEFINE y == [x EXCEPT !.page = None, !.pages = @ + 1, !.def = Merged(x)]
  <2>1. y \in Consults /\ y.pc = "page"
    <3>1. x.pages + 1 \in 0 .. MaxPages - 1
      BY <1>1, <1>3, BoundAssumption DEF Consults
    <3> QED BY <1>1, <1>2, <3>1 DEF Consults
  <2>2. FetchOK(y)
    BY <1>1, <1>2, BoundAssumption DEF FetchOK, Consults, Defs
  <2>3. consult' = [consult EXCEPT ![c] = y]
    BY <1>3 DEF NextPage
  <2> HIDE DEF y
  <2> QED BY <2>1, <2>2, <2>3, OneConsult DEF NextPage
<1>4. CASE ~(x.pages + 1 < MaxPages)
  <2> DEFINE y == [NewConsult EXCEPT !.pc = "denied"]
  <2>1. y \in Consults /\ y.pc = "denied"
    BY NewConsultType DEF Consults, NewConsult
  <2>2. consult' = [consult EXCEPT ![c] = y]
    BY <1>4 DEF NextPage
  <2> HIDE DEF y
  <2> QED BY <2>1, <2>2, OneConsult DEF NextPage, FetchOK
<1> QED BY <1>3, <1>4

LEMMA FailPageIInv ==
  ASSUME IInv, NEW c \in Calls, FailPage(c)
  PROVE  IInv'
<1> DEFINE y == [NewConsult EXCEPT !.pc = "denied"]
<1>1. y \in Consults /\ y.pc = "denied"
  BY NewConsultType DEF Consults, NewConsult
<1>2. consult' = [consult EXCEPT ![c] = y]
  BY DEF FailPage
<1> HIDE DEF y
<1> QED BY <1>1, <1>2, OneConsult DEF FailPage, FetchOK

\* What the fetch that ends has read is a ttl and a fetch younger than the
\* expiry of the entry it makes.
LEMMA LastPageIInv ==
  ASSUME IInv, NEW c \in Calls, LastPage(c)
  PROVE  IInv'
<1> DEFINE x == consult[c]
           y == Told(x.who, Merged(x))
<1>1. x \in Consults /\ x.pc = "page" /\ FetchOK(x) /\ x.page # None
  BY DEF IInv, TypeOK, LastPage
<1>2. Merged(x) \in Defs /\ (Merged(x) = "dry" => x.page = "dry" \/ x.def = "dry")
  BY <1>1, MergedType
<1>3. x.who \in Callers /\ x.asked <= now /\ now <= x.asked + Slow
      /\ (Merged(x) = "dry" => ShownSince(x.who, x.asked))
  BY <1>1, <1>2 DEF FetchOK
<1>4. now \in Nat /\ x.asked \in Nat /\ TTL \in Nat /\ Slow \in Nat
      /\ lastDry[x.who] \in Nat \cup {None} /\ None \notin Nat
  BY <1>1, <1>3, BoundAssumption DEF IInv, TypeOK, Consults
<1>5. Merged(x) = "dry" => DeclaredLately(x.who)
  BY <1>3, <1>4 DEF ShownSince, DeclaredLately
<1>6. y \in Consults /\ y.pc = "told" /\ y.def = Merged(x)
      /\ (y.def = "dry" => y.known)
  BY <1>2, <1>3, <1>5, ToldType
<1>7. consult' = [consult EXCEPT ![c] = y]
  BY DEF LastPage
<1>8. CASE cache' = cache
  <2> HIDE DEF x, y
  <2> QED BY <1>6, <1>7, <1>8, OneConsult DEF LastPage, FetchOK
<1>9. CASE TTL > 0 /\ cache' = Stored(CacheKey(x.who), Merged(x))
  <2> UNCHANGED <<now, declared, lastDry>>
    BY DEF LastPage
  <2>1. NoEntry \in Entries /\ [exp |-> now + TTL, def |-> Merged(x)] \in Entries
    BY <1>2, <1>4 DEF NoEntry, Entries, Defs
  <2>2. cache' \in [Keys -> Entries]
    BY <1>9, <2>1 DEF Stored, IInv, TypeOK
  <2>3. TypeOK'
    BY <1>6, <1>7, <2>2 DEF IInv, TypeOK
  <2>4. ASSUME NEW w \in Callers PROVE EntryOK(w)'
    <3>1. CacheKey(w) \in Keys
      BY KeyIsKey
    <3>2. CASE w = x.who
      <4>1. cache'[CacheKey(w)] = [exp |-> now + TTL, def |-> Merged(x)]
        BY <1>9, <3>1, <3>2 DEF Stored
      <4> QED BY <1>3, <1>4, <3>2, <4>1 DEF EntryOK, ShownSince
    <3>3. CASE w # x.who
      <4>1. CacheKey(w) # CacheKey(x.who)
        BY <1>3, <3>3, KeyIsCaller
      <4>2. cache'[CacheKey(w)] \in {cache[CacheKey(w)], NoEntry}
        BY <1>9, <3>1, <4>1 DEF Stored
      <4>3. EntryOK(w)
        BY DEF IInv
      <4> QED BY <1>4, <4>2, <4>3 DEF EntryOK, NoEntry
    <3> QED BY <3>2, <3>3
  <2>5. \A d \in Calls : FetchOK(consult[d])'
    BY <1>6, <1>7 DEF IInv, TypeOK, FetchOK, ShownSince
  <2>6. DryRunWasDeclared'
    BY <1>6, <1>7 DEF IInv, TypeOK, DryRunWasDeclared
  <2> QED BY <2>3, <2>4, <2>5, <2>6 DEF IInv
<1> QED BY <1>8, <1>9 DEF LastPage

LEMMA PublishIInv ==
  ASSUME IInv, Publish
  PROVE  IInv'
<1> UNCHANGED <<now, cache, consult>>
  BY DEF Publish
<1>t. now \in Nat /\ lastDry \in [Callers -> Nat \cup {None}] /\ None \notin Nat
      /\ TTL \in Nat /\ Slow \in Nat
  BY BoundAssumption DEF IInv, TypeOK
<1>1. TypeOK'
  BY <1>t DEF IInv, TypeOK, Publish
<1>2. ASSUME NEW c \in Calls PROVE FetchOK(consult[c])'
  <2>1. FetchOK(consult[c]) /\ consult[c] \in Consults
    BY DEF IInv, TypeOK
  <2>2. ASSUME consult[c].who \in Callers, ShownSince(consult[c].who, consult[c].asked),
               consult[c].asked <= now
        PROVE  ShownSince(consult[c].who, consult[c].asked)'
    BY <1>t, <2>2 DEF Publish, ShownSince
  <2> QED BY <2>1, <2>2 DEF FetchOK
<1>3. ASSUME NEW w \in Callers PROVE EntryOK(w)'
  <2>1. EntryOK(w) /\ cache[CacheKey(w)] \in Entries
    BY KeyIsKey DEF IInv, TypeOK
  <2> QED BY <1>t, <2>1 DEF EntryOK, Publish, Entries
<1>4. DryRunWasDeclared'
  BY DEF IInv, DryRunWasDeclared
<1> QED BY <1>1, <1>2, <1>3, <1>4 DEF IInv

LEMMA TickIInv ==
  ASSUME IInv, Tick
  PROVE  IInv'
<1> UNCHANGED <<declared, lastDry, cache, consult>>
  BY DEF Tick
<1>t. now \in Nat /\ now' = now + 1 /\ TTL \in Nat /\ Slow \in Nat
  BY BoundAssumption DEF IInv, TypeOK, Tick
<1>1. TypeOK'
  BY <1>t DEF IInv, TypeOK
<1>2. ASSUME NEW c \in Calls PROVE FetchOK(consult[c])'
  <2>1. FetchOK(consult[c]) /\ consult[c].asked \in Nat
    BY DEF IInv, TypeOK, Consults
  <2>2. consult[c].pc = "page" => now < consult[c].asked + Slow
    BY DEF Tick
  <2>3. ShownSince(consult[c].who, consult[c].asked)'
          <=> ShownSince(consult[c].who, consult[c].asked)
    BY DEF ShownSince
  <2> QED BY <1>t, <2>1, <2>2, <2>3 DEF FetchOK
<1>3. ASSUME NEW w \in Callers PROVE EntryOK(w)'
  <2>1. EntryOK(w) /\ cache[CacheKey(w)] \in Entries
    BY KeyIsKey DEF IInv, TypeOK
  <2> QED BY <1>t, <2>1 DEF EntryOK, Entries
<1>4. DryRunWasDeclared'
  BY DEF IInv, DryRunWasDeclared
<1> QED BY <1>1, <1>2, <1>3, <1>4 DEF IInv

LEMMA StepIInv == IInv /\ [Next]_vars => IInv'
<1> SUFFICES ASSUME IInv, [Next]_vars PROVE IInv'
  OBVIOUS
<1>1. CASE \E c \in Calls : Fetch(c) \/ \E w \in Callers : Consult(c, w)
  BY <1>1, ServePageIInv, NextPageIInv, LastPageIInv, FailPageIInv, ConsultIInv DEF Fetch
<1>2. CASE Publish
  BY <1>2, PublishIInv
<1>3. CASE Tick
  BY <1>3, TickIInv
<1>4. CASE UNCHANGED vars
  <2>1. TypeOK' /\ DryRunWasDeclared'
    BY <1>4 DEF vars, IInv, TypeOK, DryRunWasDeclared
  <2>2. \A c \in Calls : FetchOK(consult[c])'
    BY <1>4 DEF vars, IInv, FetchOK, ShownSince
  <2>3. \A w \in Callers : EntryOK(w)'
    BY <1>4 DEF vars, IInv, EntryOK
  <2> QED BY <2>1, <2>2, <2>3 DEF IInv
<1> QED BY <1>1, <1>2, <1>3, <1>4 DEF Next

\* Every variable keeps its type.
THEOREM TypeCorrect == Spec => []TypeOK
<1>1. IInv => TypeOK
  BY DEF IInv
<1> QED BY <1>1, InitIInv, StepIInv, PTL DEF Spec

\* Whatever the upstream changes and however calls share the cache, a forced
\* dry run rests on a listing that showed the argument to this very caller no
\* longer ago than the ttl and the time of a fetch.
THEOREM DryRunDeclared == Spec => []DryRunWasDeclared
<1>1. IInv => DryRunWasDeclared
  BY DEF IInv
<1> QED BY <1>1, InitIInv, StepIInv, PTL DEF Spec
=============================================================================
