---------------------------- MODULE ChainProofs -----------------------------
(***************************************************************************)
(* AuditChain, for any keeps and any number of records and crashes: the    *)
(* files up to keep are an append-only log that forgets only its oldest    *)
(* records, what a lowered keep left above them only goes, the chain       *)
(* verifies, and no refused record is in any file.                         *)
(***************************************************************************)
EXTENDS AuditChain, Integers, FiniteSetTheorems, SequenceTheorems, TLAPS

-----------------------------------------------------------------------------
(* PART ONE.  The order of the walk                                        *)

Spots == Nat \X Nat

Earlier(S, a) == {b \in S : Before(b, a)}

\* How many places of S the walk comes to before a.
Rank(S, a) == Cardinality(Earlier(S, a))

\* The places of S as the walk comes to them.
Walk(S) == [k \in 1..Cardinality(S) |-> CHOOSE a \in S : Rank(S, a) = k - 1]

\* The walk is a strict order.
LEMMA WalkOrder ==
  /\ \A a \in Spots : ~Before(a, a)
  /\ \A a, b \in Spots : a = b \/ Before(a, b) \/ Before(b, a)
  /\ \A a, b, c \in Spots : Before(a, b) /\ Before(b, c) => Before(a, c)
<1>1. ASSUME NEW a \in Spots PROVE ~Before(a, a)
  BY <1>1 DEF Before, Spots
<1>2. ASSUME NEW a \in Spots, NEW b \in Spots
      PROVE a = b \/ Before(a, b) \/ Before(b, a)
  <2>1. PICK n \in Nat, i \in Nat : a = <<n, i>>
    BY DEF Spots
  <2>2. PICK m \in Nat, j \in Nat : b = <<m, j>>
    BY DEF Spots
  <2> QED BY <2>1, <2>2 DEF Before
<1>3. ASSUME NEW a \in Spots, NEW b \in Spots, NEW c \in Spots, Before(a, b), Before(b, c)
      PROVE Before(a, c)
  <2>1. a[1] \in Nat /\ a[2] \in Nat /\ b[1] \in Nat /\ b[2] \in Nat
          /\ c[1] \in Nat /\ c[2] \in Nat
    BY DEF Spots
  <2> QED BY <1>3, <2>1 DEF Before
<1> QED BY <1>1, <1>2, <1>3

\* Ranks number the places of a finite set from 0 on.
LEMMA RankNumbers ==
  ASSUME NEW S, S \subseteq Spots, IsFiniteSet(S)
  PROVE /\ Cardinality(S) \in Nat
        /\ \A a \in S : Rank(S, a) \in 0..(Cardinality(S) - 1)
        /\ \A a, b \in S : Before(a, b) <=> Rank(S, a) < Rank(S, b)
        /\ \A a, b \in S : Rank(S, a) = Rank(S, b) => a = b
        /\ \A k \in 1..Cardinality(S) : \E a \in S : Rank(S, a) = k - 1
<1> DEFINE N == Cardinality(S)
<1>1. N \in Nat
  BY FS_CardinalityType
<1>2. ASSUME NEW a \in S PROVE /\ IsFiniteSet(Earlier(S, a))
                               /\ Rank(S, a) \in 0..(N - 1)
  <2>1. Earlier(S, a) \in SUBSET S /\ a \notin Earlier(S, a)
    BY WalkOrder DEF Earlier
  <2>2. IsFiniteSet(Earlier(S, a)) /\ Rank(S, a) <= N /\ Rank(S, a) # N
    BY <2>1, FS_Subset DEF Rank
  <2>3. Rank(S, a) \in Nat
    BY <2>2, FS_CardinalityType DEF Rank
  <2> QED BY <1>1, <2>2, <2>3
<1>3. ASSUME NEW a \in S, NEW b \in S, Before(a, b) PROVE Rank(S, a) < Rank(S, b)
  <2>1. Earlier(S, a) \in SUBSET Earlier(S, b)
    BY <1>3, WalkOrder DEF Earlier
  <2>2. a \in Earlier(S, b) /\ a \notin Earlier(S, a)
    BY <1>3, WalkOrder DEF Earlier
  <2>3. Rank(S, a) <= Rank(S, b) /\ Rank(S, a) # Rank(S, b)
    BY <1>2, <2>1, <2>2, FS_Subset DEF Rank
  <2> QED BY <1>1, <1>2, <2>3
<1>4. ASSUME NEW a \in S, NEW b \in S, Rank(S, a) = Rank(S, b) PROVE a = b
  <2>1. Rank(S, a) \in Int
    BY <1>1, <1>2
  <2>2. ~Before(a, b) /\ ~Before(b, a)
    BY <1>3, <1>4, <2>1
  <2> QED BY <2>2, WalkOrder
<1>5. ASSUME NEW a \in S, NEW b \in S, Rank(S, a) < Rank(S, b) PROVE Before(a, b)
  <2>1. Rank(S, a) \in Int /\ Rank(S, b) \in Int
    BY <1>1, <1>2
  <2>2. a # b /\ ~Before(b, a)
    BY <1>3, <1>5, <2>1
  <2> QED BY <2>2, WalkOrder
<1>6. ASSUME NEW k \in 1..N PROVE \E a \in S : Rank(S, a) = k - 1
  <2> DEFINE r == [a \in S |-> Rank(S, a)]
  <2>1. r \in Injection(S, 0..(N - 1))
    BY <1>2, <1>4 DEF Injection, IsInjective
  <2>2. IsFiniteSet(0..(N - 1)) /\ Cardinality(0..(N - 1)) = N
    <3> HIDE DEF N
    <3>1. 0 \in Int /\ N - 1 \in Int
      BY <1>1
    <3> QED BY <1>1, <3>1, FS_Interval
  <2>3. r \in Surjection(S, 0..(N - 1))
    BY <2>1, <2>2, FS_Injection
  <2>4. k - 1 \in 0..(N - 1)
    BY <1>1, <1>6
  <2>5. PICK a \in S : r[a] = k - 1
    BY <2>3, <2>4 DEF Surjection
  <2> QED BY <2>5
<1> QED BY <1>1, <1>2, <1>3, <1>4, <1>5, <1>6

\* The walk comes to every place once, in order.
LEMMA WalkLists ==
  ASSUME NEW S, S \subseteq Spots, IsFiniteSet(S)
  PROVE /\ Walk(S) \in [1..Cardinality(S) -> S]
        /\ \A k \in 1..Cardinality(S) : Rank(S, Walk(S)[k]) = k - 1
        /\ \A a \in S, k \in 1..Cardinality(S) : Rank(S, a) = k - 1 => Walk(S)[k] = a
        /\ \A a \in S : \E k \in 1..Cardinality(S) : Walk(S)[k] = a
<1>1. ASSUME NEW k \in 1..Cardinality(S)
      PROVE Walk(S)[k] \in S /\ Rank(S, Walk(S)[k]) = k - 1
  BY <1>1, RankNumbers DEF Walk
<1>2. ASSUME NEW a \in S, NEW k \in 1..Cardinality(S), Rank(S, a) = k - 1
      PROVE Walk(S)[k] = a
  BY <1>1, <1>2, RankNumbers
<1>3. ASSUME NEW a \in S PROVE \E k \in 1..Cardinality(S) : Walk(S)[k] = a
  <2>1. Rank(S, a) \in 0..(Cardinality(S) - 1) /\ Cardinality(S) \in Nat
    BY RankNumbers
  <2>2. Rank(S, a) + 1 \in 1..Cardinality(S) /\ Rank(S, a) = (Rank(S, a) + 1) - 1
    BY <2>1
  <2> QED BY <1>2, <2>2
<1>4. Walk(S) \in [1..Cardinality(S) -> S]
  BY <1>1 DEF Walk
<1> QED BY <1>1, <1>2, <1>3, <1>4

\* Places that keep their order under m, all those behind them included, are
\* the last of the walk.
LEMMA WalkRest ==
  ASSUME NEW S, S \subseteq Spots, IsFiniteSet(S),
         NEW T, T \subseteq Spots, IsFiniteSet(T),
         NEW m \in [T -> S],
         \A a, b \in T : Before(a, b) => Before(m[a], m[b]),
         \A a \in S, b \in T : Before(m[b], a) => \E c \in T : m[c] = a
  PROVE /\ Cardinality(T) <= Cardinality(S)
        /\ \A k \in 1..Cardinality(T) :
             /\ k + (Cardinality(S) - Cardinality(T)) \in 1..Cardinality(S)
             /\ Walk(S)[k + (Cardinality(S) - Cardinality(T))] = m[Walk(T)[k]]
        /\ (\A a \in S : \E c \in T : m[c] = a) => Cardinality(T) = Cardinality(S)
<1> DEFINE d == Cardinality(S) - Cardinality(T)
           Image(U) == {m[c] : c \in U}
           Rest == S \ Image(T)
<1>1. Cardinality(S) \in Nat /\ Cardinality(T) \in Nat
  BY FS_CardinalityType
<1>2. ASSUME NEW a \in T, NEW b \in T, m[a] = m[b] PROVE a = b
  <2>1. m[a] \in Spots
    OBVIOUS
  <2>2. ~Before(a, b) /\ ~Before(b, a)
    BY <1>2, <2>1, WalkOrder
  <2> QED BY <2>2, WalkOrder
<1>3. ASSUME NEW U \in SUBSET T
      PROVE IsFiniteSet(Image(U)) /\ Cardinality(Image(U)) = Cardinality(U)
  <2> DEFINE g == [c \in U |-> m[c]]
  <2>1. g \in Bijection(U, Image(U))
    BY <1>2 DEF Bijection, Injection, IsInjective, Surjection
  <2>2. IsFiniteSet(U)
    BY FS_Subset
  <2> QED BY <2>1, <2>2, FS_Bijection DEF ExistsBijection
<1>4. IsFiniteSet(Rest) /\ Cardinality(Rest) = d /\ d \in Nat
  <2>1. Image(T) \in SUBSET S
    OBVIOUS
  <2>2. IsFiniteSet(Rest)
    BY FS_Subset
  <2>3. Cardinality(Rest \cup Image(T)) = Cardinality(Rest) + Cardinality(Image(T)) - Cardinality({})
    <3>1. Rest \cap Image(T) = {}
      OBVIOUS
    <3>2. IsFiniteSet(Image(T))
      BY <1>3
    <3> HIDE DEF Rest, Image
    <3> QED BY <2>2, <3>1, <3>2, FS_Union
  <2>4. Rest \cup Image(T) = S
    BY <2>1
  <2>5. Cardinality(Rest) \in Nat
    BY <2>2, FS_CardinalityType
  <2>6. Cardinality(Image(T)) = Cardinality(T)
    BY <1>3
  <2>7. Cardinality({}) = 0
    BY FS_EmptySet
  <2> HIDE DEF Rest, Image
  <2>8. Cardinality(S) = Cardinality(Rest \cup Image(T))
    BY <2>4
  <2>9. Cardinality(S) = Cardinality(Rest) + Cardinality(T)
    BY <1>1, <2>3, <2>5, <2>6, <2>7, <2>8
  <2> QED BY <1>1, <2>2, <2>5, <2>9
<1>5. ASSUME NEW b \in T PROVE Rank(S, m[b]) = d + Rank(T, b)
  <2> DEFINE U == Earlier(T, b)
  <2>1. U \in SUBSET T
    BY DEF Earlier
  <2>2. Earlier(S, m[b]) = Rest \cup Image(U)
    <3>1. ASSUME NEW a \in Earlier(S, m[b]) PROVE a \in Rest \cup Image(U)
      <4>1. CASE a \in Image(T)
        <5>1. PICK c \in T : a = m[c]
          BY <4>1
        <5>2. ~Before(b, c) /\ b # c
          BY <3>1, <5>1, WalkOrder DEF Earlier
        <5>3. Before(c, b)
          BY <5>2, WalkOrder
        <5> QED BY <5>1, <5>3 DEF Earlier
      <4> QED BY <3>1, <4>1 DEF Earlier
    <3>2. ASSUME NEW a \in Rest PROVE a \in Earlier(S, m[b])
      <4>1. a \in S /\ \A c \in T : m[c] # a
        BY <3>2
      <4>2. a # m[b] /\ ~Before(m[b], a) /\ m[b] \in Spots
        BY <4>1
      <4> QED BY <4>1, <4>2, WalkOrder DEF Earlier
    <3>3. ASSUME NEW a \in Image(U) PROVE a \in Earlier(S, m[b])
      <4>1. PICK c \in U : a = m[c]
        BY <3>3
      <4> QED BY <4>1 DEF Earlier
    <3> QED BY <3>1, <3>2, <3>3
  <2>3. Rest \cap Image(U) = {}
    BY <2>1
  <2>4. IsFiniteSet(Image(U)) /\ Cardinality(Image(U)) = Cardinality(U)
    BY <1>3, <2>1
  <2>5. Cardinality(U) \in Nat
    BY <2>1, FS_Subset, FS_CardinalityType
  <2> HIDE DEF Rest, Image
  <2>6. Cardinality(Rest \cup Image(U)) = Cardinality(Rest) + Cardinality(Image(U)) - Cardinality({})
    BY <1>4, <2>3, <2>4, FS_Union
  <2> QED BY <1>4, <2>2, <2>4, <2>5, <2>6, FS_EmptySet DEF Rank
<1>6. ASSUME NEW k \in 1..Cardinality(T)
      PROVE k + d \in 1..Cardinality(S) /\ Walk(S)[k + d] = m[Walk(T)[k]]
  <2> DEFINE b == Walk(T)[k]
  <2>1. b \in T /\ Rank(T, b) = k - 1
    BY WalkLists
  <2>2. m[b] \in S /\ Rank(S, m[b]) = d + (k - 1)
    BY <1>5, <2>1
  <2>3. k + d \in 1..Cardinality(S) /\ d + (k - 1) = (k + d) - 1
    BY <1>1, <1>4
  <2> HIDE DEF d, b
  <2> QED BY <2>2, <2>3, WalkLists DEF b
<1>7. ASSUME \A a \in S : \E c \in T : m[c] = a PROVE Cardinality(T) = Cardinality(S)
  <2>1. Rest = {}
    BY <1>7
  <2>2. d = 0
    <3> HIDE DEF d, Rest
    <3> QED BY <1>4, <2>1, FS_EmptySet
  <2> QED BY <1>1, <2>2
<1> QED BY <1>1, <1>4, <1>6, <1>7

\* Places before all others are the first of the walk.
LEMMA WalkFront ==
  ASSUME NEW S, S \subseteq Spots, IsFiniteSet(S), NEW T, T \subseteq S,
         \A a \in T, b \in S \ T : Before(a, b)
  PROVE /\ IsFiniteSet(T) /\ Cardinality(T) \in Nat /\ Cardinality(S) \in Nat
        /\ Cardinality(T) <= Cardinality(S)
        /\ \A k \in 1..Cardinality(T) : Walk(S)[k] = Walk(T)[k]
<1>1. /\ IsFiniteSet(T) /\ Cardinality(T) \in Nat /\ Cardinality(S) \in Nat
      /\ Cardinality(T) <= Cardinality(S)
  BY FS_Subset, FS_CardinalityType
<1>2. ASSUME NEW a \in T PROVE Rank(S, a) = Rank(T, a)
  <2>1. \A b \in S \ T : ~Before(b, a)
    BY WalkOrder
  <2>2. Earlier(S, a) = Earlier(T, a)
    BY <2>1 DEF Earlier
  <2> QED BY <2>2 DEF Rank
<1>3. ASSUME NEW k \in 1..Cardinality(T) PROVE Walk(S)[k] = Walk(T)[k]
  <2> DEFINE a == Walk(T)[k]
  <2>1. a \in T /\ Rank(T, a) = k - 1
    BY <1>1, WalkLists
  <2>2. a \in S /\ Rank(S, a) = k - 1 /\ k \in 1..Cardinality(S)
    BY <1>1, <1>2, <2>1
  <2> HIDE DEF a
  <2> QED BY <2>2, WalkLists DEF a
<1> QED BY <1>1, <1>3

\* One more place, behind all others, is the last of the walk.
LEMMA WalkGrows ==
  ASSUME NEW S, S \subseteq Spots, IsFiniteSet(S),
         NEW x \in Spots, \A a \in S : Before(a, x)
  PROVE /\ IsFiniteSet(S \cup {x})
        /\ Cardinality(S \cup {x}) = Cardinality(S) + 1
        /\ \A k \in 1..Cardinality(S) : Walk(S \cup {x})[k] = Walk(S)[k]
        /\ Walk(S \cup {x})[Cardinality(S) + 1] = x
<1> DEFINE T == S \cup {x}
<1>1. x \notin S
  BY WalkOrder
<1>2. IsFiniteSet(T) /\ Cardinality(T) = Cardinality(S) + 1 /\ T \subseteq Spots
  BY <1>1, FS_AddElement
<1>3. Cardinality(S) \in Nat
  BY FS_CardinalityType
<1>4. Rank(T, x) = Cardinality(S)
  <2>1. Earlier(T, x) = S
    BY WalkOrder DEF Earlier
  <2> QED BY <2>1 DEF Rank
<1>5. ASSUME NEW a \in S PROVE Rank(T, a) = Rank(S, a)
  <2>1. ~Before(x, a)
    BY WalkOrder
  <2>2. Earlier(T, a) = Earlier(S, a)
    BY <2>1 DEF Earlier
  <2> QED BY <2>2 DEF Rank
<1>6. ASSUME NEW k \in 1..Cardinality(S) PROVE Walk(T)[k] = Walk(S)[k]
  <2> DEFINE a == Walk(S)[k]
  <2>1. a \in S /\ Rank(S, a) = k - 1
    BY WalkLists
  <2>2. a \in T /\ Rank(T, a) = k - 1 /\ k \in 1..Cardinality(T)
    BY <1>2, <1>3, <1>5, <2>1
  <2> HIDE DEF a, T
  <2> QED BY <1>2, <2>2, WalkLists DEF a
<1>7. Walk(T)[Cardinality(S) + 1] = x
  <2>1. x \in T /\ Cardinality(S) + 1 \in 1..Cardinality(T)
          /\ Rank(T, x) = (Cardinality(S) + 1) - 1
    BY <1>2, <1>3, <1>4
  <2> HIDE DEF T
  <2> QED BY <1>2, <2>1, WalkLists
<1> QED BY <1>2, <1>6, <1>7

-----------------------------------------------------------------------------
(* PART TWO.  What a file looks like                                       *)

Odd(n) == n % 2 = 1

\* Texts and newlines take turns.
Lined(f) == f \in Seq(Pieces) /\ \A i \in 1..Len(f) : f[i] = Newline <=> ~Odd(i)

\* The last line has no newline.
Ragged(f) == f # Missing /\ Odd(Len(f))

LEMMA Parity ==
  /\ \A n \in Nat : Odd(n + 1) <=> ~Odd(n)
  /\ \A n \in Nat \ {0} : Odd(n - 1) <=> ~Odd(n)
  /\ \A n \in Nat : Odd(n + 2) <=> Odd(n)
  /\ ~Odd(0) /\ Odd(1)
BY SMT DEF Odd

LEMMA EntryKinds ==
  /\ \A x \in Entries : /\ x \in Pieces /\ x # Newline /\ x.kind = "record"
                        /\ x.id \in Ids /\ x.prev \in Ids \cup {Genesis}
  /\ Newline \in Pieces /\ Newline \notin Entries
<1>1. \A x \in Entries : /\ x \in Pieces /\ x # Newline /\ x.kind = "record"
                         /\ x.id \in Ids /\ x.prev \in Ids \cup {Genesis}
  BY DEF Pieces, Entries, Record, Newline
<1>2. Newline \in Pieces
  BY DEF Pieces
<1> QED BY <1>1, <1>2

LEMMA Kinds ==
  \A x \in Pieces : /\ x.kind = "record" <=> x \in Entries
                    /\ x.kind = "newline" <=> x = Newline
                    /\ x.kind \in {"record", "fragment", "newline"}
BY EntryKinds DEF Pieces, Fragment, Newline

LEMMA RecordKinds ==
  \A i \in Ids, p \in Ids \cup {Genesis} :
    /\ Record(i, p) \in Entries /\ Record(i, p).kind = "record"
    /\ Record(i, p).id = i /\ Record(i, p).prev = p
BY DEF Entries, Record

LEMMA FragmentKinds ==
  \A i \in Ids : /\ Fragment(i) \in Pieces /\ Fragment(i).kind = "fragment"
                 /\ Fragment(i) # Newline
BY DEF Pieces, Fragment, Newline

LEMMA MissingIsNoLog == Missing \notin Seq(Pieces)
<1>1. SUFFICES ASSUME Missing \in Seq(Pieces) PROVE FALSE
  OBVIOUS
<1>2. Missing[1] \in Pieces
  BY <1>1, ElementOfSeq DEF Missing
<1>3. Missing[1].kind = "missing"
  BY DEF Missing
<1>4. \A x \in Pieces : x.kind # "missing"
  BY DEF Pieces, Entries, Record, Fragment, Newline
<1> QED BY <1>2, <1>3, <1>4

LEMMA LinedEmpty == Lined(<<>>) /\ ~Ragged(<<>>) /\ <<>> # Missing
<1>1. <<>> \in Seq(Pieces) /\ Len(<<>>) = 0
  BY EmptySeq
<1>2. <<>> # Missing
  BY <1>1, MissingIsNoLog
<1>3. \A i \in 1..0 : <<>>[i] = Newline <=> ~Odd(i)
  OBVIOUS
<1> QED BY <1>1, <1>2, <1>3, Parity DEF Lined, Ragged

\* What the system calls make of a file.
LEMMA LinedGrows ==
  ASSUME NEW f, Lined(f), NEW x \in Pieces
  PROVE /\ Len(f \o <<x>>) = Len(f) + 1 /\ (f \o <<x>>)[Len(f) + 1] = x
        /\ \A i \in 1..Len(f) : (f \o <<x>>)[i] = f[i]
        /\ (x = Newline <=> Odd(Len(f))) => Lined(f \o <<x>>)
        /\ Len(f \o <<x, Newline>>) = Len(f) + 2
        /\ (f \o <<x, Newline>>)[Len(f) + 1] = x
        /\ (f \o <<x, Newline>>)[Len(f) + 2] = Newline
        /\ \A i \in 1..Len(f) : (f \o <<x, Newline>>)[i] = f[i]
        /\ ~Odd(Len(f)) /\ x # Newline => Lined(f \o <<x, Newline>>)
<1> DEFINE g == f \o <<x>>
           h == f \o <<x, Newline>>
<1>1. f \in Seq(Pieces) /\ Len(f) \in Nat
  BY LenProperties DEF Lined
<1>2. /\ <<x>> \in Seq(Pieces) /\ Len(<<x>>) = 1 /\ <<x>>[1] = x
      /\ <<x, Newline>> \in Seq(Pieces) /\ Len(<<x, Newline>>) = 2
      /\ <<x, Newline>>[1] = x /\ <<x, Newline>>[2] = Newline
  BY EntryKinds
<1>3. /\ g \in Seq(Pieces) /\ Len(g) = Len(f) + 1 /\ g[Len(f) + 1] = x
      /\ \A i \in 1..Len(f) : g[i] = f[i]
  <2>1. /\ g \in Seq(Pieces) /\ Len(g) = Len(f) + 1
        /\ \A i \in 1..(Len(f) + 1) : g[i] = IF i <= Len(f) THEN f[i] ELSE <<x>>[i - Len(f)]
    BY <1>1, <1>2, ConcatProperties
  <2> HIDE DEF g
  <2> QED BY <1>1, <1>2, <2>1
<1>4. /\ h \in Seq(Pieces) /\ Len(h) = Len(f) + 2
      /\ h[Len(f) + 1] = x /\ h[Len(f) + 2] = Newline
      /\ \A i \in 1..Len(f) : h[i] = f[i]
  <2>1. /\ h \in Seq(Pieces) /\ Len(h) = Len(f) + 2
        /\ \A i \in 1..(Len(f) + 2) :
             h[i] = IF i <= Len(f) THEN f[i] ELSE <<x, Newline>>[i - Len(f)]
    BY <1>1, <1>2, ConcatProperties
  <2> HIDE DEF h
  <2> QED BY <1>1, <1>2, <2>1
<1>5. \A i \in 1..Len(f) : f[i] = Newline <=> ~Odd(i)
  BY DEF Lined
<1> HIDE DEF g, h
<1>6. (x = Newline <=> Odd(Len(f))) => Lined(g)
  <2>1. ~Odd(Len(f) + 1) <=> Odd(Len(f))
    BY <1>1, Parity
  <2>2. \A i \in 1..Len(g) : i \in 1..Len(f) \/ i = Len(f) + 1
    BY <1>1, <1>3
  <2> QED BY <1>3, <1>5, <2>1, <2>2 DEF Lined
<1>7. ~Odd(Len(f)) /\ x # Newline => Lined(h)
  <2>1. /\ ~Odd(Len(f) + 1) <=> Odd(Len(f))
        /\ ~Odd(Len(f) + 2) <=> ~Odd(Len(f))
    BY <1>1, Parity
  <2>2. \A i \in 1..Len(h) : i \in 1..Len(f) \/ i = Len(f) + 1 \/ i = Len(f) + 2
    BY <1>1, <1>4
  <2> QED BY <1>4, <1>5, <2>1, <2>2 DEF Lined
<1> QED BY <1>3, <1>4, <1>6, <1>7 DEF g, h

LEMMA LinedCutBack ==
  ASSUME NEW f, Lined(f), Odd(Len(f))
  PROVE LET g == SubSeq(f, 1, Len(f) - 1)
        IN /\ Lined(g) /\ ~Odd(Len(g)) /\ Len(f) \in Nat \ {0} /\ Len(g) = Len(f) - 1
           /\ \A i \in 1..(Len(f) - 1) : g[i] = f[i]
<1> DEFINE g == SubSeq(f, 1, Len(f) - 1)
<1>1. f \in Seq(Pieces) /\ Len(f) \in Nat /\ Len(f) # 0
  BY LenProperties, Parity DEF Lined
<1>2. \A i \in 1..(Len(f) - 1) : f[i] \in Pieces
  BY <1>1, ElementOfSeq
<1>3. /\ g \in Seq(Pieces)
      /\ Len(g) = Len(f) - 1
      /\ \A i \in 1..(Len(f) - 1) : g[i] = f[i]
  <2>1. /\ g \in Seq(Pieces)
        /\ Len(g) = IF 1 <= Len(f) - 1 THEN Len(f) - 1 - 1 + 1 ELSE 0
        /\ \A i \in 1..(Len(f) - 1 - 1 + 1) : g[i] = f[1 + i - 1]
    BY <1>1, <1>2, SubSeqProperties
  <2>2. /\ Len(f) - 1 - 1 + 1 = Len(f) - 1
        /\ \A i \in 1..(Len(f) - 1) : 1 + i - 1 = i
    BY <1>1
  <2> HIDE DEF g
  <2>4. Len(g) = IF 1 <= Len(f) - 1 THEN Len(f) - 1 - 1 + 1 ELSE 0
    BY <2>1
  <2>3. Len(g) = Len(f) - 1
    <3>1. PICK n \in Nat : n = Len(f)
      BY <1>1
    <3>2. n # 0 /\ Len(g) = IF 1 <= n - 1 THEN n - 1 - 1 + 1 ELSE 0
      BY <1>1, <2>4, <3>1
    <3>3. Len(g) = n - 1
      BY <3>2
    <3> QED BY <3>1, <3>3
  <2> QED BY <2>1, <2>2, <2>3
<1>4. \A i \in 1..Len(f) : f[i] = Newline <=> ~Odd(i)
  BY DEF Lined
<1> HIDE DEF g
<1>5. Lined(g)
  BY <1>1, <1>3, <1>4 DEF Lined
<1>6. ~Odd(Len(g))
  <2>1. Len(g) \in Nat /\ Len(f) = Len(g) + 1
    BY <1>1, <1>3
  <2> QED BY <2>1, Parity
<1> QED BY <1>1, <1>3, <1>5, <1>6 DEF g

\* A text stands alone between line ends.
LEMMA LinedWhole ==
  ASSUME NEW f, Lined(f), NEW i \in 1..Len(f)
  PROVE Whole(f, i) <=> f[i].kind = "record"
<1>1. f \in Seq(Pieces) /\ Len(f) \in Nat /\ f[i] \in Pieces
  BY LenProperties, ElementOfSeq DEF Lined
<1>2. \A j \in 1..Len(f) : f[j] = Newline <=> ~Odd(j)
  BY DEF Lined
<1>3. ASSUME f[i].kind = "record" PROVE Whole(f, i)
  <2>1. Odd(i)
    BY <1>1, <1>2, <1>3, Kinds, Parity
  <2>2. i > 1 => i - 1 \in 1..Len(f) /\ ~Odd(i - 1)
    BY <1>1, <2>1, Parity
  <2>3. i < Len(f) => i + 1 \in 1..Len(f) /\ ~Odd(i + 1)
    BY <1>1, <2>1, Parity
  <2> QED BY <1>2, <1>3, <2>2, <2>3 DEF Whole
<1> QED BY <1>3 DEF Whole

\* _tail cuts off a last line without its newline, unless it is a record.
LEMMA LinedCut ==
  ASSUME NEW f, Lined(f)
  PROVE /\ Cut(f) = IF Odd(Len(f)) THEN SubSeq(f, 1, Len(f) - 1) ELSE f
        /\ Torn(f) <=> Odd(Len(f)) /\ f[Len(f)].kind # "record"
<1> DEFINE ends == {i \in DOMAIN f : f[i] = Newline}
           n == IF Odd(Len(f)) THEN Len(f) - 1 ELSE Len(f)
<1>1. f \in Seq(Pieces) /\ Len(f) \in Nat /\ DOMAIN f = 1..Len(f)
  BY LenProperties DEF Lined
<1>2. ends = {i \in 1..Len(f) : ~Odd(i)}
  BY <1>1 DEF Lined
<1>3. n \in Nat /\ ~Odd(n) /\ n <= Len(f)
  <2>1. CASE Odd(Len(f))
    <3>1. Len(f) \in Nat \ {0}
      BY <1>1, <2>1, Parity
    <3>2. n = Len(f) - 1
      BY <2>1
    <3>3. ~Odd(Len(f) - 1)
      BY <2>1, <3>1, Parity
    <3> HIDE DEF n
    <3> QED BY <3>1, <3>2, <3>3
  <2>2. CASE ~Odd(Len(f))
    BY <1>1, <2>2
  <2> QED BY <2>1, <2>2
<1>4. \A i \in ends : i <= n
  <2>1. \A i \in ends : i \in 1..Len(f) /\ (Odd(Len(f)) => i # Len(f))
    BY <1>2
  <2> HIDE DEF ends
  <2> QED BY <1>1, <2>1
<1>5. n > 0 => n \in ends
  BY <1>1, <1>2, <1>3
<1>6. Cut(f) = SubSeq(f, 1, n)
  <2>1. CASE n = 0
    <3>1. ends = {}
      BY <1>1, <1>2, <1>4, <2>1
    <3> QED BY <2>1, <3>1 DEF Cut
  <2>2. CASE n > 0
    <3>1. ends # {}
      BY <1>5, <2>2
    <3> DEFINE Last(i) == \A j \in ends : j <= i
    <3>2. n \in ends /\ Last(n)
      BY <1>4, <1>5, <2>2
    <3>3. \A i \in ends : Last(i) => i = n
      <4>1. \A i \in ends : i \in Nat
        BY <1>1, <1>2
      <4> QED BY <1>3, <1>4, <3>2, <4>1
    <3> HIDE DEF ends, n, Last
    <3>4. (CHOOSE i \in ends : Last(i)) = n
      BY <3>2, <3>3
    <3> QED BY <3>1, <3>4 DEF Cut, ends, Last
  <2>3. n = 0 \/ n > 0
    <3> HIDE DEF n
    <3> QED BY <1>3
  <2> QED BY <2>1, <2>2, <2>3
<1>7. SubSeq(f, 1, Len(f)) = f
  BY <1>1, SubSeqFull
<1>8. Cut(f) = IF Odd(Len(f)) THEN SubSeq(f, 1, Len(f) - 1) ELSE f
  BY <1>6, <1>7
<1>9. ASSUME Odd(Len(f))
      PROVE /\ Len(f) \in 1..Len(f)
            /\ Len(SubSeq(f, 1, Len(f) - 1)) # Len(f)
  <2>1. Len(f) \in Nat \ {0}
    BY <1>9, LinedCutBack
  <2>2. Len(SubSeq(f, 1, Len(f) - 1)) = Len(f) - 1
    BY <1>9, LinedCutBack
  <2> QED BY <2>1, <2>2
<1>10. Odd(Len(f)) => SubSeq(f, 1, Len(f) - 1) # f
  BY <1>9
<1>11. Odd(Len(f)) => (Whole(f, Len(f)) <=> f[Len(f)].kind = "record")
  BY <1>9, LinedWhole
<1> QED BY <1>8, <1>10, <1>11 DEF Torn

-----------------------------------------------------------------------------
(* PART THREE.  The files, type correctness                                *)

Steps == {"idle", "newline", "room", "rename", "unlink", "reopen", "write", "cut", "down"}

\* The rotation and the write come after the line before has its end.
Ended == {"room", "rename", "unlink", "reopen", "write", "cut"}

Rotating == {"rename", "unlink", "reopen"}

\* A record is being appended.
Pending == Ended \cup {"newline"}

\* A rotated file holds lines, all ended; the live one may end in the middle
\* of a line, which torn says unless a write is under way or nobody looks.
Shapes ==
  /\ \A n \in Slots : file[n] = Missing \/ Lined(file[n])
  /\ \A n \in Slots : n # 0 => ~Ragged(file[n]) /\ file[n] # <<>>

Tidy ==
  /\ pc \notin {"cut", "down"} => (torn <=> Ragged(file[0]))
  /\ pc = "cut" => Ragged(file[0])
  /\ pc \in Ended => ~torn
  /\ pc = "newline" => torn

\* A log that is open has its live file, one that is closed has no empty one.
Opened ==
  /\ pc # "down" /\ open => file[0] # Missing
  /\ pc = "cut" => open
  /\ pc # "down" /\ ~open => file[0] # <<>>
  /\ pc \in Rotating => ~open

\* The slot a rename fills is the last one or free; from keep up to where the
\* unlinks are there is no file.
Making ==
  /\ pc = "rename" /\ slot < keep => file[slot] = Missing
  /\ pc = "unlink" => /\ slot > keep
                      /\ \A n \in Slots : n > keep /\ n < slot => file[n] = Missing
  /\ pc \in Pending => seq # 0

Form == TypeOK /\ Shapes /\ Tidy /\ Opened /\ Making

\* The slots reach as far as the largest keep.
LEMMA Reach ==
  /\ Most \in Nat \ {0}
  /\ \A k \in Keeps : k \in 1..Most
<1>1. PICK most \in Keeps : \A k \in Keeps : k <= most
  BY KeepAssumption
<1>2. Most \in Keeps /\ \A k \in Keeps : k <= Most
  BY <1>1 DEF Most
<1> QED BY <1>2, KeepAssumption

LEMMA FormInit == Init => Form
<1> SUFFICES ASSUME Init PROVE Form
  OBVIOUS
<1>1. 0 \in Slots /\ Most \in Keeps
  <2>1. PICK most \in Keeps : \A k \in Keeps : k <= most
    BY KeepAssumption
  <2> QED BY <2>1, Reach DEF Slots, Most
<1>2. TypeOK
  <2>1. file \in [Slots -> Seq(Pieces) \cup {Missing}]
    BY EmptySeq DEF Init
  <2>2. Most + 1 \in Nat
    BY Reach
  <2> QED BY <1>1, <2>1, <2>2, BoundAssumption DEF TypeOK, Init, Genesis
<1>3. Shapes
  <2>1. ~Ragged(Missing) /\ Missing # <<>>
    BY LinedEmpty DEF Ragged
  <2> QED BY <2>1, LinedEmpty DEF Init, Shapes
<1>4. file[0] = <<>> /\ pc = "idle" /\ open = TRUE /\ torn = FALSE
  BY <1>1 DEF Init
<1>5. Tidy /\ Opened /\ Making
  BY <1>4, LinedEmpty DEF Tidy, Opened, Making, Pending, Ended, Rotating
<1> QED BY <1>2, <1>3, <1>5 DEF Form

\* What a step may use of the state it starts from.
LEMMA FormFacts ==
  ASSUME Form
  PROVE /\ file \in [Slots -> Seq(Pieces) \cup {Missing}]
        /\ 0 \in Slots /\ 1 \in Slots /\ keep \in 1..Most /\ Most \in Nat
        /\ \A n \in Slots : n \in Nat
        /\ file[0] = Missing \/ Lined(file[0])
        /\ file[0] # Missing => /\ Lined(file[0]) /\ Len(file[0]) \in Nat
                                /\ Ragged(file[0]) <=> Odd(Len(file[0]))
        /\ pc \in Steps /\ seq \in 0..MaxWrites /\ last \in Ids \cup {Genesis}
        /\ torn \in BOOLEAN /\ open \in BOOLEAN /\ slot \in 0..(Most + 1)
        /\ pc \in Pending => seq \in Ids
<1>1. 0 \in Slots /\ 1 \in Slots /\ keep \in 1..Most /\ Most \in Nat
  BY Reach DEF Form, TypeOK, Slots
<1>2. \A n \in Slots : n \in Nat
  BY <1>1 DEF Slots
<1>3. file[0] = Missing \/ Lined(file[0])
  BY <1>1 DEF Form, Shapes
<1>4. file[0] # Missing => /\ Lined(file[0]) /\ Len(file[0]) \in Nat
                           /\ Ragged(file[0]) <=> Odd(Len(file[0]))
  BY <1>3, LenProperties DEF Lined, Ragged
<1>5. seq \in 0..MaxWrites
  BY BoundAssumption DEF Form, TypeOK, Ids
<1>6. pc \in Pending => seq \in Ids
  BY DEF Form, TypeOK, Making
<1> QED BY <1>1, <1>2, <1>3, <1>4, <1>5, <1>6 DEF Form, TypeOK, Steps

\* Another live file.
LEMMA OtherLive ==
  ASSUME Form, NEW f, f = Missing \/ Lined(f), file' = [file EXCEPT ![0] = f]
  PROVE /\ file' \in [Slots -> Seq(Pieces) \cup {Missing}]
        /\ file'[0] = f
        /\ \A n \in Slots : n # 0 => file'[n] = file[n]
        /\ Shapes'
<1>1. /\ file \in [Slots -> Seq(Pieces) \cup {Missing}]
      /\ 0 \in Slots
  BY FormFacts
<1>2. f \in Seq(Pieces) \cup {Missing}
  BY DEF Lined
<1>3. /\ file' \in [Slots -> Seq(Pieces) \cup {Missing}]
      /\ file'[0] = f
      /\ \A n \in Slots : n # 0 => file'[n] = file[n]
  BY <1>1, <1>2
<1>4. /\ \A n \in Slots : file[n] = Missing \/ Lined(file[n])
      /\ \A n \in Slots : n # 0 => ~Ragged(file[n]) /\ file[n] # <<>>
  BY DEF Form, Shapes
<1>5. \A n \in Slots : file'[n] = Missing \/ Lined(file'[n])
  BY <1>3, <1>4
<1>6. \A n \in Slots : n # 0 => ~Ragged(file'[n]) /\ file'[n] # <<>>
  BY <1>3, <1>4
<1>7. Shapes'
  BY <1>5, <1>6 DEF Shapes
<1> QED BY <1>3, <1>7

\* The same files.
LEMMA SameFiles ==
  ASSUME Form, UNCHANGED file
  PROVE /\ file' \in [Slots -> Seq(Pieces) \cup {Missing}]
        /\ Shapes'
BY FormFacts DEF Form, Shapes

LEMMA FormBegin == Form /\ Begin => Form'
<1> SUFFICES ASSUME Form, Begin PROVE Form'
  OBVIOUS
<1>1. /\ pc = "idle" /\ seq < MaxWrites /\ seq' = seq + 1
      /\ pc' = IF torn THEN "newline" ELSE "room"
      /\ UNCHANGED <<file, keep, open, slot, failed, last, torn, crashes>>
      /\ UNCHANGED <<refused, uncut, astray, rotated, split>>
  BY DEF Begin, memory, history
<1>2. seq' \in Ids
  BY <1>1, FormFacts, BoundAssumption DEF Ids
<1>3. TypeOK'
  BY <1>1, <1>2, SameFiles DEF Form, TypeOK
<1>4. Shapes'
  BY <1>1, SameFiles
<1>5. Tidy' /\ Opened'
  BY <1>1 DEF Form, Tidy, Opened, Ended, Rotating
<1>6. Making'
  BY <1>1, <1>2 DEF Form, Making, Ids
<1> QED BY <1>3, <1>4, <1>5, <1>6 DEF Form

\* A write that raises.
LEMMA FormRefuse ==
  ASSUME Form, pc \in Pending, Refuse, UNCHANGED <<keep, slot, failed, last, seq, crashes>>,
         uncut' \in BOOLEAN, open' \in BOOLEAN, torn' = Ragged(file'[0]),
         file' \in [Slots -> Seq(Pieces) \cup {Missing}], Shapes',
         open' => file'[0] # Missing, ~open' => file'[0] # <<>>
  PROVE Form'
<1>1. pc' = "idle" /\ refused' = refused \cup {seq} /\ UNCHANGED <<astray, rotated, split>>
  BY DEF Refuse
<1>2. torn' \in BOOLEAN
  BY DEF Ragged, Odd
<1>3. seq \in Ids /\ refused \subseteq Ids
  BY FormFacts DEF Form, TypeOK
<1>4. TypeOK'
  BY <1>1, <1>2, <1>3 DEF Form, TypeOK
<1>5. Tidy' /\ Opened' /\ Making'
  BY <1>1 DEF Tidy, Opened, Making, Pending, Ended, Rotating
<1> QED BY <1>4, <1>5 DEF Form

\* A write that goes on.
LEMMA FormAccept ==
  ASSUME Form, pc \in Pending, NEW at \in {"idle", "room", "write", "cut"}, Accept(at),
         UNCHANGED <<keep, open, slot, failed, seq, crashes, uncut>>,
         last' \in Ids \cup {Genesis}, ~torn', at # "cut" => ~Ragged(file'[0]),
         at = "cut" => Ragged(file'[0]) /\ open,
         torn' \in BOOLEAN,
         file' \in [Slots -> Seq(Pieces) \cup {Missing}], Shapes',
         open => file'[0] # Missing, ~open => file'[0] # <<>>
  PROVE Form'
<1>1. pc' = at /\ UNCHANGED <<refused, astray, rotated, split>>
  BY DEF Accept
<1>2. pc' \notin Rotating /\ pc' # "newline" /\ pc' # "down"
  BY <1>1 DEF Rotating
<1>3. TypeOK'
  BY <1>1 DEF Form, TypeOK
<1>4. Tidy' /\ Opened' /\ Making'
  BY <1>1, <1>2 DEF Form, Tidy, Opened, Making, Ended, Pending, Rotating
<1> QED BY <1>3, <1>4 DEF Form

LEMMA FormEndTorn == Form /\ EndTorn => Form'
<1> SUFFICES ASSUME Form, EndTorn PROVE Form'
  OBVIOUS
<1>1. /\ pc = "newline" /\ pc \in Pending
      /\ UNCHANGED <<keep, open, slot, failed, last, seq, crashes, uncut>>
  BY DEF EndTorn, Pending
<1>2. /\ torn /\ Ragged(file[0])
      /\ open => file[0] # Missing
      /\ ~open => file[0] # <<>>
      /\ open \in BOOLEAN /\ uncut \in BOOLEAN /\ last \in Ids \cup {Genesis}
      /\ torn \in BOOLEAN
  BY <1>1 DEF Form, Tidy, Opened, TypeOK
<1>3. CASE open /\ Put(<<Newline>>) /\ torn' = FALSE /\ Accept("room")
  <2> DEFINE f == file[0] \o <<Newline>>
  <2>1. Lined(file[0]) /\ Len(file[0]) \in Nat /\ Odd(Len(file[0]))
    BY <1>2, <1>3, FormFacts
  <2>2. Lined(f) /\ Len(f) = Len(file[0]) + 1
    BY <2>1, LinedGrows, EntryKinds
  <2>3. ~Odd(Len(f)) /\ f # Missing
    <3>1. ~Odd(Len(file[0]) + 1)
      BY <2>1, Parity
    <3>2. f # Missing
      BY <2>2, MissingIsNoLog DEF Lined
    <3> HIDE DEF f
    <3> QED BY <2>2, <3>1, <3>2
  <2>4. file' = [file EXCEPT ![0] = f]
    BY <1>3 DEF Put
  <2> HIDE DEF f
  <2>5. /\ file' \in [Slots -> Seq(Pieces) \cup {Missing}]
        /\ file'[0] = f /\ Shapes'
    BY <2>2, <2>4, OtherLive
  <2>6. ~Ragged(file'[0])
    BY <2>3, <2>5 DEF Ragged
  <2> QED BY <1>1, <1>2, <1>3, <2>3, <2>5, <2>6, FormAccept
<1>4. CASE Refuse /\ UNCHANGED <<file, torn>>
  <2>1. torn' = Ragged(file'[0])
    BY <1>2, <1>4 DEF Ragged, Odd
  <2> QED BY <1>1, <1>2, <1>4, <2>1, SameFiles, FormRefuse
<1> QED BY <1>3, <1>4 DEF EndTorn

LEMMA FormFits == Form /\ Fits => Form'
<1> SUFFICES ASSUME Form, Fits PROVE Form'
  OBVIOUS
<1>1. /\ pc = "room" /\ pc' = "write"
      /\ UNCHANGED <<file, keep, open, slot, failed, last, torn, seq, crashes>>
      /\ UNCHANGED <<refused, uncut, astray, rotated, split>>
  BY DEF Fits, memory, history
<1>2. TypeOK'
  BY <1>1 DEF Form, TypeOK
<1>3. Shapes'
  BY <1>1, SameFiles
<1>4. Tidy' /\ Opened' /\ Making'
  BY <1>1 DEF Form, Tidy, Opened, Making, Pending, Ended, Rotating
<1> QED BY <1>2, <1>3, <1>4 DEF Form

LEMMA FormFull == Form /\ Full => Form'
<1> SUFFICES ASSUME Form, Full PROVE Form'
  OBVIOUS
<1>1. /\ pc = "room" /\ pc' = "rename" /\ open' = FALSE /\ slot' = keep /\ failed' = FALSE
      /\ ~open \/ file[0] # <<>>
      /\ UNCHANGED <<file, keep, last, torn, seq, crashes>>
      /\ UNCHANGED <<refused, uncut, astray, rotated, split>>
  BY DEF Full, history
<1>2. slot' \in 1..keep' /\ slot' \in 0..(Most + 1)
  BY <1>1, FormFacts
<1>3. TypeOK'
  BY <1>1, <1>2 DEF Form, TypeOK
<1>4. Shapes'
  BY <1>1, SameFiles
<1>5. Tidy' /\ Opened'
  BY <1>1 DEF Form, Tidy, Opened, Pending, Ended, Rotating
<1>6. ~(slot' < keep')
  BY <1>1, FormFacts
<1>7. Making'
  BY <1>1, <1>6 DEF Form, Making, Pending, Ended
<1> QED BY <1>3, <1>4, <1>5, <1>7 DEF Form

\* The rest of a rotation is skipped.
LEMMA FormSkip ==
  ASSUME Form, pc \in Rotating, Skip,
         UNCHANGED <<keep, open, last, torn, seq, crashes>>,
         UNCHANGED <<refused, uncut, astray, rotated>>
  PROVE Form'
<1>1. pc' = "reopen" /\ failed' = TRUE /\ UNCHANGED <<file, slot, split>>
  BY DEF Skip
<1>2. TypeOK'
  BY <1>1 DEF Form, TypeOK
<1>3. Shapes'
  BY <1>1, SameFiles
<1>4. Tidy' /\ Opened' /\ Making'
  BY <1>1 DEF Form, Tidy, Opened, Making, Pending, Ended, Rotating
<1> QED BY <1>2, <1>3, <1>4 DEF Form

LEMMA DropType == \A n : Form /\ (Drop(n) \/ split' = split) => split' \in BOOLEAN
<1> SUFFICES ASSUME NEW n, Form, Drop(n) \/ split' = split PROVE split' \in BOOLEAN
  OBVIOUS
<1>1. split \in BOOLEAN
  BY DEF Form, TypeOK
<1>2. (\E m \in Slots : m > n /\ file[m] # Missing) \in BOOLEAN
  OBVIOUS
<1> QED BY <1>1, <1>2 DEF Drop

LEMMA FormRename == Form /\ Rename => Form'
<1> SUFFICES ASSUME Form, Rename PROVE Form'
  OBVIOUS
<1>1. /\ pc = "rename" /\ pc \in Rotating
      /\ UNCHANGED <<keep, open, last, torn, seq, crashes>>
      /\ UNCHANGED <<refused, uncut, astray, rotated>>
  BY DEF Rename, history, Rotating
<1>2. /\ slot \in 1..keep /\ slot \in Slots /\ slot - 1 \in Slots /\ slot - 1 # slot
      /\ keep \in 1..Most /\ Most \in Nat
  <2>1. slot \in 1..keep /\ keep \in 1..Most /\ Most \in Nat
    BY <1>1, FormFacts DEF Form, TypeOK
  <2> QED BY <2>1 DEF Slots
<1>3. /\ ~Ragged(file[0]) /\ file[0] # <<>> /\ ~torn /\ ~open /\ seq # 0
  BY <1>1 DEF Form, Tidy, Opened, Making, Pending, Ended, Rotating
<1>4. CASE /\ file' = IF file[slot - 1] = Missing THEN file
                       ELSE [file EXCEPT ![slot] = file[slot - 1], ![slot - 1] = Missing]
           /\ slot' = IF slot = 1 THEN keep + 1 ELSE slot - 1
           /\ pc' = IF slot = 1 THEN "unlink" ELSE "rename"
           /\ split' \in BOOLEAN
           /\ UNCHANGED failed
  <2>1. file \in [Slots -> Seq(Pieces) \cup {Missing}]
    BY DEF Form, TypeOK
  <2>2. /\ file' \in [Slots -> Seq(Pieces) \cup {Missing}]
        /\ file'[slot - 1] = Missing
        /\ \A n \in Slots : file'[n] \in {file[n], file[slot - 1], Missing}
        /\ \A n \in Slots : n \notin {slot, slot - 1} => file'[n] = file[n]
        /\ file'[slot] \in {file[slot], file[slot - 1]}
    BY <1>2, <1>4, <2>1
  <2>3. /\ \A n \in Slots : file[n] = Missing \/ Lined(file[n])
        /\ \A n \in Slots : ~Ragged(file[n]) /\ file[n] # <<>>
    BY <1>3 DEF Form, Shapes
  <2>4. ~Ragged(Missing) /\ Missing # <<>>
    BY LinedEmpty DEF Ragged
  <2>5. /\ \A n \in Slots : file'[n] = Missing \/ Lined(file'[n])
        /\ \A n \in Slots : ~Ragged(file'[n]) /\ file'[n] # <<>>
    BY <1>2, <2>2, <2>3, <2>4
  <2>6. Shapes'
    BY <2>5 DEF Shapes
  <2>7. slot' \in 0..(Most + 1) /\ (pc' = "rename" => slot' \in 1..keep)
          /\ (pc' = "unlink" => slot' = keep + 1)
    BY <1>2, <1>4
  <2>8. TypeOK'
    BY <1>1, <1>4, <2>2, <2>7 DEF Form, TypeOK
  <2>9. pc' = "rename" => file'[slot'] = Missing
    BY <1>4, <2>2
  <2>10. pc' \in {"unlink", "rename"}
    BY <1>4
  <2>11. 0 \in Slots
    BY FormFacts
  <2>12. Tidy' /\ Opened'
    BY <1>1, <1>3, <2>5, <2>10, <2>11 DEF Tidy, Opened
  <2>13. pc' = "unlink" => slot' > keep /\ \A n \in Slots : ~(n > keep /\ n < slot')
    BY <1>2, <2>7 DEF Slots
  <2>14. Making'
    BY <1>1, <1>3, <2>9, <2>13 DEF Making
  <2> QED BY <2>6, <2>8, <2>12, <2>14 DEF Form
<1>5. CASE file[slot - 1] # Missing /\ Skip
  BY <1>1, <1>5, FormSkip
<1>6. split' \in BOOLEAN
  BY DropType DEF Rename, Skip
<1> QED BY <1>4, <1>5, <1>6 DEF Rename

LEMMA FormUnlink == Form /\ Unlink => Form'
<1> SUFFICES ASSUME Form, Unlink PROVE Form'
  OBVIOUS
<1>1. /\ pc = "unlink" /\ pc \in Rotating
      /\ UNCHANGED <<keep, open, last, torn, seq, crashes>>
      /\ UNCHANGED <<refused, uncut, astray, rotated>>
  BY DEF Unlink, history, Rotating
<1>2. slot > keep /\ slot # 0 /\ keep \in 1..Most /\ Most \in Nat /\ slot \in 0..(Most + 1)
  BY <1>1, FormFacts DEF Form, Making
<1>3. CASE slot \in Slots /\ file' = [file EXCEPT ![slot] = Missing] /\ slot' = slot + 1
             /\ split' \in BOOLEAN
             /\ UNCHANGED <<pc, failed>>
  <2>1. /\ file' \in [Slots -> Seq(Pieces) \cup {Missing}]
        /\ file'[slot] = Missing /\ \A n \in Slots : n # slot => file'[n] = file[n]
    BY <1>3 DEF Form, TypeOK
  <2>2. ~Ragged(Missing) /\ Missing # <<>>
    BY LinedEmpty DEF Ragged
  <2>3. /\ \A n \in Slots : file'[n] = Missing \/ Lined(file'[n])
        /\ \A n \in Slots : n # 0 => ~Ragged(file'[n]) /\ file'[n] # <<>>
        /\ file'[0] = file[0]
    BY <1>2, <2>1, <2>2, FormFacts DEF Form, Shapes
  <2>4. Shapes'
    BY <2>3 DEF Shapes
  <2>5. /\ slot' \in 0..(Most + 1) /\ slot' > keep
        /\ \A n \in Slots : n > keep /\ n < slot' => file'[n] = Missing
    <3>1. \A n \in Slots : n < slot + 1 => n < slot \/ n = slot
      BY <1>2 DEF Slots
    <3>2. \A n \in Slots : n > keep /\ n < slot => file[n] = Missing
      BY <1>1 DEF Form, Making
    <3>3. slot' \in 0..(Most + 1) /\ slot' > keep
      BY <1>2, <1>3 DEF Slots
    <3> QED BY <1>3, <2>1, <3>1, <3>2, <3>3
  <2>6. TypeOK'
    BY <1>1, <1>3, <2>1, <2>5 DEF Form, TypeOK
  <2>7. Tidy' /\ Opened' /\ Making'
    BY <1>1, <1>3, <2>3, <2>5 DEF Form, Tidy, Opened, Making
  <2> QED BY <2>4, <2>6, <2>7 DEF Form
<1>4. CASE Skip
  BY <1>1, <1>4, FormSkip
<1>5. CASE pc' = "reopen" /\ UNCHANGED <<file, slot, failed, split>>
  <2>1. TypeOK'
    BY <1>1, <1>5 DEF Form, TypeOK
  <2>2. Shapes'
    BY <1>5, SameFiles
  <2>3. Tidy' /\ Opened' /\ Making'
    BY <1>1, <1>5 DEF Form, Tidy, Opened, Making, Pending, Ended, Rotating
  <2> QED BY <2>1, <2>2, <2>3 DEF Form
<1>6. split' \in BOOLEAN
  BY DropType DEF Unlink, Skip
<1> QED BY <1>3, <1>4, <1>5, <1>6 DEF Unlink

LEMMA FormReopen == Form /\ Reopen => Form'
<1> SUFFICES ASSUME Form, Reopen PROVE Form'
  OBVIOUS
<1>1. /\ pc = "reopen" /\ pc \in Pending
      /\ UNCHANGED <<keep, slot, failed, last, torn, seq, crashes, uncut>>
  BY DEF Reopen, Pending, Ended
<1>2. /\ ~Ragged(file[0]) /\ file[0] # <<>> /\ ~torn /\ torn \in BOOLEAN /\ uncut \in BOOLEAN
      /\ ~open
  BY <1>1 DEF Form, TypeOK, Tidy, Opened, Ended, Rotating
<1>3. CASE OpenMayFail /\ Refuse /\ UNCHANGED <<file, open>>
  <2>1. torn' = Ragged(file'[0]) /\ ~open' /\ open' \in BOOLEAN
    BY <1>1, <1>2, <1>3, FormFacts DEF Ragged, Odd
  <2> QED BY <1>1, <1>2, <1>3, <2>1, SameFiles, FormRefuse
<1>4. CASE /\ file' = [file EXCEPT ![0] = IF @ = Missing THEN <<>> ELSE @]
           /\ open' = TRUE
           /\ \/ failed /\ Refuse
              \/ /\ ~failed /\ pc' = "write"
                 /\ rotated' = TRUE
                 /\ UNCHANGED <<refused, astray, split>>
  <2> DEFINE f == IF file[0] = Missing THEN <<>> ELSE file[0]
  <2>1. file' = [file EXCEPT ![0] = f]
    BY <1>4
  <2>2. Lined(f) /\ ~Ragged(f) /\ f # Missing
    BY <1>2, FormFacts, LinedEmpty
  <2> HIDE DEF f
  <2>3. /\ file' \in [Slots -> Seq(Pieces) \cup {Missing}]
        /\ file'[0] = f /\ Shapes'
    BY <2>1, <2>2, OtherLive
  <2>4. CASE Refuse
    <3>1. torn' = Ragged(file'[0])
      BY <1>1, <1>2, <2>2, <2>3 DEF Ragged, Odd
    <3> QED BY <1>1, <1>2, <1>4, <2>2, <2>3, <2>4, <3>1, FormRefuse
  <2>5. CASE pc' = "write" /\ rotated' = TRUE /\ UNCHANGED <<refused, astray, split>>
    <3>1. TypeOK'
      BY <1>1, <1>4, <2>3, <2>5 DEF Form, TypeOK
    <3>2. Tidy' /\ Opened' /\ Making'
      BY <1>1, <1>2, <1>4, <2>2, <2>3, <2>5
         DEF Form, Tidy, Opened, Making, Pending, Ended, Rotating
    <3> QED BY <2>3, <3>1, <3>2 DEF Form
  <2> QED BY <1>4, <2>4, <2>5
<1> QED BY <1>3, <1>4 DEF Reopen

LEMMA FormWrite == Form /\ Write => Form'
<1> SUFFICES ASSUME Form, Write PROVE Form'
  OBVIOUS
<1>1. /\ pc = "write" /\ pc \in Pending
      /\ UNCHANGED <<keep, open, slot, failed, torn, seq, crashes, uncut>>
  BY DEF Write, Pending, Ended
<1>2. /\ ~Ragged(file[0]) /\ ~torn /\ torn \in BOOLEAN /\ uncut \in BOOLEAN
      /\ open => file[0] # Missing
      /\ ~open => file[0] # <<>>
      /\ open \in BOOLEAN /\ seq \in Ids /\ last \in Ids \cup {Genesis}
  BY <1>1, FormFacts DEF Form, TypeOK, Tidy, Opened, Ended
<1>3. ASSUME open
      PROVE /\ Lined(file[0]) /\ Len(file[0]) \in Nat /\ ~Odd(Len(file[0]))
            /\ ~Odd(Len(file[0]) + 2) /\ Odd(Len(file[0]) + 1)
  <2>1. Lined(file[0]) /\ Len(file[0]) \in Nat /\ ~Odd(Len(file[0]))
    BY <1>2, <1>3, FormFacts
  <2> QED BY <2>1, Parity
<1>4. /\ Record(seq, last) \in Pieces /\ Record(seq, last) # Newline
      /\ Fragment(seq) \in Pieces /\ Fragment(seq) # Newline
  BY <1>2, RecordKinds, EntryKinds, FragmentKinds
<1>5. CASE /\ open /\ Put(<<Record(seq, last), Newline>>)
           /\ last' = seq
           /\ Accept("idle")
  <2> DEFINE f == file[0] \o <<Record(seq, last), Newline>>
  <2>1. Lined(f) /\ Len(f) = Len(file[0]) + 2
    BY <1>3, <1>4, <1>5, LinedGrows
  <2>2. f # Missing
    BY <2>1, MissingIsNoLog DEF Lined
  <2>3. file' = [file EXCEPT ![0] = f]
    BY <1>5 DEF Put
  <2> HIDE DEF f
  <2>4. /\ file' \in [Slots -> Seq(Pieces) \cup {Missing}]
        /\ file'[0] = f /\ Shapes'
    BY <2>1, <2>3, OtherLive
  <2>5. ~Ragged(file'[0])
    BY <1>3, <1>5, <2>1, <2>4 DEF Ragged
  <2> QED BY <1>1, <1>2, <1>5, <2>2, <2>4, <2>5, FormAccept
<1>6. ASSUME open, NEW x \in {Fragment(seq), Record(seq, last)}, Put(<<x>>),
             last' = last, Accept("cut")
      PROVE Form'
  <2> DEFINE f == file[0] \o <<x>>
  <2>1. Lined(f) /\ Len(f) = Len(file[0]) + 1
    <3>1. x \in Pieces /\ x # Newline /\ Lined(file[0]) /\ ~Odd(Len(file[0]))
      BY <1>3, <1>4, <1>6
    <3> QED BY <3>1, LinedGrows
  <2>2. f # Missing
    BY <2>1, MissingIsNoLog DEF Lined
  <2>3. file' = [file EXCEPT ![0] = f]
    BY <1>6 DEF Put
  <2> HIDE DEF f
  <2>4. /\ file' \in [Slots -> Seq(Pieces) \cup {Missing}]
        /\ file'[0] = f /\ Shapes'
    BY <2>1, <2>3, OtherLive
  <2>5. Ragged(file'[0])
    BY <1>3, <1>6, <2>1, <2>2, <2>4 DEF Ragged
  <2> QED BY <1>1, <1>2, <1>6, <2>2, <2>4, <2>5, FormAccept
<1>7. CASE Refuse /\ UNCHANGED <<file, last>>
  <2>1. torn' = Ragged(file'[0])
    BY <1>1, <1>2, <1>7 DEF Ragged, Odd
  <2> QED BY <1>1, <1>2, <1>7, <2>1, SameFiles, FormRefuse
<1>8. \A s \in Short(seq, last) : \E x \in {Fragment(seq), Record(seq, last)} : s = <<x>>
  BY DEF Short
<1> QED BY <1>5, <1>6, <1>7, <1>8 DEF Write

LEMMA FormCutBack == Form /\ CutBack => Form'
<1> SUFFICES ASSUME Form, CutBack PROVE Form'
  OBVIOUS
<1>1. /\ pc = "cut" /\ pc \in Pending
      /\ UNCHANGED <<keep, open, slot, failed, last, seq, crashes>> /\ Refuse
  BY DEF CutBack, Pending, Ended
<1>2. /\ Ragged(file[0]) /\ ~torn /\ torn \in BOOLEAN /\ uncut \in BOOLEAN /\ open \in BOOLEAN
      /\ open
  BY <1>1 DEF Form, TypeOK, Tidy, Opened, Ended
<1>3. /\ Lined(file[0]) /\ Odd(Len(file[0])) /\ file[0] # Missing
  BY <1>2, FormFacts DEF Ragged
<1>4. CASE /\ file' = [file EXCEPT ![0] = SubSeq(@, 1, Len(@) - 1)]
           /\ UNCHANGED <<torn, uncut>>
  <2> DEFINE f == SubSeq(file[0], 1, Len(file[0]) - 1)
  <2>1. Lined(f) /\ ~Odd(Len(f))
    BY <1>3, LinedCutBack
  <2>2. f # Missing
    BY <2>1, MissingIsNoLog DEF Lined
  <2>3. file' = [file EXCEPT ![0] = f]
    BY <1>4
  <2> HIDE DEF f
  <2>4. /\ file' \in [Slots -> Seq(Pieces) \cup {Missing}]
        /\ file'[0] = f /\ Shapes'
    BY <2>1, <2>3, OtherLive
  <2>5. torn' = Ragged(file'[0])
    BY <1>2, <1>4, <2>1, <2>4 DEF Ragged, Odd
  <2> QED BY <1>1, <1>2, <1>4, <2>2, <2>4, <2>5, FormRefuse
<1>5. CASE torn' = TRUE /\ uncut' = TRUE /\ UNCHANGED file
  <2>1. torn' = Ragged(file'[0])
    BY <1>2, <1>5 DEF Ragged, Odd
  <2> QED BY <1>1, <1>2, <1>3, <1>5, <2>1, SameFiles, FormRefuse
<1> QED BY <1>4, <1>5 DEF CutBack

LEMMA FormCrash == Form /\ Crash => Form'
<1> SUFFICES ASSUME Form, Crash PROVE Form'
  OBVIOUS
<1>1. /\ pc # "down" /\ crashes < MaxCrashes /\ crashes' = crashes + 1 /\ pc' = "down"
      /\ UNCHANGED <<keep, open, slot, failed, last, torn, seq>>
      /\ UNCHANGED <<refused, uncut, astray, rotated, split>>
  BY DEF Crash, memory, history
<1>2. crashes' \in 0..MaxCrashes
  BY <1>1, BoundAssumption DEF Form, TypeOK
<1>3. Tidy' /\ Opened' /\ Making'
  BY <1>1 DEF Tidy, Opened, Making, Pending, Ended, Rotating
<1>4. ASSUME file' \in [Slots -> Seq(Pieces) \cup {Missing}], Shapes' PROVE Form'
  <2>1. TypeOK'
    BY <1>1, <1>2, <1>4 DEF Form, TypeOK
  <2> QED BY <1>3, <1>4, <2>1 DEF Form
<1>5. CASE UNCHANGED file
  BY <1>4, <1>5, SameFiles
<1>6. ASSUME pc = "write", open,
             NEW s \in Short(seq, last) \cup {<<Record(seq, last), Newline>>}, Put(s)
      PROVE Form'
  <2>1. /\ ~Ragged(file[0]) /\ file[0] # Missing
        /\ seq \in Ids /\ last \in Ids \cup {Genesis}
    BY <1>6, FormFacts DEF Form, Tidy, Opened, Pending, Ended
  <2>2. Lined(file[0]) /\ Len(file[0]) \in Nat /\ ~Odd(Len(file[0]))
    BY <2>1, FormFacts
  <2>3. /\ Record(seq, last) \in Pieces /\ Record(seq, last) # Newline
        /\ Fragment(seq) \in Pieces /\ Fragment(seq) # Newline
    BY <2>1, RecordKinds, EntryKinds, FragmentKinds
  <2>4. \/ s = <<Fragment(seq)>> \/ s = <<Record(seq, last)>>
        \/ s = <<Record(seq, last), Newline>>
    BY <1>6 DEF Short
  <2>5. Lined(file[0] \o s)
    BY <2>2, <2>3, <2>4, LinedGrows
  <2>6. file' = [file EXCEPT ![0] = file[0] \o s]
    BY <1>6 DEF Put
  <2>7. file' \in [Slots -> Seq(Pieces) \cup {Missing}] /\ Shapes'
    BY <2>5, <2>6, OtherLive
  <2> QED BY <1>4, <2>7
<1> QED BY <1>5, <1>6 DEF Crash

\* __init__ looks at the last byte.
LEMMA LinedEnd ==
  ASSUME NEW f, Lined(f)
  PROVE (f # <<>> /\ f[Len(f)] # Newline) <=> Odd(Len(f))
<1>1. f \in Seq(Pieces) /\ Len(f) \in Nat
  BY LenProperties DEF Lined
<1>2. CASE f = <<>>
  BY <1>2, Parity, EmptySeq
<1>3. CASE f # <<>>
  <2>1. Len(f) \in Nat \ {0}
    BY <1>1, <1>3, EmptySeq
  <2>2. Len(f) \in 1..Len(f)
    BY <2>1
  <2> QED BY <1>3, <2>2 DEF Lined
<1> QED BY <1>2, <1>3

\* The live file a start leaves.
Left(cut) == IF cut /\ Torn(Live) THEN Cut(Live) ELSE Live

LEMMA StartLive ==
  ASSUME Form, NEW cut \in BOOLEAN
  PROVE /\ Lined(Live) /\ Lined(Left(cut)) /\ Left(cut) # Missing
        /\ Left(cut) = IF cut /\ Torn(Live) THEN SubSeq(Live, 1, Len(Live) - 1) ELSE Live
        /\ Torn(Live) => Odd(Len(Live))
<1>1. Lined(Live)
  BY FormFacts, LinedEmpty DEF Live
<1>2. Torn(Live) => Odd(Len(Live)) /\ Cut(Live) = SubSeq(Live, 1, Len(Live) - 1)
  BY <1>1, LinedCut
<1>3. Torn(Live) => Lined(SubSeq(Live, 1, Len(Live) - 1))
  BY <1>1, <1>2, LinedCutBack
<1>4. Left(cut) = IF cut /\ Torn(Live) THEN SubSeq(Live, 1, Len(Live) - 1) ELSE Live
  BY <1>2 DEF Left
<1>5. Lined(Left(cut))
  BY <1>1, <1>3, <1>4
<1>6. Left(cut) # Missing
  BY <1>5, MissingIsNoLog DEF Lined
<1> QED BY <1>1, <1>2, <1>4, <1>5, <1>6

\* The hash a start takes up is that of a record, or GENESIS.
LEMMA HashTypes ==
  ASSUME NEW f, Lined(f)
  PROVE LastHash(f) \in Ids \cup {Genesis}
<1> DEFINE g == IF Torn(f) THEN Cut(f) ELSE f
           n == IF g # <<>> /\ g[Len(g)] = Newline THEN Len(g) - 1 ELSE Len(g)
<1>1. g \in Seq(Pieces) /\ Len(g) \in Nat
  <2>1. ASSUME Torn(f) PROVE Lined(Cut(f))
    <3>1. Odd(Len(f)) /\ Cut(f) = SubSeq(f, 1, Len(f) - 1)
      BY <2>1, LinedCut
    <3> QED BY <3>1, LinedCutBack
  <2>2. Lined(g)
    BY <2>1
  <2> HIDE DEF g
  <2> QED BY <2>2, LenProperties DEF Lined
<1>2. LastHash(f) = IF n > 0 /\ Whole(g, n) THEN g[n].id ELSE Genesis
  BY DEF LastHash
<1> HIDE DEF g
<1>3. n \in Int /\ n <= Len(g)
  BY <1>1
<1> HIDE DEF n
<1>4. ASSUME n > 0, Whole(g, n) PROVE g[n].id \in Ids
  <2>1. n \in 1..Len(g)
    BY <1>1, <1>3, <1>4
  <2>2. g[n] \in Pieces /\ g[n].kind = "record"
    BY <1>1, <1>4, <2>1, ElementOfSeq DEF Whole
  <2>3. g[n] \in Entries
    <3>1. PICK x \in Pieces : x = g[n]
      BY <2>2
    <3>2. x.kind = "record" <=> x \in Entries
      BY <3>1, Kinds
    <3> QED BY <2>2, <3>1, <3>2
  <2> QED BY <2>3, EntryKinds
<1> QED BY <1>2, <1>4

LEMMA FormStart == Form /\ Start => Form'
<1> SUFFICES ASSUME Form, Start PROVE Form'
  OBVIOUS
<1>1. /\ pc = "down" /\ pc' = "idle" /\ open' = TRUE /\ slot' = 0 /\ failed' = FALSE
      /\ rotated' = FALSE /\ keep' \in {k \in Keeps : k <= keep}
      /\ UNCHANGED <<seq, crashes, refused, split>>
      /\ last' = ChainEnd(Live, file[1])
      /\ astray' = (astray \/ (LastHash(Live) = Genesis /\ file[1] = Missing /\ Records # <<>>))
  BY DEF Start
<1>2. PICK cut \in BOOLEAN :
        /\ file' = [file EXCEPT ![0] = Left(cut)]
        /\ torn' = (Left(cut) # <<>> /\ Left(cut)[Len(Left(cut))] # Newline)
        /\ uncut' = (uncut \/ ~cut)
  BY DEF Start, Left
<1>3. /\ Lined(Live) /\ Lined(Left(cut)) /\ Left(cut) # Missing
  BY StartLive
<1>4. /\ file' \in [Slots -> Seq(Pieces) \cup {Missing}]
      /\ file'[0] = Left(cut) /\ Shapes'
  BY <1>2, <1>3, OtherLive
<1>5. torn' = Ragged(file'[0])
  BY <1>2, <1>3, <1>4, LinedEnd DEF Ragged, Odd
<1>6. last' \in Ids \cup {Genesis}
  <2>1. file[1] = Missing \/ Lined(file[1])
    BY FormFacts DEF Form, Shapes
  <2> QED BY <1>1, <1>3, <2>1, HashTypes DEF ChainEnd
<1>7. torn' \in BOOLEAN /\ uncut' \in BOOLEAN /\ astray' \in BOOLEAN
  BY <1>1, <1>2, <1>5 DEF Ragged, Odd, Form, TypeOK
<1>8. TypeOK'
  <2>1. slot' \in 0..(Most + 1) /\ keep' \in Keeps
    BY <1>1, FormFacts
  <2> QED BY <1>1, <1>4, <1>6, <1>7, <2>1 DEF Form, TypeOK
<1>9. Tidy' /\ Opened' /\ Making'
  BY <1>1, <1>3, <1>4, <1>5 DEF Tidy, Opened, Making, Pending, Ended, Rotating
<1> QED BY <1>4, <1>8, <1>9 DEF Form

LEMMA FormStep == Form /\ [Next]_vars => Form'
<1> SUFFICES ASSUME Form, [Next]_vars PROVE Form'
  OBVIOUS
<1>1. CASE UNCHANGED vars
  <2>1. /\ UNCHANGED <<file, pc, keep, open, slot, failed, last, torn, seq, crashes>>
        /\ UNCHANGED <<refused, uncut, astray, rotated, split>>
    BY <1>1 DEF vars, history
  <2>2. TypeOK'
    BY <2>1 DEF Form, TypeOK
  <2>3. Shapes'
    BY <2>1, SameFiles
  <2>4. Tidy' /\ Opened' /\ Making'
    BY <2>1 DEF Form, Tidy, Opened, Making
  <2> QED BY <2>2, <2>3, <2>4 DEF Form
<1> QED
  BY <1>1, FormBegin, FormEndTorn, FormFits, FormFull, FormRename, FormUnlink, FormReopen,
     FormWrite, FormCutBack, FormCrash, FormStart DEF Next

\* The files, as the steps leave them: src/src/mcp_airlock/audit.py:257-295.
THEOREM FormInvariant == Spec => []Form
<1>1. Init => Form
  BY FormInit
<1>2. Form /\ [Next]_vars => Form'
  BY FormStep
<1> QED BY <1>1, <1>2, PTL DEF Spec

\* Every reachable state has its type, for any keeps, records and crashes, and
\* a rotation never fills a slot above keep.
THEOREM TypeCorrect == Spec => []TypeOK
<1>1. Form => TypeOK
  BY DEF Form
<1> QED BY <1>1, FormInvariant, PTL

-----------------------------------------------------------------------------
(* PART FOUR.  The records                                                 *)

\* Where the records are: in the rotated files and, but for the last line of
\* one that is being written, in the live one.
Older(f, k) ==
  {a \in Spots : /\ a[1] \in 1..k /\ f[a[1]] # Missing
                 /\ a[2] \in 1..Len(f[a[1]]) /\ f[a[1]][a[2]].kind = "record"}

Marks(f, c) ==
  IF f[0] = Missing THEN {}
  ELSE {i \in 1..Len(f[0]) : f[0][i].kind = "record" /\ ~(c /\ i = Len(f[0]))}

Places(f, k, c) == Older(f, k) \cup ({0} \X Marks(f, c))

Text(f, S) == [k \in 1..Cardinality(S) |-> f[Walk(S)[k][1]][Walk(S)[k][2]]]

\* Settled and Lines of any files.
SettledOf(f, n, c) == IF n = 0 /\ c THEN SubSeq(f[0], 1, Len(f[0]) - 1) ELSE f[n]

LinesIn(f, D, c) ==
  UNION {{n} \X {i \in DOMAIN SettledOf(f, n, c) : Whole(SettledOf(f, n, c), i)} : n \in D}

LinesOf(f, k, c) == LinesIn(f, {m \in 0..k : f[m] # Missing}, c)

\* The places in rotated files above k.
Beyond(f, k) == Older(f, Most) \ Older(f, k)

\* The lines of a settled file that are records.
LEMMA SettledMarks ==
  ASSUME NEW f, NEW n \in Nat, NEW c \in BOOLEAN, f[n] # Missing, Lined(f[n]),
         n = 0 /\ c => Odd(Len(f[0]))
  PROVE {i \in DOMAIN SettledOf(f, n, c) : Whole(SettledOf(f, n, c), i)} =
          IF n = 0 THEN Marks(f, c) ELSE {i \in 1..Len(f[n]) : f[n][i].kind = "record"}
<1> DEFINE g == SettledOf(f, n, c)
<1>1. Lined(g) /\ Len(g) \in Nat /\ DOMAIN g = 1..Len(g)
  <2>1. Lined(g)
    BY LinedCutBack DEF SettledOf
  <2> QED BY <2>1, LenProperties DEF Lined
<1>2. Len(f[n]) \in Nat
  BY LenProperties DEF Lined
<1>3. {i \in DOMAIN g : Whole(g, i)} = {i \in 1..Len(g) : g[i].kind = "record"}
  <2> HIDE DEF g
  <2> QED BY <1>1, LinedWhole
<1>4. CASE n = 0 /\ c
  <2>1. /\ g = SubSeq(f[0], 1, Len(f[0]) - 1)
        /\ Lined(f[0]) /\ Odd(Len(f[0])) /\ f[0] # Missing
    BY <1>4 DEF SettledOf
  <2>2. /\ Len(g) = Len(f[0]) - 1 /\ Len(f[0]) \in Nat
        /\ \A i \in 1..(Len(f[0]) - 1) : g[i] = f[0][i]
    BY <2>1, LinedCutBack
  <2> HIDE DEF g
  <2>3. {i \in 1..Len(g) : g[i].kind = "record"} =
          {i \in 1..Len(f[0]) : f[0][i].kind = "record" /\ i # Len(f[0])}
    BY <2>2
  <2> QED BY <1>3, <1>4, <2>1, <2>3 DEF Marks, g
<1>5. CASE ~(n = 0 /\ c)
  <2>1. g = f[n]
    BY <1>5 DEF SettledOf
  <2> QED BY <1>3, <1>5, <2>1 DEF Marks
<1> QED BY <1>4, <1>5

LEMMA LinesArePlaces ==
  ASSUME NEW f, NEW k \in 1..Most, NEW c \in BOOLEAN,
         \A n \in Slots : f[n] = Missing \/ Lined(f[n]), c => Ragged(f[0])
  PROVE /\ LinesOf(f, k, c) = Places(f, k, c)
        /\ Places(f, k, c) \subseteq Spots
        /\ IsFiniteSet(Places(f, k, c))
<1> DEFINE Whole_in(n) == {i \in DOMAIN SettledOf(f, n, c) : Whole(SettledOf(f, n, c), i)}
           files == {m \in 0..k : f[m] # Missing}
           Row(n) == {n} \X Whole_in(n)
<1>1. /\ files \subseteq Slots /\ files \subseteq Nat
      /\ \A n \in files : n \in 0..k /\ f[n] # Missing /\ Lined(f[n])
      /\ c => Odd(Len(f[0]))
  BY Reach DEF Slots, Ragged
<1>2. ASSUME NEW n \in files
      PROVE /\ Whole_in(n) = IF n = 0 THEN Marks(f, c)
                             ELSE {i \in 1..Len(f[n]) : f[n][i].kind = "record"}
            /\ Whole_in(n) \subseteq 1..Len(f[n]) /\ Len(f[n]) \in Nat
  <2>1. n \in Nat /\ f[n] # Missing /\ Lined(f[n])
    BY <1>1
  <2>2. Whole_in(n) = IF n = 0 THEN Marks(f, c)
                      ELSE {i \in 1..Len(f[n]) : f[n][i].kind = "record"}
    BY <1>1, <2>1, SettledMarks
  <2>3. Len(f[n]) \in Nat
    BY <2>1, LenProperties DEF Lined
  <2> HIDE DEF Whole_in
  <2> QED BY <2>1, <2>2, <2>3 DEF Marks
<1>3. LinesOf(f, k, c) = UNION {Row(n) : n \in files}
  BY DEF LinesOf, LinesIn
<1> HIDE DEF Whole_in
<1>4. Marks(f, c) \subseteq Nat
  BY DEF Marks
<1>5. Places(f, k, c) \subseteq Spots
  BY <1>4 DEF Places, Older, Spots
<1>6. ASSUME NEW a \in LinesOf(f, k, c) PROVE a \in Places(f, k, c)
  <2>1. PICK n \in files : a \in Row(n)
    BY <1>3
  <2>2. PICK i \in Whole_in(n) : a = <<n, i>>
    BY <2>1
  <2>3. n \in Nat /\ n \in 0..k /\ f[n] # Missing /\ i \in 1..Len(f[n]) /\ Len(f[n]) \in Nat
    BY <1>1, <1>2, <2>2
  <2>4. CASE n = 0
    BY <1>2, <2>2, <2>4 DEF Places
  <2>5. CASE n # 0
    <3>1. f[n][i].kind = "record" /\ n \in 1..k
      BY <1>2, <2>2, <2>3, <2>5
    <3>2. a \in Spots /\ a[1] = n /\ a[2] = i
      BY <2>2, <2>3 DEF Spots
    <3> QED BY <2>3, <3>1, <3>2 DEF Places, Older
  <2> QED BY <2>4, <2>5
<1>7. ASSUME NEW a \in Places(f, k, c) PROVE a \in LinesOf(f, k, c)
  <2>1. CASE a \in Older(f, k)
    <3>1. PICK n \in Nat, i \in Nat : a = <<n, i>>
      BY <2>1 DEF Older, Spots
    <3>2. n \in 1..k /\ f[n] # Missing /\ i \in 1..Len(f[n]) /\ f[n][i].kind = "record"
      BY <2>1, <3>1 DEF Older
    <3>3. n \in files /\ n # 0
      BY <3>2
    <3>4. i \in Whole_in(n)
      BY <1>2, <3>2, <3>3
    <3> QED BY <1>3, <3>1, <3>3, <3>4
  <2>2. CASE a \in {0} \X Marks(f, c)
    <3>1. PICK i \in Marks(f, c) : a = <<0, i>>
      BY <2>2
    <3>2. 0 \in files
      BY <3>1 DEF Marks
    <3>3. i \in Whole_in(0)
      BY <1>2, <3>1, <3>2
    <3> QED BY <1>3, <3>1, <3>2, <3>3
  <2> QED BY <2>1, <2>2 DEF Places
<1>8. IsFiniteSet(LinesOf(f, k, c))
  <2>1. IsFiniteSet(files)
    <3>1. IsFiniteSet(0..k)
      BY FS_Interval, Reach
    <3> QED BY <3>1, FS_Subset
  <2>2. ASSUME NEW n \in files PROVE IsFiniteSet(Row(n))
    <3>1. IsFiniteSet(1..Len(f[n]))
      BY <1>2, FS_Interval
    <3>2. IsFiniteSet(Whole_in(n))
      BY <1>2, <3>1, FS_Subset
    <3>3. IsFiniteSet({n})
      BY FS_Singleton
    <3> QED BY <3>2, <3>3, FS_Product
  <2> DEFINE rows == [n \in files |-> Row(n)]
             all == {Row(n) : n \in files}
  <2>3. rows \in Surjection(files, all)
    BY DEF Surjection
  <2>4. IsFiniteSet(all)
    BY <2>1, <2>3, FS_Surjection
  <2>5. \A s \in all : IsFiniteSet(s)
    BY <2>2
  <2>6. IsFiniteSet(UNION all)
    <3> HIDE DEF all
    <3> QED BY <2>4, <2>5, FS_UNION
  <2> QED BY <1>3, <2>6
<1> QED BY <1>5, <1>6, <1>7, <1>8

\* r is the end of s.
Suffix(r, s) ==
  /\ Len(r) <= Len(s)
  /\ \A k \in 1..Len(r) : /\ k + (Len(s) - Len(r)) \in 1..Len(s)
                          /\ r[k] = s[k + (Len(s) - Len(r))]

LEMMA TextType ==
  ASSUME NEW S, S \subseteq Spots, IsFiniteSet(S),
         NEW f, \A a \in S : f[a[1]][a[2]] \in Entries
  PROVE /\ Cardinality(S) \in Nat
        /\ Text(f, S) \in Seq(Entries) /\ Len(Text(f, S)) = Cardinality(S)
        /\ \A k \in 1..Cardinality(S) :
             /\ Walk(S)[k] \in S
             /\ Text(f, S)[k] = f[Walk(S)[k][1]][Walk(S)[k][2]]
<1>1. Cardinality(S) \in Nat
  BY FS_CardinalityType
<1>2. \A k \in 1..Cardinality(S) : Walk(S)[k] \in S
  BY WalkLists
<1>3. \A k \in 1..Cardinality(S) : Text(f, S)[k] = f[Walk(S)[k][1]][Walk(S)[k][2]]
  BY DEF Text
<1>4. Text(f, S) \in [1..Cardinality(S) -> Entries]
  BY <1>2 DEF Text
<1>5. Text(f, S) \in Seq(Entries)
  BY <1>1, <1>4, SeqDef
<1>6. Len(Text(f, S)) = Cardinality(S)
  BY <1>1, <1>4, <1>5, LenProperties
<1> QED BY <1>1, <1>2, <1>3, <1>5, <1>6

\* What keeps its order and its text, all behind it included, is the end.
LEMMA TextRest ==
  ASSUME NEW S, S \subseteq Spots, IsFiniteSet(S),
         NEW f, \A a \in S : f[a[1]][a[2]] \in Entries,
         NEW T, T \subseteq Spots, IsFiniteSet(T),
         NEW g, NEW m \in [T -> S],
         \A b \in T : g[b[1]][b[2]] = f[m[b][1]][m[b][2]],
         \A a, b \in T : Before(a, b) => Before(m[a], m[b]),
         \A a \in S, b \in T : Before(m[b], a) => \E c \in T : m[c] = a
  PROVE /\ Suffix(Text(g, T), Text(f, S))
        /\ (\A a \in S : \E c \in T : m[c] = a) => Len(Text(g, T)) = Len(Text(f, S))
<1>1. \A b \in T : g[b[1]][b[2]] \in Entries
  OBVIOUS
<1>2. /\ Cardinality(S) \in Nat /\ Len(Text(f, S)) = Cardinality(S)
      /\ \A k \in 1..Cardinality(S) : Text(f, S)[k] = f[Walk(S)[k][1]][Walk(S)[k][2]]
  <2>1. \A a \in S : f[a[1]][a[2]] \in Entries
    OBVIOUS
  <2>2. /\ Cardinality(S) \in Nat
        /\ Text(f, S) \in Seq(Entries) /\ Len(Text(f, S)) = Cardinality(S)
        /\ \A k \in 1..Cardinality(S) :
             /\ Walk(S)[k] \in S
             /\ Text(f, S)[k] = f[Walk(S)[k][1]][Walk(S)[k][2]]
    BY ONLY <2>1, S \subseteq Spots, IsFiniteSet(S), TextType
  <2> QED BY <2>2
<1>3. /\ Cardinality(T) \in Nat /\ Len(Text(g, T)) = Cardinality(T)
      /\ \A k \in 1..Cardinality(T) :
           /\ Walk(T)[k] \in T
           /\ Text(g, T)[k] = g[Walk(T)[k][1]][Walk(T)[k][2]]
  <2>1. /\ Cardinality(T) \in Nat
        /\ Text(g, T) \in Seq(Entries) /\ Len(Text(g, T)) = Cardinality(T)
        /\ \A k \in 1..Cardinality(T) :
             /\ Walk(T)[k] \in T
             /\ Text(g, T)[k] = g[Walk(T)[k][1]][Walk(T)[k][2]]
    BY ONLY <1>1, T \subseteq Spots, IsFiniteSet(T), TextType
  <2> QED BY <2>1
<1> DEFINE d == Cardinality(S) - Cardinality(T)
<1>4. /\ Cardinality(T) <= Cardinality(S)
      /\ \A k \in 1..Cardinality(T) :
           k + d \in 1..Cardinality(S) /\ Walk(S)[k + d] = m[Walk(T)[k]]
      /\ (\A a \in S : \E c \in T : m[c] = a) => Cardinality(T) = Cardinality(S)
  BY WalkRest
<1> HIDE DEF d
<1>5. ASSUME NEW k \in 1..Cardinality(T) PROVE Text(g, T)[k] = Text(f, S)[k + d]
  <2> DEFINE b == Walk(T)[k]
  <2>1. b \in T /\ Text(g, T)[k] = g[b[1]][b[2]]
    BY <1>3
  <2>2. g[b[1]][b[2]] = f[m[b][1]][m[b][2]]
    BY <2>1
  <2>3. Text(f, S)[k + d] = f[m[b][1]][m[b][2]]
    BY <1>2, <1>4
  <2> QED BY <2>1, <2>2, <2>3
<1>6. Suffix(Text(g, T), Text(f, S))
  BY <1>2, <1>3, <1>4, <1>5 DEF Suffix, d
<1> QED BY <1>2, <1>3, <1>4, <1>6

\* The texts of places before others come before theirs.
LEMMA TextJoins ==
  ASSUME NEW S, S \subseteq Spots, IsFiniteSet(S),
         NEW T, T \subseteq Spots, IsFiniteSet(T),
         NEW f, \A a \in S \cup T : f[a[1]][a[2]] \in Entries,
         \A a \in S, b \in T : Before(a, b)
  PROVE Text(f, S \cup T) = Text(f, S) \o Text(f, T)
<1> DEFINE U == S \cup T
<1>1. U \subseteq Spots /\ IsFiniteSet(U) /\ S \subseteq U /\ T \subseteq U
  BY FS_Union
<1>2. S \cap T = {}
  BY WalkOrder
<1>3. Cardinality(S) \in Nat /\ Cardinality(T) \in Nat
  BY FS_CardinalityType
<1>4. Cardinality(U) = Cardinality(S) + Cardinality(T)
  <2>1. Cardinality(S \cup T) = Cardinality(S) + Cardinality(T) - Cardinality(S \cap T)
    BY FS_Union
  <2>2. Cardinality(S \cap T) = 0
    BY <1>2, FS_EmptySet
  <2> QED BY ONLY <1>3, <2>1, <2>2
<1>5. \A k \in 1..Cardinality(S) : Walk(U)[k] = Walk(S)[k]
  <2>1. \A a \in S, b \in U \ S : Before(a, b)
    OBVIOUS
  <2> HIDE DEF U
  <2> QED BY <1>1, <2>1, WalkFront
<1>6. \A k \in 1..Cardinality(T) : Walk(U)[k + Cardinality(S)] = Walk(T)[k]
  <2> DEFINE m == [b \in T |-> b]
  <2>1. m \in [T -> U] /\ \A b \in T : m[b] = b
    OBVIOUS
  <2>2. \A a, b \in T : Before(a, b) => Before(m[a], m[b])
    OBVIOUS
  <2>3. ASSUME NEW a \in U, NEW b \in T, Before(m[b], a) PROVE \E c \in T : m[c] = a
    <3>1. Before(b, a) /\ b \in Spots /\ a \in Spots
      BY <2>3
    <3>2. a \notin S
      BY <3>1, WalkOrder
    <3> QED BY <3>2
  <2> HIDE DEF U, m
  <2>4. \A k \in 1..Cardinality(T) :
          /\ k + (Cardinality(U) - Cardinality(T)) \in 1..Cardinality(U)
          /\ Walk(U)[k + (Cardinality(U) - Cardinality(T))] = m[Walk(T)[k]]
    BY <1>1, <2>1, <2>2, <2>3, WalkRest
  <2>5. \A k \in 1..Cardinality(T) : Walk(T)[k] \in T
    BY WalkLists
  <2>6. Cardinality(U) - Cardinality(T) = Cardinality(S)
    BY <1>3, <1>4
  <2> QED BY <2>1, <2>4, <2>5, <2>6
<1> DEFINE r == Text(f, S)
           q == Text(f, T)
           w == Text(f, U)
           n == Cardinality(S)
           j == Cardinality(T)
<1>7. /\ r \in Seq(Entries) /\ Len(r) = n
      /\ \A k \in 1..n : r[k] = f[Walk(S)[k][1]][Walk(S)[k][2]]
  BY TextType
<1>8. /\ q \in Seq(Entries) /\ Len(q) = j
      /\ \A k \in 1..j : q[k] = f[Walk(T)[k][1]][Walk(T)[k][2]]
  BY TextType
<1>9. \A a \in U : f[a[1]][a[2]] \in Entries
  OBVIOUS
<1> HIDE DEF U
<1>10. /\ w \in Seq(Entries) /\ Len(w) = Cardinality(U)
       /\ \A k \in 1..Cardinality(U) : w[k] = f[Walk(U)[k][1]][Walk(U)[k][2]]
  BY <1>1, <1>9, TextType
<1> HIDE DEF r, q, w, n, j
<1>11. /\ n \in Nat /\ j \in Nat /\ Cardinality(U) = n + j
  BY <1>3, <1>4 DEF n, j
<1>12. \A k \in 1..n : w[k] = r[k]
  <2>1. \A k \in 1..n : Walk(U)[k] = Walk(S)[k]
    BY <1>5 DEF n
  <2> QED BY <1>7, <1>10, <1>11, <2>1
<1>13. \A k \in 1..j : w[k + n] = q[k]
  <2>1. \A k \in 1..j : Walk(U)[k + n] = Walk(T)[k]
    BY <1>6 DEF n, j
  <2>2. \A k \in 1..j : k + n \in 1..(n + j)
    BY <1>11
  <2>3. \A k \in 1..j : w[k + n] = f[Walk(T)[k][1]][Walk(T)[k][2]]
    BY <1>10, <1>11, <2>1, <2>2
  <2> QED BY <1>8, <2>3 DEF j
<1>14. /\ r \o q \in Seq(Entries) /\ Len(r \o q) = n + j
       /\ \A k \in 1..(n + j) : (r \o q)[k] = IF k <= n THEN r[k] ELSE q[k - n]
  BY ONLY <1>7, <1>8, <1>11, ConcatProperties
<1>15. ASSUME NEW k \in 1..(n + j) PROVE w[k] = (r \o q)[k]
  <2>1. CASE k <= n
    <3>1. k \in 1..n
      BY <1>11, <2>1
    <3> QED BY <1>12, <1>14, <2>1, <3>1
  <2>2. CASE ~(k <= n)
    <3>1. k - n \in 1..j /\ (k - n) + n = k
      BY <1>11, <2>2
    <3>2. w[(k - n) + n] = q[k - n]
      BY <1>13, <3>1
    <3> QED BY <1>14, <2>2, <3>1, <3>2
  <2> QED BY <2>1, <2>2
<1>16. w = r \o q
  BY <1>10, <1>11, <1>14, <1>15, SeqEqual
<1> QED BY <1>16 DEF U, r, q, w

LEMMA SuffixSelf == \A s \in Seq(Entries) : Suffix(s, s)
<1> SUFFICES ASSUME NEW s \in Seq(Entries) PROVE Suffix(s, s)
  OBVIOUS
<1>1. PICK n \in Nat : n = Len(s)
  BY LenProperties
<1>2. n <= n /\ \A k \in 1..n : k + (n - n) \in 1..n /\ s[k] = s[k + (n - n)]
  OBVIOUS
<1> QED BY <1>1, <1>2 DEF Suffix

LEMMA SuffixWhole ==
  ASSUME NEW s \in Seq(Entries), NEW r \in Seq(Entries), Suffix(r, s), Len(r) = Len(s)
  PROVE r = s
<1>1. PICK n \in Nat : n = Len(s)
  BY LenProperties
<1>2. \A k \in 1..n : r[k] = s[k + (n - n)]
  BY <1>1 DEF Suffix
<1>3. \A k \in 1..n : r[k] = s[k]
  BY <1>2
<1> QED BY <1>1, <1>3, SeqEqual

\* The same places and texts.
LEMMA TextSame ==
  ASSUME NEW S, S \subseteq Spots, IsFiniteSet(S), NEW f, NEW g,
         \A a \in S : g[a[1]][a[2]] = f[a[1]][a[2]]
  PROVE Text(g, S) = Text(f, S)
<1>1. \A k \in 1..Cardinality(S) : Walk(S)[k] \in S
  BY WalkLists
<1> QED BY <1>1 DEF Text

\* One more record behind all others.
LEMMA TextGrows ==
  ASSUME NEW S, NEW f, NEW g, NEW x \in Spots,
         S \subseteq Spots, IsFiniteSet(S),
         \A a \in S : f[a[1]][a[2]] \in Entries,
         \A a \in S : Before(a, x),
         \A a \in S : g[a[1]][a[2]] = f[a[1]][a[2]],
         g[x[1]][x[2]] \in Entries
  PROVE Text(g, S \cup {x}) = Append(Text(f, S), g[x[1]][x[2]])
<1> DEFINE T == S \cup {x}
           N == Cardinality(S)
           r == Text(f, S)
           e == g[x[1]][x[2]]
<1>1. /\ IsFiniteSet(T) /\ Cardinality(T) = N + 1
      /\ \A k \in 1..N : Walk(T)[k] = Walk(S)[k]
      /\ Walk(T)[N + 1] = x
  BY WalkGrows
<1>2. T \subseteq Spots /\ \A a \in T : g[a[1]][a[2]] \in Entries
  OBVIOUS
<1>3. /\ N \in Nat /\ r \in Seq(Entries) /\ Len(r) = N
      /\ \A k \in 1..N : Walk(S)[k] \in S /\ r[k] = f[Walk(S)[k][1]][Walk(S)[k][2]]
  BY TextType
<1> HIDE DEF T, N
<1>4. /\ Text(g, T) \in Seq(Entries) /\ Len(Text(g, T)) = N + 1
      /\ \A k \in 1..(N + 1) : Text(g, T)[k] = g[Walk(T)[k][1]][Walk(T)[k][2]]
  BY <1>1, <1>2, TextType
<1> HIDE DEF r
<1>5. /\ Append(r, e) \in Seq(Entries) /\ Len(Append(r, e)) = N + 1
      /\ \A k \in 1..N : Append(r, e)[k] = r[k]
      /\ Append(r, e)[N + 1] = e
  BY <1>3, AppendProperties
<1>6. ASSUME NEW k \in 1..(N + 1) PROVE Text(g, T)[k] = Append(r, e)[k]
  <2>1. CASE k \in 1..N
    <3>1. Walk(T)[k] \in S /\ Walk(T)[k] = Walk(S)[k]
      BY <1>1, <1>3, <2>1
    <3> QED BY <1>3, <1>4, <1>5, <2>1, <3>1
  <2>2. CASE k = N + 1
    BY <1>1, <1>4, <1>5, <2>2
  <2> QED BY <1>3, <2>1, <2>2
<1>7. Text(g, T) = Append(r, e)
  BY <1>4, <1>5, <1>6, SeqEqual
<1> QED BY <1>7 DEF T, r

\* The places of the records up to keep, in a state and in the next one.
Here == Places(file, keep, pc = "cut")

\* Those of all records, and of those above keep.
All == Places(file, Most, pc = "cut")
Rest == Beyond(file, keep)

\* The records of some lines are the texts the walk comes to.
LEMMA LinesText == \A S : Text(file, S) =
  LET At(k) == CHOOSE a \in S : Cardinality({b \in S : Before(b, a)}) = k - 1
  IN [k \in 1..Cardinality(S) |-> file[At(k)[1]][At(k)[2]]]
BY DEF Text, Walk, Rank, Earlier

LEMMA LinesNext == \A S : Text(file', S) =
  LET At(k) == CHOOSE a \in S : Cardinality({b \in S : Before(b, a)}) = k - 1
  IN [k \in 1..Cardinality(S) |-> file'[At(k)[1]][At(k)[2]]]
BY DEF Text, Walk, Rank, Earlier

LEMMA RecordsText ==
  /\ Recent = Text(file, LinesIn(file, Kept, pc = "cut"))
  /\ Records = Text(file, LinesIn(file, Files, pc = "cut"))
  /\ Surplus = Text(file, LinesIn(file, Files \ Kept, pc = "cut"))
  /\ Recent' = Text(file', LinesIn(file', Kept', pc' = "cut"))
  /\ Records' = Text(file', LinesIn(file', Files', pc' = "cut"))
  /\ Surplus' = Text(file', LinesIn(file', Files' \ Kept', pc' = "cut"))
<1>1. Recent = Text(file, LinesIn(file, Kept, pc = "cut"))
  <2>1. Lines(Kept) = LinesIn(file, Kept, pc = "cut")
    BY DEF Lines, LinesIn, Settled, SettledOf
  <2>2. RecordsIn(Kept) = Text(file, Lines(Kept))
    BY ZenonT(60), LinesText DEF RecordsIn
  <2> QED BY <2>1, <2>2 DEF Recent
<1>2. Records = Text(file, LinesIn(file, Files, pc = "cut"))
  <2>1. Lines(Files) = LinesIn(file, Files, pc = "cut")
    BY DEF Lines, LinesIn, Settled, SettledOf
  <2>2. RecordsIn(Files) = Text(file, Lines(Files))
    BY ZenonT(60), LinesText DEF RecordsIn
  <2> QED BY <2>1, <2>2 DEF Records
<1>3. Surplus = Text(file, LinesIn(file, Files \ Kept, pc = "cut"))
  <2>1. Lines(Files \ Kept) = LinesIn(file, Files \ Kept, pc = "cut")
    BY DEF Lines, LinesIn, Settled, SettledOf
  <2>2. RecordsIn(Files \ Kept) = Text(file, Lines(Files \ Kept))
    BY ZenonT(60), LinesText DEF RecordsIn
  <2> QED BY <2>1, <2>2 DEF Surplus
<1>4. Recent' = Text(file', LinesIn(file', Kept', pc' = "cut"))
  <2>1. Lines(Kept)' = LinesIn(file', Kept', pc' = "cut")
    BY DEF Lines, LinesIn, Settled, SettledOf
  <2>2. RecordsIn(Kept)' = Text(file', Lines(Kept)')
    BY ZenonT(60), LinesNext DEF RecordsIn
  <2> QED BY <2>1, <2>2 DEF Recent
<1>5. Records' = Text(file', LinesIn(file', Files', pc' = "cut"))
  <2>1. Lines(Files)' = LinesIn(file', Files', pc' = "cut")
    BY DEF Lines, LinesIn, Settled, SettledOf
  <2>2. RecordsIn(Files)' = Text(file', Lines(Files)')
    BY ZenonT(60), LinesNext DEF RecordsIn
  <2> QED BY <2>1, <2>2 DEF Records
<1>6. Surplus' = Text(file', LinesIn(file', Files' \ Kept', pc' = "cut"))
  <2>1. Lines(Files \ Kept)' = LinesIn(file', Files' \ Kept', pc' = "cut")
    BY DEF Lines, LinesIn, Settled, SettledOf
  <2>2. RecordsIn(Files \ Kept)' = Text(file', Lines(Files \ Kept)')
    BY ZenonT(60), LinesNext DEF RecordsIn
  <2> QED BY <2>1, <2>2 DEF Surplus
<1> QED BY <1>1, <1>2, <1>3, <1>4, <1>5, <1>6

\* The lines of the files above k.
LEMMA LinesBeyond ==
  ASSUME NEW f, NEW k \in 1..Most, NEW c \in BOOLEAN, NEW A, NEW B,
         \A n \in Slots : f[n] = Missing \/ Lined(f[n]), c => Ragged(f[0]),
         \A n : n \in A <=> n \in Slots /\ f[n] # Missing,
         \A n : n \in B <=> n \in A /\ n <= k
  PROVE /\ LinesIn(f, A, c) = Places(f, Most, c)
        /\ LinesIn(f, B, c) = Places(f, k, c)
        /\ LinesIn(f, A \ B, c) = Beyond(f, k)
        /\ Places(f, Most, c) = Beyond(f, k) \cup Places(f, k, c)
<1> DEFINE Row(n) == {n} \X {i \in DOMAIN SettledOf(f, n, c) : Whole(SettledOf(f, n, c), i)}
<1>1. Most \in 1..Most /\ k \in Nat /\ Most \in Nat
  BY Reach
<1>2. A = {m \in 0..Most : f[m] # Missing}
  BY DEF Slots
<1>3. B = {m \in 0..k : f[m] # Missing}
  BY <1>1, <1>2
<1>4. LinesIn(f, A, c) = Places(f, Most, c)
  BY <1>1, <1>2, LinesArePlaces DEF LinesOf
<1>5. LinesIn(f, B, c) = Places(f, k, c)
  BY <1>3, LinesArePlaces DEF LinesOf
<1>6. ASSUME NEW D PROVE LinesIn(f, D, c) = UNION {Row(n) : n \in D}
  BY DEF LinesIn
<1>7. \A n, a : a \in Row(n) => a[1] = n
  OBVIOUS
<1> HIDE DEF Row
<1>8. UNION {Row(n) : n \in A \ B} = (UNION {Row(n) : n \in A}) \ (UNION {Row(n) : n \in B})
  BY <1>7
<1>9. LinesIn(f, A \ B, c) = LinesIn(f, A, c) \ LinesIn(f, B, c)
  BY <1>6, <1>8
<1>10. \A a : a \in Older(f, k) => a \in Older(f, Most)
  BY <1>1 DEF Older
<1>11. \A a : ~(a \in Older(f, Most) /\ a \in {0} \X Marks(f, c))
  BY DEF Older
<1>12. Places(f, Most, c) \ Places(f, k, c) = Beyond(f, k)
  BY <1>10, <1>11 DEF Places, Beyond
<1>13. Places(f, Most, c) = Beyond(f, k) \cup Places(f, k, c)
  BY <1>10 DEF Places, Beyond
<1> QED BY <1>4, <1>5, <1>9, <1>12, <1>13

\* What a record is, where it is.
LEMMA PlaceTexts ==
  ASSUME NEW f, NEW k \in 1..Most, NEW c \in BOOLEAN,
         \A n \in Slots : f[n] = Missing \/ Lined(f[n]),
         NEW a \in Places(f, k, c)
  PROVE f[a[1]][a[2]] \in Entries
<1>1. PICK n \in Nat, i \in Nat : /\ a[1] = n /\ a[2] = i /\ n \in 0..k /\ f[n] # Missing
                                  /\ i \in 1..Len(f[n]) /\ f[n][i].kind = "record"
  <2>1. CASE a \in Older(f, k)
    BY <2>1 DEF Older, Spots
  <2>2. CASE a \in {0} \X Marks(f, c)
    BY <2>2, Reach DEF Marks
  <2> QED BY <2>1, <2>2 DEF Places
<1>2. n \in Slots
  BY <1>1, Reach DEF Slots
<1>3. f[n] \in Seq(Pieces)
  BY <1>1, <1>2 DEF Lined
<1>4. f[n][i] \in Pieces
  BY <1>1, <1>3, ElementOfSeq
<1> QED BY <1>1, <1>4, Kinds

\* The records above k come before those up to k.
LEMMA BeyondFirst ==
  ASSUME NEW f, NEW k \in 1..Most, NEW c \in BOOLEAN
  PROVE \A a \in Beyond(f, k), b \in Places(f, k, c) : Before(a, b)
<1> SUFFICES ASSUME NEW a \in Beyond(f, k), NEW b \in Places(f, k, c) PROVE Before(a, b)
  OBVIOUS
<1>1. a[1] \in 1..Most /\ a[1] \notin 1..k /\ Most \in Nat
  BY Reach DEF Beyond, Older
<1>2. b[1] \in 0..k
  <2>1. CASE b \in Older(f, k)
    BY <2>1 DEF Older
  <2>2. CASE b \in {0} \X Marks(f, c)
    BY <2>2
  <2> QED BY <2>1, <2>2 DEF Places
<1> QED BY <1>1, <1>2 DEF Before

\* The records of some files: what the walk reads, in two parts.
LEMMA ReadFiles ==
  ASSUME NEW f, NEW k \in 1..Most, NEW c \in BOOLEAN, NEW A, NEW B,
         \A n \in Slots : f[n] = Missing \/ Lined(f[n]), c => Ragged(f[0]),
         \A n : n \in A <=> n \in Slots /\ f[n] # Missing,
         \A n : n \in B <=> n \in A /\ n <= k
  PROVE /\ LinesIn(f, A, c) = Places(f, Most, c)
        /\ LinesIn(f, B, c) = Places(f, k, c)
        /\ LinesIn(f, A \ B, c) = Beyond(f, k)
        /\ Places(f, Most, c) \subseteq Spots /\ IsFiniteSet(Places(f, Most, c))
        /\ Places(f, k, c) \subseteq Spots /\ IsFiniteSet(Places(f, k, c))
        /\ Beyond(f, k) \subseteq Spots /\ IsFiniteSet(Beyond(f, k))
        /\ \A a \in Places(f, Most, c) : f[a[1]][a[2]] \in Entries
        /\ \A a \in Places(f, k, c) : f[a[1]][a[2]] \in Entries
        /\ \A a \in Beyond(f, k) : f[a[1]][a[2]] \in Entries
        /\ Text(f, Places(f, Most, c)) \in Seq(Entries)
        /\ Text(f, Places(f, k, c)) \in Seq(Entries)
        /\ Text(f, Beyond(f, k)) \in Seq(Entries)
        /\ Text(f, Places(f, Most, c)) = Text(f, Beyond(f, k)) \o Text(f, Places(f, k, c))
<1>1. /\ LinesIn(f, A, c) = Places(f, Most, c)
      /\ LinesIn(f, B, c) = Places(f, k, c)
      /\ LinesIn(f, A \ B, c) = Beyond(f, k)
      /\ Places(f, Most, c) = Beyond(f, k) \cup Places(f, k, c)
  <2>1. PICK d \in BOOLEAN : d = c
    OBVIOUS
  <2>2. \A n \in Slots : f[n] = Missing \/ Lined(f[n])
    OBVIOUS
  <2>3. d => Ragged(f[0])
    BY <2>1
  <2>4. /\ LinesIn(f, A, d) = Places(f, Most, d)
        /\ LinesIn(f, B, d) = Places(f, k, d)
        /\ LinesIn(f, A \ B, d) = Beyond(f, k)
        /\ Places(f, Most, d) = Beyond(f, k) \cup Places(f, k, d)
    BY ONLY k \in 1..Most, d \in BOOLEAN, <2>2, <2>3,
            \A n : n \in A <=> n \in Slots /\ f[n] # Missing,
            \A n : n \in B <=> n \in A /\ n <= k, LinesBeyond
  <2> QED BY <2>1, <2>4
<1>2. Places(f, Most, c) \subseteq Spots /\ IsFiniteSet(Places(f, Most, c))
  <2>1. Most \in 1..Most
    BY Reach
  <2> QED BY <2>1, LinesArePlaces
<1>3. \A a \in Places(f, Most, c) : f[a[1]][a[2]] \in Entries
  <2>1. Most \in 1..Most
    BY Reach
  <2> QED BY <2>1, PlaceTexts
<1>4. PICK S : S = Beyond(f, k)
  OBVIOUS
<1>5. PICK T : T = Places(f, k, c)
  OBVIOUS
<1>6. PICK U : U = Places(f, Most, c)
  OBVIOUS
<1>7. U = S \cup T /\ U \subseteq Spots /\ IsFiniteSet(U) /\ \A a \in U : f[a[1]][a[2]] \in Entries
  BY <1>1, <1>2, <1>3, <1>4, <1>5, <1>6
<1>8. \A a \in S, b \in T : Before(a, b)
  BY <1>4, <1>5, BeyondFirst
<1>9. /\ S \subseteq Spots /\ IsFiniteSet(S) /\ \A a \in S : f[a[1]][a[2]] \in Entries
      /\ T \subseteq Spots /\ IsFiniteSet(T) /\ \A a \in T : f[a[1]][a[2]] \in Entries
  <2>1. S \subseteq U /\ T \subseteq U
    BY ONLY <1>7
  <2> QED BY ONLY <1>7, <2>1, FS_Subset
<1>10. Text(f, U) = Text(f, S) \o Text(f, T)
  <2>1. \A a \in S \cup T : f[a[1]][a[2]] \in Entries
    BY ONLY <1>9
  <2> QED BY ONLY <1>7, <1>8, <1>9, <2>1, TextJoins
<1>11. Text(f, U) \in Seq(Entries)
  BY ONLY <1>7, TextType
<1>12. Text(f, S) \in Seq(Entries)
  BY ONLY <1>9, TextType
<1>13. Text(f, T) \in Seq(Entries)
  BY ONLY <1>9, TextType
<1> QED BY <1>1, <1>4, <1>5, <1>6, <1>7, <1>9, <1>10, <1>11, <1>12, <1>13

LEMMA RecordsHere ==
  ASSUME Form
  PROVE /\ Here \subseteq Spots /\ IsFiniteSet(Here)
        /\ Recent = Text(file, Here) /\ Recent \in Seq(Entries)
        /\ \A a \in Here : file[a[1]][a[2]] \in Entries
        /\ All \subseteq Spots /\ IsFiniteSet(All)
        /\ Records = Text(file, All) /\ Records \in Seq(Entries)
        /\ \A a \in All : file[a[1]][a[2]] \in Entries
        /\ Rest \subseteq Spots /\ IsFiniteSet(Rest)
        /\ Surplus = Text(file, Rest) /\ Surplus \in Seq(Entries)
        /\ \A a \in Rest : file[a[1]][a[2]] \in Entries
        /\ Records = Surplus \o Recent
<1>1. /\ keep \in 1..Most /\ (pc = "cut") \in BOOLEAN
      /\ \A n \in Slots : file[n] = Missing \/ Lined(file[n])
      /\ pc = "cut" => Ragged(file[0])
  BY FormFacts DEF Form, Shapes, Tidy
<1>2. Files = {n \in Slots : file[n] # Missing} /\ Kept = {n \in Files : n <= keep}
  BY DEF Files, Kept
<1>3. PICK f : f = file
  OBVIOUS
<1>4. PICK k \in 1..Most : k = keep
  BY <1>1
<1>5. PICK c \in BOOLEAN : c = (pc = "cut")
  BY <1>1
<1>6. PICK A : A = Files
  OBVIOUS
<1>7. PICK B : B = Kept
  OBVIOUS
<1>8. /\ \A n \in Slots : f[n] = Missing \/ Lined(f[n])
      /\ c => Ragged(f[0])
      /\ A = {n \in Slots : f[n] # Missing} /\ B = {n \in A : n <= k}
  BY <1>1, <1>2, <1>3, <1>4, <1>5, <1>6, <1>7
<1>9. /\ LinesIn(f, A, c) = Places(f, Most, c)
      /\ LinesIn(f, B, c) = Places(f, k, c)
      /\ LinesIn(f, A \ B, c) = Beyond(f, k)
      /\ Places(f, Most, c) \subseteq Spots /\ IsFiniteSet(Places(f, Most, c))
      /\ Places(f, k, c) \subseteq Spots /\ IsFiniteSet(Places(f, k, c))
      /\ Beyond(f, k) \subseteq Spots /\ IsFiniteSet(Beyond(f, k))
      /\ \A a \in Places(f, Most, c) : f[a[1]][a[2]] \in Entries
      /\ \A a \in Places(f, k, c) : f[a[1]][a[2]] \in Entries
      /\ \A a \in Beyond(f, k) : f[a[1]][a[2]] \in Entries
      /\ Text(f, Places(f, Most, c)) \in Seq(Entries)
      /\ Text(f, Places(f, k, c)) \in Seq(Entries)
      /\ Text(f, Beyond(f, k)) \in Seq(Entries)
      /\ Text(f, Places(f, Most, c)) = Text(f, Beyond(f, k)) \o Text(f, Places(f, k, c))
  <2>1. \A n \in Slots : f[n] = Missing \/ Lined(f[n])
    BY ONLY <1>8
  <2>2. c => Ragged(f[0])
    BY ONLY <1>8
  <2>3. \A n : n \in A <=> n \in Slots /\ f[n] # Missing
    BY ONLY <1>8
  <2>4. \A n : n \in B <=> n \in A /\ n <= k
    BY ONLY <1>8
  <2> QED BY ONLY <2>1, <2>2, <2>3, <2>4, k \in 1..Most, c \in BOOLEAN, ReadFiles
<1>10. /\ Here = Places(f, k, c) /\ All = Places(f, Most, c) /\ Rest = Beyond(f, k)
       /\ Recent = Text(f, LinesIn(f, B, c)) /\ Records = Text(f, LinesIn(f, A, c))
       /\ Surplus = Text(f, LinesIn(f, A \ B, c))
  BY <1>3, <1>4, <1>5, <1>6, <1>7, RecordsText DEF Here, All, Rest
<1> QED BY ONLY <1>3, <1>9, <1>10

LEMMA RecordsNext ==
  ASSUME Form'
  PROVE /\ Here' \subseteq Spots /\ IsFiniteSet(Here')
        /\ Recent' = Text(file', Here') /\ Recent' \in Seq(Entries)
        /\ \A a \in Here' : file'[a[1]][a[2]] \in Entries
        /\ All' \subseteq Spots /\ IsFiniteSet(All')
        /\ Records' = Text(file', All') /\ Records' \in Seq(Entries)
        /\ \A a \in All' : file'[a[1]][a[2]] \in Entries
        /\ Rest' \subseteq Spots /\ IsFiniteSet(Rest')
        /\ Surplus' = Text(file', Rest') /\ Surplus' \in Seq(Entries)
        /\ \A a \in Rest' : file'[a[1]][a[2]] \in Entries
        /\ Records' = Surplus' \o Recent'
<1>1. /\ keep' \in 1..Most /\ (pc' = "cut") \in BOOLEAN
      /\ \A n \in Slots : file'[n] = Missing \/ Lined(file'[n])
      /\ pc' = "cut" => Ragged(file'[0])
  BY Reach DEF Form, TypeOK, Shapes, Tidy
<1>2. Files' = {n \in Slots : file'[n] # Missing} /\ Kept' = {n \in Files' : n <= keep'}
  BY DEF Files, Kept
<1>3. PICK f : f = file'
  OBVIOUS
<1>4. PICK k \in 1..Most : k = keep'
  BY <1>1
<1>5. PICK c \in BOOLEAN : c = (pc' = "cut")
  BY <1>1
<1>6. PICK A : A = Files'
  OBVIOUS
<1>7. PICK B : B = Kept'
  OBVIOUS
<1>8. /\ \A n \in Slots : f[n] = Missing \/ Lined(f[n])
      /\ c => Ragged(f[0])
      /\ A = {n \in Slots : f[n] # Missing} /\ B = {n \in A : n <= k}
  BY <1>1, <1>2, <1>3, <1>4, <1>5, <1>6, <1>7
<1>9. /\ LinesIn(f, A, c) = Places(f, Most, c)
      /\ LinesIn(f, B, c) = Places(f, k, c)
      /\ LinesIn(f, A \ B, c) = Beyond(f, k)
      /\ Places(f, Most, c) \subseteq Spots /\ IsFiniteSet(Places(f, Most, c))
      /\ Places(f, k, c) \subseteq Spots /\ IsFiniteSet(Places(f, k, c))
      /\ Beyond(f, k) \subseteq Spots /\ IsFiniteSet(Beyond(f, k))
      /\ \A a \in Places(f, Most, c) : f[a[1]][a[2]] \in Entries
      /\ \A a \in Places(f, k, c) : f[a[1]][a[2]] \in Entries
      /\ \A a \in Beyond(f, k) : f[a[1]][a[2]] \in Entries
      /\ Text(f, Places(f, Most, c)) \in Seq(Entries)
      /\ Text(f, Places(f, k, c)) \in Seq(Entries)
      /\ Text(f, Beyond(f, k)) \in Seq(Entries)
      /\ Text(f, Places(f, Most, c)) = Text(f, Beyond(f, k)) \o Text(f, Places(f, k, c))
  <2>1. \A n \in Slots : f[n] = Missing \/ Lined(f[n])
    BY ONLY <1>8
  <2>2. c => Ragged(f[0])
    BY ONLY <1>8
  <2>3. \A n : n \in A <=> n \in Slots /\ f[n] # Missing
    BY ONLY <1>8
  <2>4. \A n : n \in B <=> n \in A /\ n <= k
    BY ONLY <1>8
  <2> QED BY ONLY <2>1, <2>2, <2>3, <2>4, k \in 1..Most, c \in BOOLEAN, ReadFiles
<1>10. /\ Here' = Places(f, k, c) /\ All' = Places(f, Most, c) /\ Rest' = Beyond(f, k)
       /\ Recent' = Text(f, LinesIn(f, B, c)) /\ Records' = Text(f, LinesIn(f, A, c))
       /\ Surplus' = Text(f, LinesIn(f, A \ B, c))
  <2>1. Here' = Places(f, k, c)
    BY <1>3, <1>4, <1>5 DEF Here
  <2>2. All' = Places(f, Most, c)
    BY <1>3, <1>5 DEF All
  <2>3. Rest' = Beyond(f, k)
    BY <1>3, <1>4 DEF Rest
  <2>4. Recent' = Text(f, LinesIn(f, B, c)) /\ Records' = Text(f, LinesIn(f, A, c))
    BY <1>3, <1>5, <1>6, <1>7, RecordsText
  <2>5. Surplus' = Text(f, LinesIn(f, A \ B, c))
    BY <1>3, <1>5, <1>6, <1>7, RecordsText
  <2> QED BY <2>1, <2>2, <2>3, <2>4, <2>5
<1> QED BY ONLY <1>3, <1>9, <1>10

-----------------------------------------------------------------------------
(* PART FIVE.  What the steps do to the records                            *)

\* The rotated files that count stay.
LEMMA SameOlder ==
  ASSUME keep' = keep, \A n \in 1..keep : file'[n] = file[n]
  PROVE Older(file', keep') = Older(file, keep)
BY DEF Older

LEMMA SameRecords ==
  ASSUME Form, Form', keep' = keep, \A n \in 1..keep : file'[n] = file[n],
         Marks(file', pc' = "cut") = Marks(file, pc = "cut"),
         \A i \in Marks(file, pc = "cut") : file'[0][i] = file[0][i]
  PROVE Recent' = Recent
<1>1. Here' = Here
  BY SameOlder DEF Here, Places
<1>2. /\ Here \subseteq Spots /\ IsFiniteSet(Here)
      /\ Recent = Text(file, Here) /\ Recent' = Text(file', Here')
  BY RecordsHere, RecordsNext
<1>3. \A a \in Here : file'[a[1]][a[2]] = file[a[1]][a[2]]
  BY DEF Here, Places, Older
<1>4. Text(file', Here) = Text(file, Here)
  BY ONLY <1>2, <1>3, TextSame
<1> QED BY <1>1, <1>2, <1>4

LEMMA MoreRecords ==
  ASSUME Form, Form', keep' = keep, \A n \in 1..keep : file'[n] = file[n], NEW x \in Nat,
         Marks(file', pc' = "cut") = Marks(file, pc = "cut") \cup {x},
         \A i \in Marks(file, pc = "cut") : i < x /\ file'[0][i] = file[0][i]
  PROVE /\ Recent' = Append(Recent, file'[0][x])
        /\ file'[0][x] \in Entries
<1> DEFINE y == <<0, x>>
<1>1. Here' = Here \cup {y}
  BY SameOlder DEF Here, Places
<1>2. /\ Here \subseteq Spots /\ IsFiniteSet(Here)
      /\ Recent = Text(file, Here) /\ Recent' = Text(file', Here')
      /\ \A a \in Here : file[a[1]][a[2]] \in Entries
      /\ \A a \in Here' : file'[a[1]][a[2]] \in Entries
  BY RecordsHere, RecordsNext
<1>3. \A a \in Here : file'[a[1]][a[2]] = file[a[1]][a[2]]
  BY DEF Here, Places, Older
<1>4. \A a \in Here : Before(a, y)
  <2>1. keep \in Nat
    BY FormFacts
  <2> QED BY <2>1 DEF Here, Places, Older, Before
<1>5. y \in Spots /\ file'[y[1]][y[2]] = file'[0][x]
  BY DEF Spots
<1>6. file'[y[1]][y[2]] \in Entries
  BY <1>1, <1>2
<1> HIDE DEF y
<1>7. \A a \in Here : file[a[1]][a[2]] \in Entries
  BY <1>2
<1>8. Here \subseteq Spots /\ IsFiniteSet(Here) /\ y \in Spots
  BY <1>2, <1>5
<1>9. Text(file', Here \cup {y}) = Append(Text(file, Here), file'[y[1]][y[2]])
  <2>1. PICK S : S = Here
    OBVIOUS
  <2>2. PICK f : f = file
    OBVIOUS
  <2>3. PICK g : g = file'
    OBVIOUS
  <2>4. PICK z \in Spots : z = y
    BY <1>8
  <2>5. /\ S \subseteq Spots /\ IsFiniteSet(S)
        /\ \A a \in S : f[a[1]][a[2]] \in Entries
        /\ \A a \in S : Before(a, z)
        /\ \A a \in S : g[a[1]][a[2]] = f[a[1]][a[2]]
        /\ g[z[1]][z[2]] \in Entries
    BY ONLY <1>3, <1>4, <1>6, <1>7, <1>8, <2>1, <2>2, <2>3, <2>4
  <2>6. Text(g, S \cup {z}) = Append(Text(f, S), g[z[1]][z[2]])
    BY ONLY z \in Spots, <2>5, TextGrows
  <2> QED BY ONLY <2>1, <2>2, <2>3, <2>4, <2>6
<1> QED BY <1>1, <1>2, <1>5, <1>6, <1>9

\* A write at the end of the live file.
LEMMA MarksGrow ==
  ASSUME NEW f, NEW g, f[0] # Missing, g[0] # Missing, Len(f[0]) \in Nat,
         \A i \in 1..Len(f[0]) : g[0][i] = f[0][i],
         \/ Len(g[0]) = Len(f[0]) + 1
         \/ Len(g[0]) = Len(f[0]) + 2 /\ g[0][Len(f[0]) + 2] = Newline
  PROVE /\ g[0][Len(f[0]) + 1].kind = "record" =>
             Marks(g, FALSE) = Marks(f, FALSE) \cup {Len(f[0]) + 1}
        /\ g[0][Len(f[0]) + 1].kind # "record" => Marks(g, FALSE) = Marks(f, FALSE)
        /\ Len(g[0]) = Len(f[0]) + 1 => Marks(g, TRUE) = Marks(f, FALSE)
        /\ \A i \in Marks(f, FALSE) : i < Len(f[0]) + 1 /\ g[0][i] = f[0][i]
<1>1. PICK n \in Nat : n = Len(f[0])
  OBVIOUS
<1>2. PICK x : x = g[0][n + 1]
  OBVIOUS
<1>3. /\ g[0][n + 1] = x /\ \A i \in 1..n : g[0][i] = f[0][i]
      /\ \/ Len(g[0]) = n + 1
         \/ Len(g[0]) = n + 2 /\ g[0][n + 2] = Newline
  BY <1>1, <1>2
<1>4. Newline.kind # "record"
  BY DEF Newline
<1>5. \A i : i \in Marks(f, FALSE) <=> i \in 1..n /\ f[0][i].kind = "record"
  BY <1>1 DEF Marks
<1>6. /\ \A i : i \in Marks(g, FALSE) <=> i \in 1..Len(g[0]) /\ g[0][i].kind = "record"
      /\ \A i : i \in Marks(g, TRUE) <=> /\ i \in 1..Len(g[0]) /\ g[0][i].kind = "record"
                                         /\ i # Len(g[0])
  BY DEF Marks
<1>7. ASSUME NEW i
      PROVE i \in Marks(g, FALSE) <=> \/ i \in 1..n /\ f[0][i].kind = "record"
                                      \/ i = n + 1 /\ x.kind = "record"
  <2>1. CASE i \in 1..n
    <3>1. g[0][i] = f[0][i] /\ i \in 1..Len(g[0]) /\ i # n + 1
      BY <1>1, <1>3, <2>1
    <3> QED BY <1>6, <2>1, <3>1
  <2>2. CASE i = n + 1
    <3>1. i \in 1..Len(g[0]) /\ g[0][i] = x /\ i \notin 1..n
      BY <1>1, <1>3, <2>2
    <3> QED BY <1>6, <2>2, <3>1
  <2>3. CASE i \notin 1..n /\ i # n + 1
    <3>1. i \in 1..Len(g[0]) => i = n + 2
      BY <1>3, <2>3
    <3>2. i \in 1..Len(g[0]) => g[0][i] = Newline
      BY <1>3, <3>1
    <3> QED BY <1>4, <1>6, <2>3, <3>2
  <2> QED BY <2>1, <2>2, <2>3
<1>8. x.kind = "record" => Marks(g, FALSE) = Marks(f, FALSE) \cup {n + 1}
  BY <1>5, <1>7
<1>9. x.kind # "record" => Marks(g, FALSE) = Marks(f, FALSE)
  BY <1>5, <1>7
<1>10. ASSUME NEW i \in Marks(f, FALSE) PROVE i < n + 1 /\ g[0][i] = f[0][i]
  <2>1. i \in 1..n
    BY <1>5
  <2> QED BY <1>1, <1>3, <2>1
<1>11. ASSUME Len(g[0]) = n + 1 PROVE Marks(g, TRUE) = Marks(f, FALSE)
  <2>1. \A i : i \in 1..Len(g[0]) /\ i # Len(g[0]) <=> i \in 1..n
    BY <1>1, <1>3, <1>11
  <2>2. \A i : i \in Marks(g, TRUE) <=> i \in Marks(f, FALSE)
    BY <1>3, <1>5, <1>6, <2>1
  <2> QED BY <2>2
<1> QED BY <1>1, <1>2, <1>8, <1>9, <1>10, <1>11

\* A last piece that begins to count, or never does.
LEMMA MarksSettle ==
  ASSUME NEW f, NEW g, f[0] # Missing, Lined(f[0]), Odd(Len(f[0])), g[0] # Missing,
         \/ g[0] = f[0]
         \/ g[0] = SubSeq(f[0], 1, Len(f[0]) - 1)
  PROVE /\ f[0][Len(f[0])].kind = "record" /\ g[0] = f[0] =>
             Marks(g, FALSE) = Marks(f, TRUE) \cup {Len(f[0])}
        /\ f[0][Len(f[0])].kind # "record" \/ g[0] # f[0] => Marks(g, FALSE) = Marks(f, TRUE)
        /\ \A i \in Marks(f, TRUE) : i < Len(f[0]) /\ g[0][i] = f[0][i]
        /\ Len(f[0]) \in Nat
<1>1. Len(f[0]) \in Nat \ {0}
  BY LinedCutBack
<1>2. PICK n \in Nat \ {0} : n = Len(f[0])
  BY <1>1
<1>3. \A i : i \in Marks(f, TRUE) <=> i \in 1..(n - 1) /\ f[0][i].kind = "record"
  BY <1>2 DEF Marks
<1>4. \A i : i \in Marks(g, FALSE) <=> i \in 1..Len(g[0]) /\ g[0][i].kind = "record"
  BY DEF Marks
<1>5. CASE g[0] = f[0]
  <2>1. ASSUME NEW i
        PROVE i \in Marks(g, FALSE) <=> \/ i \in Marks(f, TRUE)
                                        \/ i = n /\ f[0][n].kind = "record"
    <3>1. i \in 1..n <=> i \in 1..(n - 1) \/ i = n
      BY <1>2
    <3> QED BY <1>2, <1>3, <1>4, <1>5, <3>1
  <2>2. ASSUME f[0][n].kind = "record" PROVE Marks(g, FALSE) = Marks(f, TRUE) \cup {n}
    <3>1. \A i : i \in Marks(g, FALSE) <=> i \in Marks(f, TRUE) \cup {n}
      BY <2>1, <2>2
    <3> QED BY <3>1
  <2>3. f[0][n].kind # "record" => Marks(g, FALSE) = Marks(f, TRUE)
    BY <2>1
  <2>4. ASSUME NEW i \in Marks(f, TRUE) PROVE i < n /\ g[0][i] = f[0][i]
    <3>1. i \in 1..(n - 1)
      BY <1>3
    <3> QED BY <1>2, <1>5, <3>1
  <2> QED BY <1>2, <1>5, <2>2, <2>3, <2>4
<1>6. CASE g[0] = SubSeq(f[0], 1, Len(f[0]) - 1)
  <2>1. Len(g[0]) = n - 1 /\ \A i \in 1..(n - 1) : g[0][i] = f[0][i]
    BY <1>2, <1>6, LinedCutBack
  <2>2. \A i : i \in Marks(g, FALSE) <=> i \in Marks(f, TRUE)
    BY <1>3, <1>4, <2>1
  <2>3. Marks(g, FALSE) = Marks(f, TRUE)
    BY <2>2
  <2>4. ASSUME NEW i \in Marks(f, TRUE) PROVE i < n /\ g[0][i] = f[0][i]
    <3>1. i \in 1..(n - 1)
      BY <1>3
    <3> QED BY <1>2, <2>1, <3>1
  <2>5. g[0] # f[0]
    <3>1. n - 1 # n
      BY <1>2
    <3> QED BY <1>2, <2>1, <3>1
  <2> QED BY <1>2, <2>3, <2>4, <2>5
<1> QED BY <1>5, <1>6

\* A file that has no record yet is as good as none.
LEMMA MarksEmpty ==
  ASSUME NEW f, f[0] = Missing \/ f[0] = <<>>, NEW c
  PROVE Marks(f, c) = {}
<1>1. Len(<<>>) = 0 /\ 1..0 = {}
  BY EmptySeq
<1> QED BY <1>1 DEF Marks

LEMMA FewerRecords ==
  ASSUME Form, Form', NEW m \in [Here' -> Here],
         \A b \in Here' : file'[b[1]][b[2]] = file[m[b][1]][m[b][2]],
         \A a, b \in Here' : Before(a, b) => Before(m[a], m[b]),
         \A a \in Here, b \in Here' : Before(m[b], a) => \E c \in Here' : m[c] = a
  PROVE /\ Suffix(Recent', Recent)
        /\ (\A a \in Here : \E c \in Here' : m[c] = a) => Len(Recent') = Len(Recent)
<1>1. PICK S : S = Here
  OBVIOUS
<1>2. PICK T : T = Here'
  OBVIOUS
<1>3. PICK f : f = file
  OBVIOUS
<1>4. PICK g : g = file'
  OBVIOUS
<1>5. /\ S \subseteq Spots /\ IsFiniteSet(S) /\ Recent = Text(f, S)
      /\ \A a \in S : f[a[1]][a[2]] \in Entries
  BY <1>1, <1>3, RecordsHere
<1>6. /\ T \subseteq Spots /\ IsFiniteSet(T) /\ Recent' = Text(g, T)
  BY <1>2, <1>4, RecordsNext
<1>7. m \in [T -> S]
  BY <1>1, <1>2
<1>8. \A b \in T : g[b[1]][b[2]] = f[m[b][1]][m[b][2]]
  BY <1>2, <1>3, <1>4
<1>9. \A a, b \in T : Before(a, b) => Before(m[a], m[b])
  BY <1>2
<1>10. \A a \in S, b \in T : Before(m[b], a) => \E c \in T : m[c] = a
  BY <1>1, <1>2
<1>11. /\ Suffix(Text(g, T), Text(f, S))
       /\ (\A a \in S : \E c \in T : m[c] = a) => Len(Text(g, T)) = Len(Text(f, S))
  BY ONLY <1>5, <1>6, <1>7, <1>8, <1>9, <1>10, TextRest
<1> QED BY <1>1, <1>2, <1>5, <1>6, <1>11

\* The log gets one more record.
Adds(e) == e \in Entries /\ Recent' = Append(Recent, e)

\* A step that leaves the files alone, with no line being written.
LEMMA StillRecords ==
  ASSUME Form, Form', pc # "cut", pc' # "cut", UNCHANGED <<file, keep>>
  PROVE Recent' = Recent
<1>1. Marks(file', pc' = "cut") = Marks(file, pc = "cut")
  BY DEF Marks
<1> QED BY <1>1, SameRecords

LEMMA EndTornRecords == Form /\ Form' /\ EndTorn => Recent' = Recent
<1> SUFFICES ASSUME Form, Form', EndTorn PROVE Recent' = Recent
  OBVIOUS
<1>1. pc = "newline" /\ keep' = keep /\ pc' # "cut"
  BY DEF EndTorn, Accept, Refuse
<1>2. CASE open /\ Put(<<Newline>>)
  <2>1. /\ file[0] # Missing /\ Lined(file[0])
    BY <1>1, <1>2, FormFacts DEF Form, Opened
  <2>2. file' = [file EXCEPT ![0] = file[0] \o <<Newline>>] /\ 0 \in Slots /\ keep \in 1..Most
    BY <1>2, FormFacts DEF Put
  <2>3. /\ file'[0] = file[0] \o <<Newline>>
        /\ \A n \in 1..keep : file'[n] = file[n]
    BY <2>2 DEF Form, TypeOK
  <2>4. file'[0] # Missing
    <3>1. Lined(file[0] \o <<Newline>>)
      BY <1>1, <2>1, LinedGrows, EntryKinds, FormFacts DEF Form, Tidy
    <3> QED BY <2>3, <3>1, MissingIsNoLog DEF Lined
  <2>5. Newline \in Pieces /\ Newline.kind # "record"
    BY EntryKinds DEF Newline
  <2>6. /\ Marks(file', FALSE) = Marks(file, FALSE)
        /\ \A i \in Marks(file, FALSE) : file'[0][i] = file[0][i]
    <3>1. PICK n \in Nat : n = Len(file[0])
      BY <2>1, LenProperties DEF Lined
    <3>2. /\ file'[0][n + 1] = Newline /\ \A i \in 1..n : file'[0][i] = file[0][i]
          /\ Len(file'[0]) = n + 1
      BY <2>1, <2>3, <2>5, <3>1, LinedGrows
    <3>3. PICK f : f = file
      OBVIOUS
    <3>4. PICK g : g = file'
      OBVIOUS
    <3>5. /\ f[0] # Missing /\ g[0] # Missing /\ Len(f[0]) = n /\ Len(g[0]) = n + 1
          /\ g[0][n + 1] = Newline /\ \A i \in 1..n : g[0][i] = f[0][i]
      BY <2>1, <2>4, <3>1, <3>2, <3>3, <3>4
    <3>6. /\ g[0][Len(f[0]) + 1].kind # "record" => Marks(g, FALSE) = Marks(f, FALSE)
          /\ \A i \in Marks(f, FALSE) : g[0][i] = f[0][i]
      BY <3>5, MarksGrow
    <3> QED BY <2>5, <3>3, <3>4, <3>5, <3>6
  <2>7. (pc = "cut") = FALSE /\ (pc' = "cut") = FALSE
    BY <1>1
  <2> QED BY <1>1, <2>3, <2>6, <2>7, SameRecords
<1>3. CASE UNCHANGED file
  BY <1>1, <1>3, StillRecords
<1> QED BY <1>2, <1>3 DEF EndTorn

LEMMA UnlinkRecords == Form /\ Form' /\ Unlink => Recent' = Recent
<1> SUFFICES ASSUME Form, Form', Unlink PROVE Recent' = Recent
  OBVIOUS
<1>1. /\ pc = "unlink" /\ keep' = keep /\ pc' # "cut"
      /\ file' = file \/ file' = [file EXCEPT ![slot] = Missing]
  BY DEF Unlink, Skip
<1>2. slot > keep /\ keep \in 1..Most /\ Most \in Nat /\ slot \in 0..(Most + 1)
  BY <1>1, FormFacts DEF Form, Making
<1>3. \A n \in 0..keep : file'[n] = file[n]
  <2>1. \A n \in 0..keep : n # slot /\ n \in Slots
    BY <1>2 DEF Slots
  <2> QED BY <1>1, <2>1 DEF Form, TypeOK
<1>4. file'[0] = file[0] /\ \A n \in 1..keep : file'[n] = file[n]
  BY <1>2, <1>3
<1>5. Marks(file', pc' = "cut") = Marks(file, pc = "cut")
  BY <1>1, <1>4 DEF Marks
<1> QED BY <1>1, <1>4, <1>5, SameRecords

LEMMA ReopenRecords == Form /\ Form' /\ Reopen => Recent' = Recent
<1> SUFFICES ASSUME Form, Form', Reopen PROVE Recent' = Recent
  OBVIOUS
<1>1. /\ pc = "reopen" /\ keep' = keep /\ pc' # "cut"
      /\ \/ file' = file
         \/ file' = [file EXCEPT ![0] = IF @ = Missing THEN <<>> ELSE @]
  BY DEF Reopen, Refuse
<1>2. CASE file[0] = Missing /\ file' # file
  <2>1. file' = [file EXCEPT ![0] = <<>>] /\ 0 \in Slots /\ keep \in 1..Most /\ Most \in Nat
          /\ file \in [Slots -> Seq(Pieces) \cup {Missing}]
    BY <1>1, <1>2, FormFacts
  <2>2. file'[0] = <<>> /\ \A n \in 1..keep : file'[n] = file[n]
    BY <2>1 DEF Slots
  <2>3. Marks(file', pc' = "cut") = {} /\ Marks(file, pc = "cut") = {}
    BY <1>2, <2>2, MarksEmpty
  <2> QED BY <1>1, <2>2, <2>3, SameRecords
<1>3. CASE file[0] # Missing \/ file' = file
  <2>1. file' = file
    BY <1>1, <1>3, FormFacts
  <2> QED BY <1>1, <2>1, StillRecords
<1> QED BY <1>2, <1>3

\* Only a write, a cut and a crash make records; a rename and a start lose some.
LEMMA QuietRecords ==
  Form /\ Form' /\ (Begin \/ EndTorn \/ Fits \/ Full \/ Unlink \/ Reopen) => Recent' = Recent
<1> SUFFICES ASSUME Form, Form', Begin \/ EndTorn \/ Fits \/ Full \/ Unlink \/ Reopen
             PROVE Recent' = Recent
  OBVIOUS
<1>1. CASE Begin \/ Fits \/ Full
  <2>1. pc # "cut" /\ pc' # "cut" /\ UNCHANGED <<file, keep>>
    BY <1>1 DEF Begin, Fits, Full, memory
  <2> QED BY <2>1, StillRecords
<1> QED BY <1>1, EndTornRecords, UnlinkRecords, ReopenRecords

\* What a write appends to an open log.
LEMMA WrittenRecords ==
  ASSUME Form, Form', pc = "write", open, pc' # "write", keep' = keep,
         NEW s \in Short(seq, last) \cup {<<Record(seq, last), Newline>>}, Put(s),
         pc' = "cut" => s \in Short(seq, last)
  PROVE /\ Recent' = Recent \/ (Adds(Record(seq, last)) /\ pc' # "cut")
        /\ s = <<Record(seq, last), Newline>> => Adds(Record(seq, last))
<1>1. /\ file[0] # Missing /\ Lined(file[0]) /\ ~Odd(Len(file[0]))
      /\ seq \in Ids /\ last \in Ids \cup {Genesis}
  BY FormFacts DEF Form, Tidy, Opened, Pending, Ended, Ragged
<1>2. /\ Record(seq, last) \in Entries /\ Record(seq, last) \in Pieces
      /\ Record(seq, last).kind = "record" /\ Record(seq, last) # Newline
      /\ Fragment(seq) \in Pieces /\ Fragment(seq).kind # "record" /\ Fragment(seq) # Newline
  BY <1>1, RecordKinds, EntryKinds, FragmentKinds
<1>3. PICK x \in {Record(seq, last), Fragment(seq)} :
        \/ s = <<x>>
        \/ s = <<x, Newline>> /\ x = Record(seq, last) /\ pc' # "cut"
  <2>1. <<Record(seq, last), Newline>> \notin Short(seq, last)
    <3>1. /\ Len(<<Record(seq, last), Newline>>) = 2 /\ Len(<<Record(seq, last)>>) = 1
          /\ Len(<<Fragment(seq)>>) = 1
      OBVIOUS
    <3> QED BY <3>1 DEF Short
  <2> QED BY <2>1 DEF Short
<1>4. /\ file' = [file EXCEPT ![0] = file[0] \o s] /\ 0 \in Slots
      /\ file \in [Slots -> Seq(Pieces) \cup {Missing}]
      /\ keep \in 1..Most /\ Most \in Nat
  BY FormFacts DEF Put
<1>5. file'[0] = file[0] \o s /\ \A n \in 1..keep : file'[n] = file[n]
  BY <1>4 DEF Slots
<1>6. file'[0] # Missing
  <2>1. x \in Pieces /\ x # Newline
    BY <1>2
  <2>2. Lined(file[0] \o <<x>>) /\ Lined(file[0] \o <<x, Newline>>)
    BY <1>1, <2>1, LinedGrows
  <2> QED BY <1>3, <1>5, <2>2, MissingIsNoLog DEF Lined
<1>7. PICK n \in Nat : n = Len(file[0])
  BY <1>1, LenProperties DEF Lined
<1>8. /\ x.kind = "record" /\ pc' # "cut" =>
           Marks(file', pc' = "cut") = Marks(file, FALSE) \cup {n + 1}
      /\ x.kind # "record" \/ pc' = "cut" => Marks(file', pc' = "cut") = Marks(file, FALSE)
      /\ \A i \in Marks(file, FALSE) : i < n + 1 /\ file'[0][i] = file[0][i]
      /\ file'[0][n + 1] = x
  <2>1. x \in Pieces
    BY <1>2
  <2>2. /\ file'[0][n + 1] = x /\ \A i \in 1..n : file'[0][i] = file[0][i]
        /\ \/ Len(file'[0]) = n + 1
           \/ Len(file'[0]) = n + 2 /\ file'[0][n + 2] = Newline /\ pc' # "cut"
    <3>1. CASE s = <<x>>
      <4>1. file'[0] = file[0] \o <<x>>
        BY <1>5, <3>1
      <4> QED BY <1>1, <1>7, <2>1, <4>1, LinedGrows
    <3>2. CASE s = <<x, Newline>> /\ pc' # "cut"
      <4>1. file'[0] = file[0] \o <<x, Newline>>
        BY <1>5, <3>2
      <4> QED BY <1>1, <1>7, <2>1, <3>2, <4>1, LinedGrows
    <3> QED BY <1>3, <3>1, <3>2
  <2>3. PICK f : f = file
    OBVIOUS
  <2>4. PICK g : g = file'
    OBVIOUS
  <2>5. /\ f[0] # Missing /\ g[0] # Missing /\ Len(f[0]) = n
        /\ g[0][n + 1] = x /\ \A i \in 1..n : g[0][i] = f[0][i]
        /\ Len(g[0]) = n + 1 \/ (Len(g[0]) = n + 2 /\ g[0][n + 2] = Newline)
        /\ pc' = "cut" => Len(g[0]) = n + 1
    BY <1>1, <1>6, <1>7, <2>2, <2>3, <2>4
  <2>6. /\ x.kind = "record" => Marks(g, FALSE) = Marks(f, FALSE) \cup {n + 1}
        /\ x.kind # "record" => Marks(g, FALSE) = Marks(f, FALSE)
        /\ Len(g[0]) = n + 1 => Marks(g, TRUE) = Marks(f, FALSE)
        /\ \A i \in Marks(f, FALSE) : i < n + 1 /\ g[0][i] = f[0][i]
    <3>1. /\ g[0][Len(f[0]) + 1].kind = "record" =>
               Marks(g, FALSE) = Marks(f, FALSE) \cup {Len(f[0]) + 1}
          /\ g[0][Len(f[0]) + 1].kind # "record" => Marks(g, FALSE) = Marks(f, FALSE)
          /\ Len(g[0]) = Len(f[0]) + 1 => Marks(g, TRUE) = Marks(f, FALSE)
          /\ \A i \in Marks(f, FALSE) : i < Len(f[0]) + 1 /\ g[0][i] = f[0][i]
      BY <2>5, MarksGrow
    <3> QED BY <2>5, <3>1
  <2>7. CASE pc' = "cut"
    <3>1. (pc' = "cut") = TRUE
      BY <2>7
    <3> QED BY <2>3, <2>4, <2>5, <2>6, <2>7, <3>1
  <2>8. CASE pc' # "cut"
    <3>1. (pc' = "cut") = FALSE
      BY <2>8
    <3> QED BY <2>3, <2>4, <2>5, <2>6, <2>8, <3>1
  <2> QED BY <2>7, <2>8
<1>9. (pc = "cut") = FALSE
  OBVIOUS
<1>10. CASE x.kind = "record" /\ pc' # "cut"
  <2>1. Recent' = Append(Recent, file'[0][n + 1]) /\ file'[0][n + 1] \in Entries
    <3>1. Marks(file', pc' = "cut") = Marks(file, pc = "cut") \cup {n + 1}
      BY <1>8, <1>9, <1>10
    <3>2. \A i \in Marks(file, pc = "cut") : i < n + 1 /\ file'[0][i] = file[0][i]
      BY <1>8, <1>9
    <3>3. n + 1 \in Nat
      OBVIOUS
    <3> QED BY <1>5, <3>1, <3>2, <3>3, MoreRecords
  <2>2. x = Record(seq, last)
    BY <1>2, <1>10
  <2> QED BY <1>8, <1>10, <2>1, <2>2 DEF Adds
<1>11. CASE x.kind # "record" \/ pc' = "cut"
  <2>1. Marks(file', pc' = "cut") = Marks(file, pc = "cut")
    BY <1>8, <1>9, <1>11
  <2>2. \A i \in Marks(file, pc = "cut") : file'[0][i] = file[0][i]
    BY <1>8, <1>9
  <2>3. Recent' = Recent
    BY <1>5, <2>1, <2>2, SameRecords
  <2>4. s # <<Record(seq, last), Newline>>
    <3>1. Len(<<Record(seq, last), Newline>>) = 2 /\ Len(<<x>>) = 1
      OBVIOUS
    <3>2. s # <<x, Newline>>
      BY <1>2, <1>3, <1>11, <3>1
    <3> QED BY <1>3, <3>1, <3>2
  <2> QED BY <2>3, <2>4
<1> QED BY <1>10, <1>11

LEMMA WriteRecords ==
  Form /\ Form' /\ Write => \/ Recent' = Recent /\ last' = last
                            \/ Adds(Record(seq, last)) /\ last' = seq /\ pc' = "idle"
<1> SUFFICES ASSUME Form, Form', Write
             PROVE \/ Recent' = Recent /\ last' = last
                   \/ Adds(Record(seq, last)) /\ last' = seq /\ pc' = "idle"
  OBVIOUS
<1>1. pc = "write" /\ keep' = keep
  BY DEF Write
<1>2. CASE open /\ Put(<<Record(seq, last), Newline>>) /\ last' = seq /\ Accept("idle")
  <2>1. Adds(Record(seq, last))
    BY <1>1, <1>2, WrittenRecords DEF Accept
  <2> QED BY <1>2, <2>1 DEF Accept
<1>3. ASSUME open, NEW s \in Short(seq, last), Put(s), last' = last, Accept("cut")
      PROVE Recent' = Recent
  BY <1>1, <1>3, WrittenRecords DEF Accept
<1>4. CASE Refuse /\ UNCHANGED <<file, last>>
  BY <1>1, <1>4, StillRecords DEF Refuse
<1> QED BY <1>2, <1>3, <1>4 DEF Write

\* The last piece of a write cut short: off, or left to count.
LEMMA SettledRecords ==
  ASSUME Form, Form', pc = "cut", pc' # "cut", keep' = keep,
         \/ file' = file
         \/ file' = [file EXCEPT ![0] = SubSeq(@, 1, Len(@) - 1)]
  PROVE Recent' = Recent \/ (Adds(file[0][Len(file[0])]) /\ file' = file)
<1>1. file[0] # Missing /\ Lined(file[0]) /\ Odd(Len(file[0]))
  BY FormFacts DEF Form, Tidy, Ragged
<1>2. /\ 0 \in Slots /\ file \in [Slots -> Seq(Pieces) \cup {Missing}]
      /\ keep \in 1..Most /\ Most \in Nat
  BY FormFacts
<1>3. /\ file'[0] = file[0] \/ file'[0] = SubSeq(file[0], 1, Len(file[0]) - 1)
      /\ \A n \in 1..keep : file'[n] = file[n]
      /\ file'[0] = file[0] => file' = file
  BY <1>2 DEF Slots
<1>4. file'[0] # Missing
  <2>1. Lined(SubSeq(file[0], 1, Len(file[0]) - 1))
    BY <1>1, LinedCutBack
  <2> QED BY <1>1, <1>3, <2>1, MissingIsNoLog DEF Lined
<1>5. /\ file[0][Len(file[0])].kind = "record" /\ file'[0] = file[0] =>
           Marks(file', FALSE) = Marks(file, TRUE) \cup {Len(file[0])}
      /\ file[0][Len(file[0])].kind # "record" \/ file'[0] # file[0] =>
           Marks(file', FALSE) = Marks(file, TRUE)
      /\ \A i \in Marks(file, TRUE) : i < Len(file[0]) /\ file'[0][i] = file[0][i]
      /\ Len(file[0]) \in Nat
  BY <1>1, <1>3, <1>4, MarksSettle
<1>6. (pc = "cut") = TRUE /\ (pc' = "cut") = FALSE
  OBVIOUS
<1>7. CASE file[0][Len(file[0])].kind = "record" /\ file'[0] = file[0]
  <2>1. PICK n \in Nat : n = Len(file[0])
    BY <1>5
  <2>2. Marks(file', pc' = "cut") = Marks(file, pc = "cut") \cup {n}
    BY <1>5, <1>6, <1>7, <2>1
  <2>3. \A i \in Marks(file, pc = "cut") : i < n /\ file'[0][i] = file[0][i]
    BY <1>5, <1>6, <2>1
  <2>4. Recent' = Append(Recent, file'[0][n]) /\ file'[0][n] \in Entries
    BY <1>3, <2>2, <2>3, MoreRecords
  <2> QED BY <1>3, <1>7, <2>1, <2>4 DEF Adds
<1>8. CASE file[0][Len(file[0])].kind # "record" \/ file'[0] # file[0]
  <2>1. Marks(file', pc' = "cut") = Marks(file, pc = "cut")
    BY <1>5, <1>6, <1>8
  <2>2. \A i \in Marks(file, pc = "cut") : file'[0][i] = file[0][i]
    BY <1>5, <1>6
  <2> QED BY <1>3, <2>1, <2>2, SameRecords
<1> QED BY <1>7, <1>8

LEMMA CutBackRecords ==
  Form /\ Form' /\ CutBack =>
    Recent' = Recent \/ (Adds(file[0][Len(file[0])]) /\ uncut')
<1> SUFFICES ASSUME Form, Form', CutBack
             PROVE Recent' = Recent \/ (Adds(file[0][Len(file[0])]) /\ uncut')
  OBVIOUS
<1>1. pc = "cut" /\ pc' # "cut" /\ keep' = keep
  BY DEF CutBack, Refuse
<1>2. CASE file' = [file EXCEPT ![0] = SubSeq(@, 1, Len(@) - 1)]
  <2>1. file[0] # Missing /\ Lined(file[0]) /\ Odd(Len(file[0])) /\ 0 \in Slots
    BY <1>1, FormFacts DEF Form, Tidy, Ragged
  <2>2. file'[0] # file[0]
    <3>1. Len(SubSeq(file[0], 1, Len(file[0]) - 1)) = Len(file[0]) - 1 /\ Len(file[0]) \in Nat
      BY <2>1, LinedCutBack
    <3>2. file'[0] = SubSeq(file[0], 1, Len(file[0]) - 1)
      BY <1>2, <2>1, FormFacts
    <3> QED BY <3>1, <3>2
  <2> QED BY <1>1, <1>2, <2>2, SettledRecords
<1>3. CASE uncut' = TRUE /\ UNCHANGED file
  BY <1>1, <1>3, SettledRecords
<1> QED BY <1>2, <1>3 DEF CutBack

LEMMA CrashRecords ==
  Form /\ Form' /\ Crash =>
    \/ Recent' = Recent
    \/ pc = "cut" /\ Adds(file[0][Len(file[0])])
    \/ pc = "write" /\ Adds(Record(seq, last))
<1> SUFFICES ASSUME Form, Form', Crash
             PROVE \/ Recent' = Recent
                   \/ pc = "cut" /\ Adds(file[0][Len(file[0])])
                   \/ pc = "write" /\ Adds(Record(seq, last))
  OBVIOUS
<1>1. pc' = "down" /\ keep' = keep
  BY DEF Crash, memory
<1>2. CASE UNCHANGED file
  <2>1. CASE pc = "cut"
    BY <1>1, <1>2, <2>1, SettledRecords
  <2>2. CASE pc # "cut"
    BY <1>1, <1>2, <2>2, StillRecords
  <2> QED BY <2>1, <2>2
<1>3. ASSUME pc = "write", open,
             NEW s \in Short(seq, last) \cup {<<Record(seq, last), Newline>>}, Put(s)
      PROVE Recent' = Recent \/ Adds(Record(seq, last))
  BY <1>1, <1>3, WrittenRecords
<1> QED BY <1>2, <1>3 DEF Crash

\* Where the records are when no line is being written.
Holds(f, n, i) == f[n] # Missing /\ i \in 1..Len(f[n]) /\ f[n][i].kind = "record"

LEMMA PlainPlaces ==
  ASSUME NEW f, NEW k \in Nat, f[0] = Missing \/ Lined(f[0])
  PROVE \A a \in Spots : a \in Places(f, k, FALSE) <=> a[1] \in 0..k /\ Holds(f, a[1], a[2])
<1>1. f[0] # Missing => Len(f[0]) \in Nat
  BY LenProperties DEF Lined
<1>2. ASSUME NEW a \in Spots
      PROVE a \in Places(f, k, FALSE) <=> a[1] \in 0..k /\ Holds(f, a[1], a[2])
  <2>1. PICK n \in Nat, i \in Nat : a = <<n, i>>
    BY DEF Spots
  <2>2. CASE n = 0
    <3>1. a \notin Older(f, k) /\ 0 \in 0..k
      BY <2>1, <2>2 DEF Older
    <3>2. a \in {0} \X Marks(f, FALSE) <=> i \in Marks(f, FALSE)
      BY <2>1, <2>2
    <3>3. i \in Marks(f, FALSE) <=> Holds(f, 0, i)
      BY DEF Marks, Holds
    <3> QED BY <2>1, <2>2, <3>1, <3>2, <3>3 DEF Places
  <2>3. CASE n # 0
    <3>1. a \notin {0} \X Marks(f, FALSE)
      BY <2>1, <2>3
    <3>2. n \in 0..k <=> n \in 1..k
      BY <2>3
    <3>3. a \in Older(f, k) <=> n \in 1..k /\ Holds(f, n, i)
      BY <2>1 DEF Older, Holds
    <3> QED BY <2>1, <3>1, <3>2, <3>3 DEF Places
  <2> QED BY <2>2, <2>3
<1> QED BY <1>2

LEMMA PlainHere ==
  ASSUME Form
  PROVE pc # "cut" => \A a \in Spots :
          /\ a \in Here <=> a[1] \in 0..keep /\ Holds(file, a[1], a[2])
          /\ a \in All <=> a[1] \in 0..Most /\ Holds(file, a[1], a[2])
<1>1. keep \in Nat /\ Most \in Nat /\ (file[0] = Missing \/ Lined(file[0]))
  BY FormFacts
<1>2. pc # "cut" => (pc = "cut") = FALSE
  OBVIOUS
<1> QED BY <1>1, <1>2, PlainPlaces DEF Here, All

LEMMA PlainNext ==
  ASSUME Form'
  PROVE pc' # "cut" => \A a \in Spots :
          /\ a \in Here' <=> a[1] \in 0..keep' /\ Holds(file', a[1], a[2])
          /\ a \in All' <=> a[1] \in 0..Most /\ Holds(file', a[1], a[2])
<1>1. keep' \in Nat /\ Most \in Nat /\ (file'[0] = Missing \/ Lined(file'[0]))
  BY Reach DEF Form, TypeOK, Shapes, Slots
<1>2. pc' # "cut" => (pc' = "cut") = FALSE
  OBVIOUS
<1> QED BY <1>1, <1>2, PlainPlaces DEF Here, All

\* A rename gives a file the next number; the file that had it goes.
LEMMA RenameRecords ==
  Form /\ Form' /\ Rename =>
    /\ Suffix(Recent', Recent)
    /\ \/ Recent' = Recent /\ split' = split
       \/ slot = keep /\ file[slot] # Missing /\ Drop(slot)
<1> SUFFICES ASSUME Form, Form', Rename
             PROVE /\ Suffix(Recent', Recent)
                   /\ \/ Recent' = Recent /\ split' = split
                      \/ slot = keep /\ file[slot] # Missing /\ Drop(slot)
  OBVIOUS
<1>1. pc = "rename" /\ keep' = keep /\ pc' # "cut"
  BY DEF Rename, Skip
<1>2. /\ slot \in 1..keep /\ keep \in 1..Most /\ Most \in Nat
      /\ slot \in Slots /\ slot - 1 \in Slots
      /\ slot < keep => file[slot] = Missing
  <2>1. /\ slot \in 1..keep /\ keep \in 1..Most /\ Most \in Nat
        /\ slot < keep => file[slot] = Missing
    BY <1>1, FormFacts DEF Form, TypeOK, Making
  <2> QED BY <2>1 DEF Slots
<1>3. CASE UNCHANGED <<file, split>>
  <2>1. Recent' = Recent /\ Recent \in Seq(Entries)
    BY <1>1, <1>3, StillRecords, RecordsHere
  <2> QED BY <1>3, <2>1, SuffixSelf
<1>4. CASE /\ file[slot - 1] # Missing
           /\ file' = [file EXCEPT ![slot] = file[slot - 1], ![slot - 1] = Missing]
           /\ Drop(slot)
  <2> DEFINE m == [b \in Here' |-> IF b[1] = slot THEN <<slot - 1, b[2]>> ELSE b]
  <2>1. /\ file'[slot] = file[slot - 1] /\ file'[slot - 1] = Missing
        /\ \A n \in 0..keep : n # slot /\ n # slot - 1 => file'[n] = file[n]
    BY <1>2, <1>4 DEF Form, TypeOK, Slots
  <2>2. /\ \A a \in Spots : a \in Here <=> a[1] \in 0..keep /\ Holds(file, a[1], a[2])
        /\ \A a \in Spots : a \in Here' <=> a[1] \in 0..keep /\ Holds(file', a[1], a[2])
        /\ Here \subseteq Spots /\ Here' \subseteq Spots
    BY <1>1, PlainHere, PlainNext, RecordsHere, RecordsNext
  <2>3. ASSUME NEW b \in Here'
        PROVE /\ b[1] \in 0..keep /\ b[2] \in Nat /\ b[1] # slot - 1
              /\ b[1] = slot => m[b] = <<slot - 1, b[2]>>
              /\ b[1] # slot => m[b] = b
              /\ m[b] \in Here
              /\ file'[b[1]][b[2]] = file[m[b][1]][m[b][2]]
    <3>1. /\ b \in Spots /\ b[1] \in 0..keep /\ Holds(file', b[1], b[2])
          /\ b[1] \in Nat /\ b[2] \in Nat
      BY <2>2 DEF Spots
    <3>2. b[1] # slot - 1
      BY <2>1, <3>1 DEF Holds
    <3>3. CASE b[1] = slot
      <4>1. m[b] = <<slot - 1, b[2]>> /\ slot - 1 \in 0..keep /\ slot - 1 \in Nat
        BY <1>2, <3>3
      <4>2. Holds(file, slot - 1, b[2])
        BY <2>1, <3>1, <3>3 DEF Holds
      <4>3. <<slot - 1, b[2]>> \in Spots
        BY <3>1, <4>1 DEF Spots
      <4> HIDE DEF m
      <4> QED BY <2>1, <2>2, <3>1, <3>2, <3>3, <4>1, <4>2, <4>3
    <3>4. CASE b[1] # slot
      <4>1. m[b] = b /\ file'[b[1]] = file[b[1]]
        BY <2>1, <3>1, <3>2, <3>4
      <4>2. Holds(file, b[1], b[2])
        BY <3>1, <4>1 DEF Holds
      <4> HIDE DEF m
      <4> QED BY <2>2, <3>1, <3>2, <3>4, <4>1, <4>2
    <3> QED BY <3>3, <3>4
  <2>4. m \in [Here' -> Here]
    BY <2>3
  <2> HIDE DEF m
  <2>5. ASSUME NEW a \in Here', NEW b \in Here', Before(a, b) PROVE Before(m[a], m[b])
    BY <1>2, <2>3, <2>5 DEF Before
  <2>6. ASSUME NEW a \in Here, a[1] # slot PROVE \E c \in Here' : m[c] = a
    <3>1. PICK n \in Nat, i \in Nat : a = <<n, i>>
      BY <2>2 DEF Spots
    <3>2. n \in 0..keep /\ Holds(file, n, i) /\ a[1] = n /\ a[2] = i
      BY <2>2, <3>1
    <3>3. n # slot
      BY <2>6, <3>2
    <3>4. CASE n = slot - 1
      <4>1. Holds(file', slot, i) /\ slot \in 0..keep /\ <<slot, i>> \in Spots
        BY <1>2, <2>1, <3>2, <3>4 DEF Holds, Spots
      <4>2. <<slot, i>> \in Here'
        BY <2>2, <4>1
      <4>3. m[<<slot, i>>] = a
        BY <2>3, <3>1, <3>4, <4>2
      <4> QED BY <4>2, <4>3
    <3>5. CASE n # slot - 1
      <4>1. Holds(file', n, i) /\ a \in Spots
        BY <2>1, <2>2, <3>2, <3>3, <3>5 DEF Holds
      <4>2. a \in Here'
        BY <2>2, <3>2, <4>1
      <4>3. m[a] = a
        BY <2>3, <3>2, <3>3, <4>2
      <4> QED BY <4>2, <4>3
    <3> QED BY <3>4, <3>5
  <2>7. ASSUME NEW a \in Here, NEW b \in Here', Before(m[b], a) PROVE a[1] # slot
    <3>1. a[1] \in Nat /\ Holds(file, a[1], a[2])
      BY <2>2 DEF Spots
    <3>2. CASE slot < keep
      BY <1>2, <3>1, <3>2 DEF Holds
    <3>3. CASE slot = keep
      <4>1. m[b][1] < slot /\ m[b][1] \in Nat
        BY <1>2, <2>3, <3>3
      <4>2. m[b][1] > a[1] \/ m[b][1] = a[1]
        BY <2>7 DEF Before
      <4> QED BY <1>2, <3>1, <4>1, <4>2
    <3> QED BY <1>2, <3>2, <3>3
  <2>8. \A b \in Here' : file'[b[1]][b[2]] = file[m[b][1]][m[b][2]]
    BY <2>3
  <2>9. \A a \in Here, b \in Here' : Before(m[b], a) => \E c \in Here' : m[c] = a
    BY <2>6, <2>7
  <2>10. /\ Suffix(Recent', Recent)
         /\ (\A a \in Here : \E c \in Here' : m[c] = a) => Len(Recent') = Len(Recent)
    BY <2>4, <2>5, <2>8, <2>9, FewerRecords
  <2>11. CASE file[slot] = Missing
    <3>1. \A a \in Here : a[1] # slot
      BY <2>2, <2>11 DEF Holds
    <3>2. Len(Recent') = Len(Recent)
      BY <2>6, <2>10, <3>1
    <3>3. Recent' = Recent
      BY <2>10, <3>2, SuffixWhole, RecordsHere, RecordsNext
    <3>4. split' = split
      BY <1>4, <2>11 DEF Drop
    <3> QED BY <2>10, <3>3, <3>4
  <2>12. CASE file[slot] # Missing
    <3>1. slot = keep
      BY <1>2, <2>12
    <3> QED BY <1>4, <2>10, <2>12, <3>1
  <2> QED BY <2>11, <2>12
<1>5. \/ UNCHANGED <<file, split>>
      \/ /\ file[slot - 1] # Missing
         /\ file' = [file EXCEPT ![slot] = file[slot - 1], ![slot - 1] = Missing]
         /\ Drop(slot)
  BY DEF Rename, Skip
<1> QED BY <1>3, <1>4, <1>5

\* What a start cuts off is no record, and its keep leaves out the oldest files.
LEMMA StartRecords == Form /\ Form' /\ Start => Suffix(Recent', Recent) /\ Records' = Records
<1> SUFFICES ASSUME Form, Form', Start PROVE Suffix(Recent', Recent) /\ Records' = Records
  OBVIOUS
<1>1. pc = "down" /\ pc' = "idle" /\ keep' <= keep /\ keep' \in Keeps
  BY DEF Start
<1>2. PICK cut \in BOOLEAN : file' = [file EXCEPT ![0] = Left(cut)]
  BY DEF Start, Left
<1>3. /\ 0 \in Slots /\ file \in [Slots -> Seq(Pieces) \cup {Missing}]
      /\ keep \in 1..Most /\ keep' \in 1..Most /\ Most \in Nat
  BY <1>1, FormFacts, Reach
<1>4. /\ file'[0] = Left(cut) /\ Left(cut) # Missing
      /\ \A n \in 1..Most : file'[n] = file[n]
  BY <1>2, <1>3, StartLive DEF Slots
<1>5. \A i \in Nat : /\ Holds(file', 0, i) <=> Holds(file, 0, i)
                     /\ Holds(file', 0, i) => file'[0][i] = file[0][i]
  <2>1. CASE Left(cut) = file[0]
    BY <1>4, <2>1 DEF Holds
  <2>2. CASE Left(cut) = Live /\ file[0] = Missing
    <3>1. Len(<<>>) = 0 /\ file'[0] = <<>>
      BY <1>4, <2>2, EmptySeq DEF Live
    <3> QED BY <2>2, <3>1 DEF Holds
  <2>3. CASE Left(cut) # Live
    <3>1. Torn(Live) /\ Left(cut) = SubSeq(Live, 1, Len(Live) - 1) /\ Lined(Live)
      BY <2>3, StartLive
    <3>2. Odd(Len(Live)) /\ Live[Len(Live)].kind # "record"
      BY <3>1, LinedCut
    <3>3. PICK n \in Nat \ {0} : n = Len(Live)
      BY <3>1, <3>2, LinedCutBack
    <3>4. Len(file'[0]) = n - 1 /\ \A i \in 1..(n - 1) : file'[0][i] = Live[i]
      BY <1>4, <3>1, <3>2, <3>3, LinedCutBack
    <3>5. file[0] # Missing /\ file[0] = Live
      BY <3>2, LinedEmpty DEF Live, Ragged
    <3>6. \A i \in Nat : i \in 1..n <=> i \in 1..(n - 1) \/ i = n
      BY <3>3
    <3> QED BY <1>4, <3>2, <3>3, <3>4, <3>5, <3>6 DEF Holds
  <2> QED BY <2>1, <2>2, <2>3 DEF Live
<1> DEFINE m == [b \in Here' |-> b]
<1>6. /\ \A a \in Spots : a \in Here <=> a[1] \in 0..keep /\ Holds(file, a[1], a[2])
      /\ \A a \in Spots : a \in Here' <=> a[1] \in 0..keep' /\ Holds(file', a[1], a[2])
      /\ Here \subseteq Spots /\ Here' \subseteq Spots
  BY <1>1, PlainHere, PlainNext, RecordsHere, RecordsNext
<1>7. ASSUME NEW n \in 0..Most, NEW i \in Nat
      PROVE /\ Holds(file', n, i) <=> Holds(file, n, i)
            /\ Holds(file', n, i) => file'[n][i] = file[n][i]
  <2>1. CASE n = 0
    BY <1>5, <2>1
  <2>2. CASE n # 0
    <3>1. n \in 1..Most
      BY <1>3, <2>2
    <3> QED BY <1>4, <3>1 DEF Holds
  <2> QED BY <2>1, <2>2
<1>8. ASSUME NEW b \in Here'
      PROVE m[b] = b /\ b \in Here /\ file'[b[1]][b[2]] = file[b[1]][b[2]]
  <2>1. /\ b \in Spots /\ b[1] \in 0..keep' /\ Holds(file', b[1], b[2]) /\ b[2] \in Nat
    BY <1>6 DEF Spots
  <2>2. b[1] \in 0..keep /\ b[1] \in 0..Most
    BY <1>1, <1>3, <2>1
  <2> QED BY <1>6, <1>7, <2>1, <2>2
<1>9. m \in [Here' -> Here]
  BY <1>8
<1> HIDE DEF m
<1>10. \A b \in Here' : file'[b[1]][b[2]] = file[m[b][1]][m[b][2]]
  BY <1>8
<1>11. \A a, b \in Here' : Before(a, b) => Before(m[a], m[b])
  BY <1>8
<1>12. ASSUME NEW a \in Here, NEW b \in Here', Before(m[b], a) PROVE \E c \in Here' : m[c] = a
  <2>1. /\ a \in Spots /\ a[1] \in 0..keep /\ Holds(file, a[1], a[2])
        /\ a[1] \in Nat /\ a[2] \in Nat
    BY <1>6 DEF Spots
  <2>2. b[1] \in 0..keep' /\ Before(b, a)
    BY <1>6, <1>8, <1>12
  <2>3. a[1] \in 0..keep' /\ a[1] \in 0..Most
    BY <1>3, <2>1, <2>2 DEF Before
  <2>4. a \in Here'
    BY <1>6, <1>7, <2>1, <2>3
  <2> QED BY <1>8, <2>4
<1>13. Suffix(Recent', Recent)
  BY <1>9, <1>10, <1>11, <1>12, FewerRecords
<1>14. All' = All
  <2>1. /\ \A a \in Spots : a \in All <=> a[1] \in 0..Most /\ Holds(file, a[1], a[2])
        /\ \A a \in Spots : a \in All' <=> a[1] \in 0..Most /\ Holds(file', a[1], a[2])
    BY <1>1, PlainHere, PlainNext
  <2>2. \A a \in Spots : a[2] \in Nat
    BY DEF Spots
  <2>3. \A a \in Spots : a \in All <=> a \in All'
    BY <1>7, <2>1, <2>2
  <2> QED BY <2>3, RecordsHere, RecordsNext
<1>15. ASSUME NEW a \in All PROVE file'[a[1]][a[2]] = file[a[1]][a[2]]
  <2>1. a \in Spots /\ a[1] \in 0..Most /\ Holds(file, a[1], a[2]) /\ a[2] \in Nat
    BY <1>1, PlainHere, RecordsHere DEF Spots
  <2> QED BY <1>7, <2>1
<1>16. Records' = Records
  <2>1. /\ All \subseteq Spots /\ IsFiniteSet(All)
        /\ Records = Text(file, All) /\ Records' = Text(file', All)
    BY <1>14, RecordsHere, RecordsNext
  <2>2. Text(file', All) = Text(file, All)
    BY ONLY <1>15, <2>1, TextSame
  <2> QED BY <2>1, <2>2
<1> QED BY <1>13, <1>16

\* The rotated files above keep change in two ways only: another keep makes
\* them more, an unlink takes the one with the lowest number.
LEMMA SurplusStays ==
  ASSUME Form, Form', keep' = keep, \A n \in Slots : n > keep => file'[n] = file[n]
  PROVE Surplus' = Surplus
<1>1. \A n \in 1..Most : n \notin 1..keep => file'[n] = file[n]
  BY FormFacts DEF Slots
<1>2. \A a \in Spots : a \in Rest <=> /\ a[1] \in 1..Most /\ a[1] \notin 1..keep
                                      /\ Holds(file, a[1], a[2])
  BY FormFacts DEF Rest, Beyond, Older, Holds
<1>3. \A a \in Spots : a \in Rest' <=> /\ a[1] \in 1..Most /\ a[1] \notin 1..keep
                                       /\ Holds(file', a[1], a[2])
  BY FormFacts DEF Rest, Beyond, Older, Holds
<1>4. \A a \in Spots : a \in Rest <=> a \in Rest'
  BY <1>1, <1>2, <1>3 DEF Holds
<1>5. /\ Rest \subseteq Spots /\ IsFiniteSet(Rest) /\ Rest' \subseteq Spots
      /\ Surplus = Text(file, Rest) /\ Surplus' = Text(file', Rest')
  BY RecordsHere, RecordsNext
<1>6. Rest' = Rest
  BY <1>4, <1>5
<1>7. \A a \in Rest : file'[a[1]][a[2]] = file[a[1]][a[2]]
  BY <1>1, <1>2, <1>5
<1>8. Text(file', Rest) = Text(file, Rest)
  BY ONLY <1>5, <1>7, TextSame
<1> QED BY <1>5, <1>6, <1>8

LEMMA SurplusStep ==
  Form /\ Form' /\ [Next]_vars /\ ~Unlink /\ ~Start => Surplus' = Surplus
<1> SUFFICES ASSUME Form, Form', [Next]_vars, ~Unlink, ~Start PROVE Surplus' = Surplus
  OBVIOUS
<1>1. /\ file \in [Slots -> Seq(Pieces) \cup {Missing}] /\ 0 \in Slots
      /\ keep \in 1..Most /\ Most \in Nat /\ \A n \in Slots : n \in Nat
  BY FormFacts
<1>2. keep' = keep
  BY DEF Next, vars, memory, Begin, EndTorn, Fits, Full, Rename, Reopen, Write, CutBack, Crash
<1>3. CASE Rename
  <2>1. slot \in 1..keep
    BY <1>3 DEF Rename, Form, TypeOK
  <2>2. file' = file \/ file' = [file EXCEPT ![slot] = file[slot - 1], ![slot - 1] = Missing]
    BY <1>3 DEF Rename, Skip
  <2>3. \A n \in Slots : n > keep => n # slot /\ n # slot - 1
    BY <1>1, <2>1
  <2> QED BY <1>1, <1>2, <2>2, <2>3, SurplusStays
<1>4. CASE ~Rename
  <2>1. file' = file \/ \E g : file' = [file EXCEPT ![0] = g]
    BY <1>4 DEF Next, vars, Begin, EndTorn, Fits, Full, Reopen, Write, CutBack, Crash, Put
  <2>2. \A n \in Slots : n > keep => n # 0
    BY <1>1
  <2> QED BY <1>1, <1>2, <2>1, <2>2, SurplusStays
<1> QED BY <1>3, <1>4

\* r is the beginning of s.
Prefix(r, s) == \E t \in Seq(Entries) : s = r \o t

LEMMA UnlinkSurplus ==
  Form /\ Form' /\ Unlink =>
    /\ Prefix(Surplus', Surplus)
    /\ \/ Surplus' = Surplus /\ split' = split
       \/ Drop(slot) /\ file' = [file EXCEPT ![slot] = Missing] /\ file[slot] # Missing
<1> SUFFICES ASSUME Form, Form', Unlink
             PROVE /\ Prefix(Surplus', Surplus)
                   /\ \/ Surplus' = Surplus /\ split' = split
                      \/ /\ Drop(slot) /\ file' = [file EXCEPT ![slot] = Missing]
                         /\ file[slot] # Missing
  OBVIOUS
<1>1. /\ pc = "unlink" /\ keep' = keep /\ slot > keep /\ keep \in 1..Most /\ Most \in Nat
      /\ \A n \in Slots : n > keep /\ n < slot => file[n] = Missing
      /\ file \in [Slots -> Seq(Pieces) \cup {Missing}]
      /\ \A n \in Slots : n \in Nat
  BY FormFacts DEF Unlink, Form, Making
<1>2. /\ Rest \subseteq Spots /\ IsFiniteSet(Rest) /\ Surplus = Text(file, Rest)
      /\ \A a \in Rest : file[a[1]][a[2]] \in Entries
      /\ Rest' \subseteq Spots /\ IsFiniteSet(Rest') /\ Surplus' = Text(file', Rest')
      /\ Surplus \in Seq(Entries) /\ Surplus' \in Seq(Entries)
  BY RecordsHere, RecordsNext
<1>3. CASE UNCHANGED <<file, split>>
  <2>1. Surplus' = Surplus
    BY <1>1, <1>3, SurplusStays
  <2>2. Surplus = Surplus \o <<>> /\ <<>> \in Seq(Entries)
    BY <1>2, ConcatEmptySeq, EmptySeq
  <2> QED BY <1>3, <2>1, <2>2 DEF Prefix
<1>4. CASE /\ slot \in Slots /\ file[slot] # Missing /\ Drop(slot)
           /\ file' = [file EXCEPT ![slot] = Missing]
  <2>1. file'[slot] = Missing /\ \A n \in Slots : n # slot => file'[n] = file[n]
    BY <1>1, <1>4
  <2>2. \A a \in Spots : a \in Rest <=> /\ a[1] \in 1..Most /\ a[1] \notin 1..keep
                                        /\ Holds(file, a[1], a[2])
    BY FormFacts DEF Rest, Beyond, Older, Holds
  <2>3. \A a \in Spots : a \in Rest' <=> /\ a[1] \in 1..Most /\ a[1] \notin 1..keep
                                         /\ Holds(file', a[1], a[2])
    BY <1>1, FormFacts DEF Rest, Beyond, Older, Holds
  <2> DEFINE X == {a \in Rest : a[1] = slot}
  <2>4. \A n \in 1..Most : n \in Slots
    BY <1>1 DEF Slots
  <2>5. ASSUME NEW a \in Rest' PROVE a \in Rest /\ a[1] > slot /\ file'[a[1]][a[2]] = file[a[1]][a[2]]
    <3>1. /\ a \in Spots /\ a[1] \in 1..Most /\ a[1] \notin 1..keep
          /\ Holds(file', a[1], a[2]) /\ a[1] \in Slots /\ a[1] \in Nat
      BY <1>1, <1>2, <2>3, <2>4
    <3>2. a[1] # slot /\ file'[a[1]] = file[a[1]] /\ file[a[1]] # Missing
      BY <2>1, <3>1 DEF Holds
    <3>3. ~(a[1] > keep /\ a[1] < slot)
      BY <1>1, <3>1, <3>2
    <3>4. a[1] > keep
      BY <1>1, <3>1
    <3>5. slot \in Nat
      BY <1>1, <1>4
    <3>6. a[1] > slot
      BY <3>1, <3>2, <3>3, <3>4, <3>5
    <3> QED BY <2>2, <3>1, <3>2, <3>6 DEF Holds
  <2>6. ASSUME NEW a \in Rest, a[1] # slot PROVE a \in Rest'
    <3>1. /\ a \in Spots /\ a[1] \in 1..Most /\ a[1] \notin 1..keep
          /\ Holds(file, a[1], a[2]) /\ a[1] \in Slots
      BY <1>2, <2>2, <2>4
    <3>2. file'[a[1]] = file[a[1]]
      BY <2>1, <2>6, <3>1
    <3> QED BY <2>3, <3>1, <3>2 DEF Holds
  <2>7. Rest = Rest' \cup X
    <3>1. \A a \in Rest' : a \in Rest
      BY <2>5
    <3> QED BY <2>6, <3>1
  <2>8. \A a \in Rest', b \in X : Before(a, b)
    BY <2>5 DEF Before
  <2>9. X \subseteq Spots /\ IsFiniteSet(X)
    BY <1>2, FS_Subset
  <2>10. PICK S : S = Rest'
    OBVIOUS
  <2>11. PICK T : T = X
    OBVIOUS
  <2>12. PICK f : f = file
    OBVIOUS
  <2>13. PICK g : g = file'
    OBVIOUS
  <2> HIDE DEF X
  <2>14. /\ S \subseteq Spots /\ IsFiniteSet(S) /\ T \subseteq Spots /\ IsFiniteSet(T)
         /\ \A a \in S \cup T : f[a[1]][a[2]] \in Entries
         /\ \A a \in S, b \in T : Before(a, b)
    BY <1>2, <2>7, <2>8, <2>9, <2>10, <2>11, <2>12
  <2>15. Text(f, S \cup T) = Text(f, S) \o Text(f, T)
    BY ONLY <2>14, TextJoins
  <2>16. \A a \in S : g[a[1]][a[2]] = f[a[1]][a[2]]
    BY <2>5, <2>10, <2>12, <2>13
  <2>17. Text(g, S) = Text(f, S)
    BY ONLY <2>14, <2>16, TextSame
  <2>18. \A a \in T : f[a[1]][a[2]] \in Entries
    BY ONLY <2>14
  <2>19. Text(f, T) \in Seq(Entries)
    BY ONLY <2>14, <2>18, TextType
  <2>20. Surplus = Text(f, S \cup T) /\ Surplus' = Text(g, S)
    BY <1>2, <2>7, <2>10, <2>11, <2>12, <2>13
  <2>21. Prefix(Surplus', Surplus)
    BY <2>15, <2>17, <2>19, <2>20 DEF Prefix
  <2> QED BY <1>4, <2>21
<1>5. \/ UNCHANGED <<file, split>>
      \/ /\ slot \in Slots /\ file[slot] # Missing /\ Drop(slot)
         /\ file' = [file EXCEPT ![slot] = Missing]
  BY DEF Unlink, Skip
<1> QED BY <1>3, <1>4, <1>5

-----------------------------------------------------------------------------
(* PART SIX.  The log is a ledger                                          *)

LEMMA SameState ==
  ASSUME UNCHANGED <<file, keep, pc>>
  PROVE Recent' = Recent /\ Surplus' = Surplus /\ Records' = Records
<1>1. Files' = Files /\ Kept' = Kept
  BY DEF Files, Kept
<1>2. Recent' = Recent
  BY <1>1, RecordsText DEF LinesIn, SettledOf
<1>3. Surplus' = Surplus
  BY <1>1, RecordsText DEF LinesIn, SettledOf
<1>4. Records' = Records
  BY <1>1, RecordsText DEF LinesIn, SettledOf
<1> QED BY <1>2, <1>3, <1>4

\* A step adds one record, forgets some of the oldest up to keep, deletes the
\* last of those above, or draws the line between them elsewhere.
LEMMA RecordsStep ==
  Form /\ Form' /\ [Next]_vars =>
    \/ /\ Surplus' = Surplus
       /\ \/ \E e \in Entries : Recent' = Append(Recent, e)
          \/ Suffix(Recent', Recent)
    \/ Recent' = Recent /\ Prefix(Surplus', Surplus)
    \/ Records' = Records /\ Suffix(Recent', Recent)
<1> SUFFICES ASSUME Form, Form', [Next]_vars
             PROVE \/ /\ Surplus' = Surplus
                      /\ \/ \E e \in Entries : Recent' = Append(Recent, e)
                         \/ Suffix(Recent', Recent)
                   \/ Recent' = Recent /\ Prefix(Surplus', Surplus)
                   \/ Records' = Records /\ Suffix(Recent', Recent)
  OBVIOUS
<1>1. CASE Unlink
  BY <1>1, UnlinkRecords, UnlinkSurplus
<1>2. CASE Start
  BY <1>2, StartRecords
<1>3. CASE ~Unlink /\ ~Start
  <2>1. Surplus' = Surplus
    BY <1>3, SurplusStep
  <2>2. Suffix(Recent, Recent)
    BY SuffixSelf, RecordsHere
  <2>3. CASE UNCHANGED vars
    <3>1. UNCHANGED <<file, keep, pc>>
      BY <2>3 DEF vars
    <3> QED BY <2>1, <2>2, <3>1, SameState
  <2>4. CASE Begin \/ EndTorn \/ Fits \/ Full \/ Reopen
    BY <2>1, <2>2, <2>4, QuietRecords
  <2>5. CASE Write \/ CutBack \/ Crash
    BY <2>1, <2>2, <2>5, WriteRecords, CutBackRecords, CrashRecords DEF Adds
  <2>6. CASE Rename
    BY <2>1, <2>6, RenameRecords
  <2> QED BY <1>3, <2>3, <2>4, <2>5, <2>6 DEF Next
<1> QED BY <1>1, <1>2, <1>3

\* The end of a sequence, as the ledger has it.
LEMMA SuffixIsSubSeq ==
  ASSUME NEW s \in Seq(Entries), NEW r \in Seq(Entries), Suffix(r, s)
  PROVE r = s \/ (Len(r) < Len(s) /\ r = SubSeq(s, Len(s) - Len(r) + 1, Len(s)))
<1>1. PICK n \in Nat : n = Len(s)
  BY LenProperties
<1>2. PICK j \in Nat : j = Len(r)
  BY LenProperties
<1>3. j <= n /\ \A k \in 1..j : r[k] = s[k + (n - j)]
  BY <1>1, <1>2 DEF Suffix
<1>4. CASE j = n
  <2>1. \A k \in 1..n : r[k] = s[k]
    BY <1>3, <1>4
  <2> QED BY <1>1, <1>2, <1>4, <2>1, SeqEqual
<1>5. CASE j < n
  <2> DEFINE t == SubSeq(s, n - j + 1, n)
  <2>1. ASSUME NEW k \in (n - j + 1)..n PROVE s[k] \in Entries
    <3>1. k \in 1..n
      BY <1>5
    <3> QED BY <1>1, <3>1, ElementOfSeq
  <2>2. /\ t \in Seq(Entries)
        /\ Len(t) = IF n - j + 1 <= n THEN n - (n - j + 1) + 1 ELSE 0
        /\ \A k \in 1..(n - (n - j + 1) + 1) : t[k] = s[n - j + 1 + k - 1]
    BY <1>1, <1>2, <2>1, SubSeqProperties
  <2> HIDE DEF t
  <2>3. Len(t) = j
    BY <1>5, <2>2
  <2>4. ASSUME NEW k \in 1..j PROVE r[k] = t[k]
    <3>1. k \in 1..(n - (n - j + 1) + 1) /\ n - j + 1 + k - 1 = k + (n - j)
      OBVIOUS
    <3> QED BY <1>3, <2>2, <3>1
  <2>5. r = t
    BY <1>2, <2>2, <2>3, <2>4, SeqEqual
  <2> QED BY <1>1, <1>2, <1>5, <2>5 DEF t
<1> QED BY <1>3, <1>4, <1>5

LEMMA AppendIsAdd ==
  ASSUME NEW s \in Seq(Entries), NEW e \in Entries, NEW r, r = Append(s, e)
  PROVE Len(r) = Len(s) + 1 /\ s = SubSeq(r, 1, Len(s)) /\ r[Len(r)] \in Entries
<1>1. PICK n \in Nat : n = Len(s)
  BY LenProperties
<1>2. /\ r \in Seq(Entries) /\ Len(r) = n + 1 /\ r[n + 1] = e
      /\ \A k \in 1..n : r[k] = s[k]
  BY <1>1, AppendProperties
<1> DEFINE t == SubSeq(r, 1, n)
<1>3. \A k \in 1..n : r[k] \in Entries
  BY <1>1, <1>2, ElementOfSeq
<1>4. t \in Seq(Entries) /\ Len(t) = n /\ \A k \in 1..n : t[k] = r[k]
  <2>1. /\ t \in Seq(Entries)
        /\ Len(t) = IF 1 <= n THEN n - 1 + 1 ELSE 0
        /\ \A k \in 1..(n - 1 + 1) : t[k] = r[1 + k - 1]
    BY <1>2, <1>3, SubSeqProperties
  <2> HIDE DEF t
  <2>2. Len(t) = n
    BY <2>1
  <2>3. ASSUME NEW k \in 1..n PROVE t[k] = r[k]
    <3>1. k \in 1..(n - 1 + 1) /\ 1 + k - 1 = k
      OBVIOUS
    <3> QED BY <2>1, <3>1
  <2> QED BY <2>1, <2>2, <2>3
<1> HIDE DEF t
<1>5. s = t
  BY <1>1, <1>2, <1>4, SeqEqual
<1> QED BY <1>1, <1>2, <1>5 DEF t

\* The beginning of one.
LEMMA PrefixIsSubSeq ==
  ASSUME NEW s \in Seq(Entries), NEW r \in Seq(Entries), Prefix(r, s)
  PROVE r = s \/ (Len(r) < Len(s) /\ r = SubSeq(s, 1, Len(r)))
<1>1. PICK t \in Seq(Entries) : s = r \o t
  BY DEF Prefix
<1>2. PICK n \in Nat : n = Len(r)
  BY LenProperties
<1>3. PICK j \in Nat : j = Len(t)
  BY LenProperties
<1>4. Len(s) = n + j /\ \A k \in 1..n : s[k] = r[k]
  <2>1. /\ Len(s) = n + j
        /\ \A k \in 1..(n + j) : s[k] = IF k <= n THEN r[k] ELSE t[k - n]
    BY <1>1, <1>2, <1>3, ConcatProperties
  <2> QED BY <2>1
<1>5. CASE j = 0
  BY <1>2, <1>4, <1>5, SeqEqual
<1>6. CASE j # 0
  <2> DEFINE q == SubSeq(s, 1, n)
  <2>1. \A k \in 1..n : s[k] \in Entries
    <3>1. \A k \in 1..n : k \in 1..Len(s)
      BY <1>4
    <3> QED BY <3>1, ElementOfSeq
  <2>2. /\ q \in Seq(Entries)
        /\ Len(q) = IF 1 <= n THEN n - 1 + 1 ELSE 0
        /\ \A k \in 1..(n - 1 + 1) : q[k] = s[1 + k - 1]
    BY <2>1, SubSeqProperties
  <2> HIDE DEF q
  <2>3. Len(q) = n
    BY <2>2
  <2>4. ASSUME NEW k \in 1..n PROVE q[k] = r[k]
    <3>1. k \in 1..(n - 1 + 1) /\ 1 + k - 1 = k
      OBVIOUS
    <3> QED BY <1>4, <2>2, <3>1
  <2>5. r = q
    BY <1>2, <2>2, <2>3, <2>4, SeqEqual
  <2> QED BY <1>2, <1>4, <1>6, <2>5 DEF q
<1> QED BY <1>5, <1>6

\* Two halves of one sequence, cut elsewhere.
LEMMA OtherCut ==
  ASSUME NEW a \in Seq(Entries), NEW b \in Seq(Entries),
         NEW c \in Seq(Entries), NEW d \in Seq(Entries),
         a \o b = c \o d, Suffix(b, d)
  PROVE (a = c /\ b = d) \/ Len(b) < Len(d)
<1>1. PICK i \in Nat, j \in Nat : i = Len(a) /\ j = Len(b)
  BY LenProperties
<1>2. PICK m \in Nat, n \in Nat : m = Len(c) /\ n = Len(d)
  BY LenProperties
<1>3. j <= n
  BY <1>1, <1>2 DEF Suffix
<1>4. CASE j = n
  <2>1. b = d
    BY <1>1, <1>2, <1>4, SuffixWhole
  <2>2. /\ Len(a \o b) = i + j
        /\ \A k \in 1..(i + j) : (a \o b)[k] = IF k <= i THEN a[k] ELSE b[k - i]
    BY <1>1, ConcatProperties
  <2>3. /\ Len(c \o d) = m + n
        /\ \A k \in 1..(m + n) : (c \o d)[k] = IF k <= m THEN c[k] ELSE d[k - m]
    BY <1>2, ConcatProperties
  <2>4. i = m
    BY <1>4, <2>2, <2>3
  <2>5. ASSUME NEW k \in 1..i PROVE a[k] = c[k]
    <3>1. k \in 1..(i + j) /\ k \in 1..(m + n) /\ k <= i /\ k <= m
      BY <2>4
    <3> QED BY <2>2, <2>3, <3>1
  <2>6. a = c
    BY <1>1, <1>2, <2>4, <2>5, SeqEqual
  <2> QED BY <2>1, <2>6
<1> QED BY <1>1, <1>2, <1>3, <1>4

LEMMA TextEmpty == \A f : Text(f, {}) = <<>>
<1>1. Cardinality({}) = 0 /\ 1..0 = {}
  BY FS_EmptySet
<1>2. ASSUME NEW f PROVE Text(f, {}) = <<>>
  <2>1. IsFiniteSet({}) /\ {} \subseteq Spots /\ \A a \in {} : f[a[1]][a[2]] \in Entries
    BY FS_EmptySet
  <2>2. Text(f, {}) \in Seq(Entries) /\ Len(Text(f, {})) = Cardinality({})
    BY <2>1, TextType
  <2> QED BY <1>1, <2>2, EmptySeq
<1> QED BY <1>2

LEMMA InitRecords == Init => Recent = <<>> /\ Surplus = <<>> /\ Records = <<>>
<1> SUFFICES ASSUME Init PROVE Recent = <<>> /\ Surplus = <<>> /\ Records = <<>>
  OBVIOUS
<1>1. /\ Form /\ Recent = Text(file, Here) /\ Surplus = Text(file, Rest)
      /\ Records = Text(file, All)
  BY FormInit, RecordsHere
<1>2. file[0] = <<>> /\ \A n \in 1..Most : file[n] = Missing
  BY <1>1, FormFacts DEF Init, Slots
<1>3. keep \in 1..Most /\ Most \in Nat
  BY <1>1, FormFacts
<1>4. Older(file, keep) = {} /\ Older(file, Most) = {}
  BY <1>2, <1>3 DEF Older
<1>5. Here = {} /\ Rest = {} /\ All = {}
  BY <1>2, <1>4, MarksEmpty DEF Here, Rest, All, Places, Beyond
<1> QED BY <1>1, <1>5, TextEmpty

\* The files up to keep, whatever crashes, short writes, failed renames and new
\* keeps they went through, are an append-only log that forgets only its oldest
\* records, and those above it go from their newer end:
\* src/src/mcp_airlock/audit.py:149-295 implements AuditLedger.
THEOREM Implements == Spec => RefinesLedger
<1>1. Init => Ledger!Init
  BY InitRecords DEF Ledger!Init
<1>2. Form /\ Form' /\ [Next]_vars =>
        [Ledger!Add \/ Ledger!Forget \/ Ledger!Lower \/ Ledger!Discard]_<<Recent, Surplus>>
  <2> SUFFICES ASSUME Form, Form', [Next]_vars
               PROVE \/ Recent' = Recent /\ Surplus' = Surplus
                     \/ Ledger!Add \/ Ledger!Forget \/ Ledger!Lower \/ Ledger!Discard
    OBVIOUS
  <2>1. /\ Recent \in Seq(Entries) /\ Recent' \in Seq(Entries)
        /\ Surplus \in Seq(Entries) /\ Surplus' \in Seq(Entries)
        /\ Records = Surplus \o Recent /\ Records' = Surplus' \o Recent'
    BY RecordsHere, RecordsNext
  <2>2. ASSUME NEW e \in Entries, Recent' = Append(Recent, e), Surplus' = Surplus
        PROVE Ledger!Add
    <3>1. /\ Len(Recent') = Len(Recent) + 1 /\ Recent = SubSeq(Recent', 1, Len(Recent))
          /\ Recent'[Len(Recent')] \in Entries
      BY <2>1, <2>2, AppendIsAdd
    <3> QED BY <2>2, <3>1 DEF Ledger!Add
  <2>3. CASE Suffix(Recent', Recent) /\ Surplus' = Surplus
    <3>1. \/ Recent' = Recent
          \/ /\ Len(Recent') < Len(Recent)
             /\ Recent' = SubSeq(Recent, Len(Recent) - Len(Recent') + 1, Len(Recent))
      BY <2>1, <2>3, SuffixIsSubSeq
    <3> QED BY <2>3, <3>1 DEF Ledger!Forget
  <2>4. CASE Recent' = Recent /\ Prefix(Surplus', Surplus)
    <3>1. \/ Surplus' = Surplus
          \/ Len(Surplus') < Len(Surplus) /\ Surplus' = SubSeq(Surplus, 1, Len(Surplus'))
      BY <2>1, <2>4, PrefixIsSubSeq
    <3> QED BY <2>4, <3>1 DEF Ledger!Discard
  <2>5. CASE Records' = Records /\ Suffix(Recent', Recent)
    <3>1. (Surplus' = Surplus /\ Recent' = Recent) \/ Len(Recent') < Len(Recent)
      BY <2>1, <2>5, OtherCut
    <3> QED BY <2>1, <2>5, <3>1 DEF Ledger!Lower
  <2> QED BY <2>2, <2>3, <2>4, <2>5, RecordsStep
<1> QED BY <1>1, <1>2, FormInvariant, PTL DEF Spec, RefinesLedger, Ledger!Spec

-----------------------------------------------------------------------------
(* PART SEVEN.  No torn text, no number twice                              *)

\* refused holds records of the past; a write cut short is that of seq.
Numbered ==
  /\ refused \subseteq 1..seq
  /\ pc \in Pending => seq \notin refused
  /\ pc = "cut" => file[0][Len(file[0])] \in {Fragment(seq), Record(seq, last)}

\* A fragment is the end of the live file and is about to be cut off.
Clean ==
  \A n \in Slots : file[n] # Missing =>
    \A i \in 1..Len(file[n]) :
      file[n][i].kind = "fragment" => n = 0 /\ i = Len(file[0]) /\ pc \in {"cut", "down"}

\* A record in the log is one that was appended, not one that was refused, and
\* not the one that is being appended.
Counted ==
  \A k \in 1..Len(Records) :
    /\ Records[k].id \in 1..seq /\ Records[k].id \notin refused
    /\ pc \in Pending => Records[k].id # seq

LEMMA RefuseNumbered == Form /\ Numbered /\ pc \in Pending /\ Refuse /\ seq' = seq => Numbered'
<1> SUFFICES ASSUME Form, Numbered, pc \in Pending, Refuse, seq' = seq PROVE Numbered'
  OBVIOUS
<1>1. seq \in 1..seq
  BY FormFacts, BoundAssumption DEF Ids
<1>2. pc' = "idle" /\ refused' = refused \cup {seq}
  BY DEF Refuse
<1> QED BY <1>1, <1>2 DEF Numbered, Pending, Ended

LEMMA GoOnNumbered ==
  Form /\ Numbered /\ pc \in Pending /\ seq' = seq /\ refused' = refused /\ pc' # "cut" =>
    Numbered'
BY DEF Numbered

LEMMA WriteNumbered == Form /\ Numbered /\ Write => Numbered'
<1> SUFFICES ASSUME Form, Numbered, Write PROVE Numbered'
  OBVIOUS
<1>1. pc = "write" /\ pc \in Pending /\ seq' = seq
  BY DEF Write, Pending, Ended
<1>2. CASE Accept("idle")
  BY <1>1, <1>2, GoOnNumbered DEF Accept
<1>3. ASSUME open, NEW x \in {Fragment(seq), Record(seq, last)}, Put(<<x>>),
             last' = last, Accept("cut")
      PROVE Numbered'
  <2>1. /\ file[0] # Missing /\ Lined(file[0]) /\ 0 \in Slots
        /\ seq \in Ids /\ last \in Ids \cup {Genesis}
    BY <1>1, <1>3, FormFacts DEF Form, Opened
  <2>2. x \in Pieces
    BY <2>1, RecordKinds, EntryKinds, FragmentKinds
  <2>3. file'[0] = file[0] \o <<x>>
    BY <1>3, <2>1, FormFacts DEF Put
  <2>4. file'[0][Len(file'[0])] = x
    BY <2>1, <2>2, <2>3, LinedGrows
  <2> QED BY <1>1, <1>3, <2>4 DEF Numbered, Accept
<1>4. CASE Refuse
  BY <1>1, <1>4, RefuseNumbered
<1>5. \A s \in Short(seq, last) : \E x \in {Fragment(seq), Record(seq, last)} : s = <<x>>
  BY DEF Short
<1> QED BY <1>2, <1>3, <1>4, <1>5 DEF Write

LEMMA NumberedStep == Form /\ Numbered /\ [Next]_vars => Numbered'
<1> SUFFICES ASSUME Form, Numbered, [Next]_vars PROVE Numbered'
  OBVIOUS
<1>1. CASE UNCHANGED vars
  BY <1>1 DEF vars, history, Numbered
<1>2. CASE Begin
  <2>1. /\ seq \in Nat /\ seq' = seq + 1 /\ refused' = refused /\ pc' # "cut"
    BY <1>2, FormFacts, BoundAssumption DEF Begin, history
  <2>2. refused' \subseteq 1..seq' /\ seq' \notin refused'
    BY <2>1 DEF Numbered
  <2> QED BY <2>1, <2>2 DEF Numbered
<1>3. CASE EndTorn
  <2>1. pc \in Pending /\ seq' = seq
    BY <1>3 DEF EndTorn, Pending
  <2> QED BY <1>3, <2>1, RefuseNumbered, GoOnNumbered DEF EndTorn, Accept
<1>4. CASE Fits \/ Full \/ Rename \/ Unlink
  <2>1. pc \in Pending /\ seq' = seq /\ refused' = refused /\ pc' # "cut"
    BY <1>4 DEF Fits, Full, Rename, Unlink, Skip, history, Pending, Ended
  <2> QED BY <2>1, GoOnNumbered
<1>5. CASE Reopen
  <2>1. pc \in Pending /\ seq' = seq
    BY <1>5 DEF Reopen, Pending, Ended
  <2>2. Refuse \/ (pc' = "write" /\ refused' = refused)
    BY <1>5 DEF Reopen
  <2> QED BY <2>1, <2>2, RefuseNumbered, GoOnNumbered
<1>6. CASE Write
  BY <1>6, WriteNumbered
<1>7. CASE CutBack
  <2>1. pc \in Pending /\ seq' = seq /\ Refuse
    BY <1>7 DEF CutBack, Pending, Ended
  <2> QED BY <2>1, RefuseNumbered
<1>8. CASE Crash \/ Start
  <2>1. seq' = seq /\ refused' = refused /\ pc' \in {"down", "idle"}
    BY <1>8 DEF Crash, Start, history
  <2>2. pc' \notin Pending /\ pc' # "cut"
    BY <2>1 DEF Pending, Ended
  <2> QED BY <2>1, <2>2 DEF Numbered
<1> QED BY <1>1, <1>2, <1>3, <1>4, <1>5, <1>6, <1>7, <1>8 DEF Next

\* No text of a file is a fragment.
Sound(f) == \A i \in 1..Len(f) : f[i].kind # "fragment"

\* Between writes every file is sound, and stays so wherever it goes.
LEMMA CleanMoves ==
  ASSUME Clean, pc \notin {"cut", "down"},
         \A n \in Slots : \/ file'[n] = Missing \/ file'[n] = <<>>
                          \/ \E k \in Slots : file'[n] = file[k]
  PROVE Clean'
<1>1. \A k \in Slots : file[k] # Missing => Sound(file[k])
  BY DEF Clean, Sound
<1>2. Sound(<<>>)
  <2>1. Len(<<>>) = 0 /\ 1..0 = {}
    BY EmptySeq
  <2> QED BY <2>1 DEF Sound
<1>3. \A n \in Slots : file'[n] # Missing => Sound(file'[n])
  BY <1>1, <1>2
<1> QED BY <1>3 DEF Clean, Sound

\* A live file that is sound but for its end, with the others as they were.
LEMMA CleanLive ==
  ASSUME Clean, 0 \in Slots, \A n \in Slots : n \in Nat,
         \A n \in Slots : n # 0 => file'[n] = file[n],
         file'[0] # Missing =>
           \A i \in 1..Len(file'[0]) :
             file'[0][i].kind = "fragment" => i = Len(file'[0]) /\ pc' \in {"cut", "down"}
  PROVE Clean'
BY DEF Clean

\* A write to a file that is sound.
LEMMA CleanGrows ==
  ASSUME Form, Clean, pc \notin {"cut", "down"}, file[0] # Missing, NEW x \in Pieces,
         \/ Put(<<x>>) /\ (x.kind = "fragment" => pc' \in {"cut", "down"})
         \/ Put(<<x, Newline>>) /\ x.kind # "fragment"
  PROVE Clean'
<1>1. /\ 0 \in Slots /\ (\A n \in Slots : n \in Nat) /\ Lined(file[0])
      /\ file \in [Slots -> Seq(Pieces) \cup {Missing}]
  BY FormFacts
<1>2. /\ \A n \in Slots : n # 0 => file'[n] = file[n]
      /\ \/ /\ file'[0] = file[0] \o <<x>> /\ (x.kind = "fragment" => pc' \in {"cut", "down"})
         \/ file'[0] = file[0] \o <<x, Newline>> /\ x.kind # "fragment"
  BY <1>1 DEF Put
<1>3. \A i \in 1..Len(file[0]) : file[0][i].kind # "fragment"
  BY <1>1 DEF Clean
<1>4. PICK n \in Nat : n = Len(file[0])
  BY <1>1, LenProperties DEF Lined
<1>5. /\ \A i \in 1..n : file'[0][i] = file[0][i]
      /\ file'[0][n + 1] = x
      /\ \/ Len(file'[0]) = n + 1 /\ (x.kind = "fragment" => pc' \in {"cut", "down"})
         \/ Len(file'[0]) = n + 2 /\ file'[0][n + 2] = Newline /\ x.kind # "fragment"
  BY <1>1, <1>2, <1>4, LinedGrows
<1>6. ASSUME NEW i \in 1..Len(file'[0]), file'[0][i].kind = "fragment"
      PROVE i = Len(file'[0]) /\ pc' \in {"cut", "down"}
  <2>1. i \notin 1..n
    BY <1>3, <1>4, <1>5, <1>6
  <2>2. Newline.kind # "fragment"
    BY DEF Newline
  <2>3. CASE Len(file'[0]) = n + 1 /\ (x.kind = "fragment" => pc' \in {"cut", "down"})
    <3>1. i = n + 1
      BY <1>6, <2>1, <2>3
    <3> QED BY <1>5, <1>6, <2>3, <3>1
  <2>4. CASE Len(file'[0]) = n + 2 /\ file'[0][n + 2] = Newline /\ x.kind # "fragment"
    <3>1. i = n + 1 \/ i = n + 2
      BY <1>6, <2>1, <2>4
    <3> QED BY <1>5, <1>6, <2>2, <2>4, <3>1
  <2> QED BY <1>5, <2>3, <2>4
<1> QED BY <1>1, <1>2, <1>6, CleanLive

\* What a write appends to a sound log.
LEMMA CleanPut ==
  ASSUME Form, Clean, pc = "write", open,
         NEW s \in Short(seq, last) \cup {<<Record(seq, last), Newline>>}, Put(s),
         pc' \in {"cut", "down"} \/ s = <<Record(seq, last), Newline>>
  PROVE Clean'
<1>1. file[0] # Missing /\ seq \in Ids /\ last \in Ids \cup {Genesis}
  BY FormFacts DEF Form, Opened, Pending, Ended
<1>2. /\ Record(seq, last) \in Pieces /\ Record(seq, last).kind = "record"
      /\ Fragment(seq) \in Pieces
  BY <1>1, RecordKinds, EntryKinds, FragmentKinds
<1>3. CASE s = <<Record(seq, last), Newline>>
  <2>1. Put(<<Record(seq, last), Newline>>)
    BY <1>3
  <2> QED BY <1>1, <1>2, <2>1, CleanGrows
<1>4. CASE s = <<Fragment(seq)>> /\ pc' \in {"cut", "down"}
  <2>1. Put(<<Fragment(seq)>>)
    BY <1>4
  <2> QED BY <1>1, <1>2, <1>4, <2>1, CleanGrows
<1>5. CASE s = <<Record(seq, last)>> /\ pc' \in {"cut", "down"}
  <2>1. Put(<<Record(seq, last)>>)
    BY <1>5
  <2> QED BY <1>1, <1>2, <1>5, <2>1, CleanGrows
<1>6. s \in Short(seq, last) => s # <<Record(seq, last), Newline>>
  <2>1. /\ Len(<<Record(seq, last), Newline>>) = 2 /\ Len(<<Record(seq, last)>>) = 1
        /\ Len(<<Fragment(seq)>>) = 1
    OBVIOUS
  <2> QED BY <2>1 DEF Short
<1> QED BY <1>3, <1>4, <1>5, <1>6 DEF Short

LEMMA CleanRotate == Form /\ Clean /\ (Rename \/ Unlink \/ Reopen) => Clean'
<1> SUFFICES ASSUME Form, Clean, Rename \/ Unlink \/ Reopen PROVE Clean'
  OBVIOUS
<1>1. pc \notin {"cut", "down"} /\ file \in [Slots -> Seq(Pieces) \cup {Missing}] /\ 0 \in Slots
  BY FormFacts DEF Rename, Unlink, Reopen
<1>2. CASE Rename
  <2>1. slot - 1 \in Slots
    BY <1>2, FormFacts DEF Form, TypeOK, Rename, Slots
  <2>2. \A n \in Slots : file'[n] \in {file[n], file[slot - 1], Missing}
    BY <1>1, <1>2 DEF Rename, Skip
  <2> QED BY <1>1, <2>1, <2>2, CleanMoves
<1>3. CASE Unlink
  <2>1. \A n \in Slots : file'[n] \in {file[n], Missing}
    BY <1>1, <1>3 DEF Unlink, Skip
  <2> QED BY <1>1, <2>1, CleanMoves
<1>4. CASE Reopen
  <2>1. \A n \in Slots : file'[n] \in {file[n], <<>>}
    BY <1>1, <1>4 DEF Reopen, Refuse
  <2> QED BY <1>1, <2>1, CleanMoves
<1> QED BY <1>2, <1>3, <1>4

LEMMA CleanCutBack == Form /\ Clean /\ CutBack /\ ~uncut' => Clean'
<1> SUFFICES ASSUME Form, Clean, CutBack, ~uncut' PROVE Clean'
  OBVIOUS
<1>1. /\ pc = "cut" /\ file' = [file EXCEPT ![0] = SubSeq(@, 1, Len(@) - 1)]
      /\ 0 \in Slots /\ (\A n \in Slots : n \in Nat)
      /\ file \in [Slots -> Seq(Pieces) \cup {Missing}]
  BY FormFacts DEF CutBack
<1>2. file[0] # Missing /\ Lined(file[0]) /\ Odd(Len(file[0]))
  BY <1>1, FormFacts DEF Form, Tidy, Ragged
<1>3. /\ \A n \in Slots : n # 0 => file'[n] = file[n]
      /\ file'[0] = SubSeq(file[0], 1, Len(file[0]) - 1)
  BY <1>1
<1>4. /\ Len(file'[0]) = Len(file[0]) - 1 /\ Len(file[0]) \in Nat
      /\ \A i \in 1..(Len(file[0]) - 1) : file'[0][i] = file[0][i]
  BY <1>2, <1>3, LinedCutBack
<1>5. ASSUME NEW i \in 1..Len(file'[0]) PROVE file'[0][i].kind # "fragment"
  <2>1. i \in 1..Len(file[0]) /\ i # Len(file[0]) /\ file'[0][i] = file[0][i]
    BY <1>4
  <2> QED BY <1>1, <1>2, <2>1 DEF Clean
<1> QED BY <1>1, <1>3, <1>5, CleanLive

LEMMA CleanStart == Form /\ Clean /\ Start /\ ~uncut' => Clean' /\ file'[0] = Left(TRUE)
<1> SUFFICES ASSUME Form, Clean, Start, ~uncut' PROVE Clean' /\ file'[0] = Left(TRUE)
  OBVIOUS
<1>1. /\ pc = "down" /\ file' = [file EXCEPT ![0] = Left(TRUE)]
      /\ 0 \in Slots /\ (\A n \in Slots : n \in Nat)
      /\ file \in [Slots -> Seq(Pieces) \cup {Missing}]
  BY FormFacts DEF Start, Left
<1>2. /\ \A n \in Slots : n # 0 => file'[n] = file[n]
      /\ file'[0] = Left(TRUE)
  BY <1>1
<1>3. /\ Lined(Live)
      /\ Left(TRUE) = IF Torn(Live) THEN SubSeq(Live, 1, Len(Live) - 1) ELSE Live
  BY StartLive
<1>4. \A i \in 1..Len(Live) : Live[i].kind = "fragment" => i = Len(Live)
  <2>1. CASE file[0] = Missing
    <3>1. Len(<<>>) = 0 /\ 1..0 = {}
      BY EmptySeq
    <3> QED BY <2>1, <3>1 DEF Live
  <2>2. CASE file[0] # Missing
    BY <1>1, <2>2 DEF Live, Clean
  <2> QED BY <2>1, <2>2
<1>5. ASSUME NEW i \in 1..Len(file'[0]) PROVE file'[0][i].kind # "fragment"
  <2>1. CASE Torn(Live)
    <3>1. Odd(Len(Live))
      BY <1>3, <2>1, LinedCut
    <3>2. /\ Len(file'[0]) = Len(Live) - 1 /\ Len(Live) \in Nat
          /\ \A j \in 1..(Len(Live) - 1) : file'[0][j] = Live[j]
      BY <1>2, <1>3, <2>1, <3>1, LinedCutBack
    <3>3. i \in 1..Len(Live) /\ i # Len(Live) /\ file'[0][i] = Live[i]
      BY <3>2
    <3> QED BY <1>4, <3>3
  <2>2. CASE ~Torn(Live)
    <3>1. file'[0] = Live
      BY <1>2, <1>3, <2>2
    <3>2. Odd(Len(Live)) => Live[Len(Live)].kind = "record"
      BY <1>3, <2>2, LinedCut
    <3>3. ~Odd(Len(Live)) /\ i = Len(Live) => Live[i] = Newline
      BY <1>3, <3>1 DEF Lined
    <3>4. Newline.kind # "fragment"
      BY DEF Newline
    <3> QED BY <1>4, <3>1, <3>2, <3>3, <3>4
  <2> QED BY <2>1, <2>2
<1> QED BY <1>1, <1>2, <1>5, CleanLive

LEMMA CleanStep == Form /\ Clean /\ [Next]_vars /\ ~uncut' => Clean'
<1> SUFFICES ASSUME Form, Clean, [Next]_vars, ~uncut' PROVE Clean'
  OBVIOUS
<1>1. CASE UNCHANGED vars
  BY <1>1 DEF vars, Clean
<1>2. CASE Begin \/ Fits \/ Full
  <2>1. pc \notin {"cut", "down"} /\ file' = file
    BY <1>2 DEF Begin, Fits, Full
  <2> QED BY <2>1, CleanMoves
<1>3. CASE EndTorn
  <2>1. CASE UNCHANGED file
    BY <1>3, <2>1, CleanMoves DEF EndTorn
  <2>2. CASE open /\ Put(<<Newline>>)
    <3>1. pc \notin {"cut", "down"} /\ file[0] # Missing
      BY <1>3, <2>2 DEF EndTorn, Form, Opened
    <3>2. Newline \in Pieces /\ Newline.kind # "fragment"
      BY EntryKinds DEF Newline
    <3> QED BY <2>2, <3>1, <3>2, CleanGrows
  <2> QED BY <1>3, <2>1, <2>2 DEF EndTorn
<1>4. CASE Rename \/ Unlink \/ Reopen
  BY <1>4, CleanRotate
<1>5. CASE Write
  <2>1. pc = "write"
    BY <1>5 DEF Write
  <2>2. CASE open /\ Put(<<Record(seq, last), Newline>>)
    BY <2>1, <2>2, CleanPut
  <2>3. ASSUME open, NEW s \in Short(seq, last), Put(s), Accept("cut") PROVE Clean'
    BY <2>1, <2>3, CleanPut DEF Accept
  <2>4. CASE UNCHANGED file
    BY <2>1, <2>4, CleanMoves
  <2> QED BY <1>5, <2>2, <2>3, <2>4 DEF Write
<1>6. CASE CutBack
  BY <1>6, CleanCutBack
<1>7. CASE Crash
  <2>1. pc' = "down"
    BY <1>7 DEF Crash
  <2>2. CASE UNCHANGED file
    BY <2>1, <2>2 DEF Clean
  <2>3. ASSUME pc = "write", open,
               NEW s \in Short(seq, last) \cup {<<Record(seq, last), Newline>>}, Put(s)
        PROVE Clean'
    BY <2>1, <2>3, CleanPut
  <2> QED BY <1>7, <2>2, <2>3 DEF Crash
<1>8. CASE Start
  BY <1>8, CleanStart
<1> QED BY <1>1, <1>2, <1>3, <1>4, <1>5, <1>6, <1>7, <1>8 DEF Next

\* Which record a step adds, as long as every torn line is cut.
LEMMA NewestRecord ==
  Form /\ Form' /\ Numbered /\ [Next]_vars /\ ~uncut' =>
    \/ /\ Suffix(Recent', Recent) /\ (~Start => last' = last)
       /\ Recent' = Recent \/ Rename \/ Start
    \/ /\ Adds(Record(seq, last)) /\ pc \in {"cut", "write"}
       /\ UNCHANGED <<seq, refused>>
       /\ (pc' = "idle" /\ last' = seq) \/ pc' = "down"
<1> SUFFICES ASSUME Form, Form', Numbered, [Next]_vars, ~uncut'
             PROVE \/ /\ Suffix(Recent', Recent) /\ (~Start => last' = last)
                      /\ Recent' = Recent \/ Rename \/ Start
                   \/ /\ Adds(Record(seq, last)) /\ pc \in {"cut", "write"}
                      /\ UNCHANGED <<seq, refused>>
                      /\ (pc' = "idle" /\ last' = seq) \/ pc' = "down"
  OBVIOUS
<1>1. Recent' = Recent => Suffix(Recent', Recent)
  BY RecordsHere, SuffixSelf
<1>2. CASE UNCHANGED vars
  <2>1. UNCHANGED <<file, keep, pc, last>>
    BY <1>2 DEF vars
  <2> QED BY <1>1, <2>1, SameState
<1>3. CASE Begin \/ EndTorn \/ Fits \/ Full \/ Unlink \/ Reopen
  <2>1. last' = last
    BY <1>3 DEF Begin, EndTorn, Fits, Full, Unlink, Reopen, memory
  <2> QED BY <1>1, <1>3, <2>1, QuietRecords
<1>4. CASE Write
  <2>1. pc = "write" /\ seq' = seq
    BY <1>4 DEF Write
  <2>2. CASE Recent' = Recent /\ last' = last
    BY <1>1, <2>2
  <2>3. CASE Adds(Record(seq, last)) /\ last' = seq /\ pc' = "idle"
    <3>1. refused' = refused
      <4>1. CASE Refuse /\ UNCHANGED file
        <5>1. Recent' = Recent
          BY <2>1, <4>1, StillRecords, <1>4 DEF Refuse, Write
        <5>2. Recent \in Seq(Entries) /\ Recent' = Append(Recent, Record(seq, last))
          BY <2>3, RecordsHere DEF Adds
        <5>3. PICK n \in Nat : n = Len(Recent)
          BY <5>2, LenProperties
        <5>4. Len(Recent') = n + 1
          BY <5>2, <5>3, AppendProperties, <2>3 DEF Adds
        <5> QED BY <5>1, <5>3, <5>4
      <4>2. CASE \E at : Accept(at)
        BY <4>2 DEF Accept
      <4> QED BY <1>4, <4>1, <4>2 DEF Write
    <3> QED BY <2>1, <2>3, <3>1
  <2> QED BY <1>4, <2>2, <2>3, WriteRecords
<1>5. CASE CutBack
  <2>1. last' = last
    BY <1>5 DEF CutBack
  <2> QED BY <1>1, <1>5, <2>1, CutBackRecords
<1>6. CASE Crash
  <2>1. pc' = "down" /\ UNCHANGED <<last, seq, refused>>
    BY <1>6 DEF Crash, memory, history
  <2>2. CASE pc = "cut" /\ Adds(file[0][Len(file[0])])
    <3>1. file[0][Len(file[0])] = Record(seq, last)
      <4>1. seq \in Ids
        BY <2>2, FormFacts DEF Pending, Ended
      <4>2. Fragment(seq) \notin Entries
        BY <4>1, FragmentKinds, EntryKinds
      <4> QED BY <2>2, <4>2 DEF Numbered, Adds
    <3> QED BY <2>1, <2>2, <3>1
  <2> QED BY <1>1, <1>6, <2>1, <2>2, CrashRecords
<1>7. CASE Rename
  <2>1. last' = last
    BY <1>7 DEF Rename
  <2> QED BY <1>7, <2>1, RenameRecords
<1>8. CASE Start
  BY <1>8, StartRecords
<1> QED BY <1>2, <1>3, <1>4, <1>5, <1>6, <1>7, <1>8 DEF Next

\* What is added is the last record.
LEMMA AddsLast ==
  ASSUME NEW s \in Seq(Entries), NEW e \in Entries, NEW r, r = Append(s, e)
  PROVE /\ r \in Seq(Entries) /\ Len(s) \in Nat /\ Len(r) = Len(s) + 1 /\ r[Len(r)] = e
        /\ \A k \in 1..Len(s) : r[k] = s[k]
<1>1. Len(s) \in Nat
  BY LenProperties
<1> QED BY <1>1, AppendProperties

\* Every record of r is one of s.
Within(r, s) == \A k \in 1..Len(r) : \E j \in 1..Len(s) : r[k] = s[j]

LEMMA WithinBoth ==
  ASSUME NEW a \in Seq(Entries), NEW b \in Seq(Entries),
         NEW c \in Seq(Entries), NEW d \in Seq(Entries), Within(a, c), Within(b, d)
  PROVE Within(a \o b, c \o d)
<1>1. PICK i \in Nat, j \in Nat : i = Len(a) /\ j = Len(b)
  BY LenProperties
<1>2. PICK m \in Nat, n \in Nat : m = Len(c) /\ n = Len(d)
  BY LenProperties
<1>3. /\ Len(a \o b) = i + j
      /\ \A k \in 1..(i + j) : (a \o b)[k] = IF k <= i THEN a[k] ELSE b[k - i]
  BY <1>1, ConcatProperties
<1>4. /\ Len(c \o d) = m + n
      /\ \A k \in 1..(m + n) : (c \o d)[k] = IF k <= m THEN c[k] ELSE d[k - m]
  BY <1>2, ConcatProperties
<1>5. ASSUME NEW k \in 1..(i + j) PROVE \E h \in 1..(m + n) : (a \o b)[k] = (c \o d)[h]
  <2>1. CASE k <= i
    <3>1. k \in 1..i
      BY <2>1
    <3>2. PICK h \in 1..m : a[k] = c[h]
      BY <1>1, <1>2, <3>1 DEF Within
    <3>3. h \in 1..(m + n) /\ h <= m
      OBVIOUS
    <3> QED BY <1>3, <1>4, <2>1, <3>2, <3>3
  <2>2. CASE ~(k <= i)
    <3>1. k - i \in 1..j
      BY <2>2
    <3>2. PICK h \in 1..n : b[k - i] = d[h]
      BY <1>1, <1>2, <3>1 DEF Within
    <3>3. h + m \in 1..(m + n) /\ ~(h + m <= m) /\ (h + m) - m = h
      OBVIOUS
    <3>4. (c \o d)[h + m] = d[h]
      BY <1>4, <3>3
    <3> QED BY <1>3, <2>2, <3>2, <3>3, <3>4
  <2> QED BY <2>1, <2>2
<1> QED BY <1>3, <1>4, <1>5 DEF Within

LEMMA WithinSelf == \A s : Within(s, s)
BY DEF Within

LEMMA WithinSuffix ==
  ASSUME NEW s, NEW r, Suffix(r, s) PROVE Within(r, s)
BY DEF Suffix, Within

LEMMA WithinPrefix ==
  ASSUME NEW s \in Seq(Entries), NEW r \in Seq(Entries), Prefix(r, s) PROVE Within(r, s)
<1>1. PICK t \in Seq(Entries) : s = r \o t
  BY DEF Prefix
<1>2. PICK n \in Nat, j \in Nat : n = Len(r) /\ j = Len(t)
  BY LenProperties
<1>3. /\ Len(s) = n + j
      /\ \A k \in 1..(n + j) : s[k] = IF k <= n THEN r[k] ELSE t[k - n]
  BY <1>1, <1>2, ConcatProperties
<1>4. ASSUME NEW k \in 1..n PROVE k \in 1..Len(s) /\ r[k] = s[k]
  BY <1>3
<1> QED BY <1>2, <1>4 DEF Within

LEMMA AppendBehind ==
  ASSUME NEW a \in Seq(Entries), NEW b \in Seq(Entries), NEW e \in Entries
  PROVE a \o Append(b, e) = Append(a \o b, e)
<1>1. PICK i \in Nat, j \in Nat : i = Len(a) /\ j = Len(b)
  BY LenProperties
<1>2. /\ a \o b \in Seq(Entries) /\ Len(a \o b) = i + j
      /\ \A k \in 1..(i + j) : (a \o b)[k] = IF k <= i THEN a[k] ELSE b[k - i]
  BY <1>1, ConcatProperties
<1> DEFINE c == Append(b, e)
           d == Append(a \o b, e)
<1>3. /\ c \in Seq(Entries) /\ Len(c) = j + 1 /\ c[j + 1] = e
      /\ \A k \in 1..j : c[k] = b[k]
  BY <1>1, AppendProperties
<1>4. /\ d \in Seq(Entries) /\ Len(d) = i + j + 1 /\ d[i + j + 1] = e
      /\ \A k \in 1..(i + j) : d[k] = (a \o b)[k]
  BY <1>2, AppendProperties
<1> HIDE DEF c, d
<1>5. /\ a \o c \in Seq(Entries) /\ Len(a \o c) = i + (j + 1)
      /\ \A k \in 1..(i + (j + 1)) : (a \o c)[k] = IF k <= i THEN a[k] ELSE c[k - i]
  <2>1. PICK t \in Seq(Entries) : t = c
    BY <1>3
  <2>2. PICK m \in Nat : m = j + 1
    OBVIOUS
  <2>3. Len(t) = m /\ Len(a) = i
    BY <1>1, <1>3, <2>1, <2>2
  <2>4. /\ a \o t \in Seq(Entries) /\ Len(a \o t) = i + m
        /\ \A k \in 1..(i + m) : (a \o t)[k] = IF k <= i THEN a[k] ELSE t[k - i]
    BY ONLY <2>3, i \in Nat, m \in Nat, a \in Seq(Entries), t \in Seq(Entries), ConcatProperties
  <2> QED BY <2>1, <2>2, <2>4
<1>6. ASSUME NEW k \in 1..(i + j + 1) PROVE (a \o c)[k] = d[k]
  <2>1. CASE k <= i
    <3>1. k \in 1..(i + j) /\ k \in 1..(i + (j + 1))
      BY <2>1
    <3> QED BY <1>2, <1>4, <1>5, <2>1, <3>1
  <2>2. CASE ~(k <= i) /\ k # i + j + 1
    <3>1. k \in 1..(i + j) /\ k \in 1..(i + (j + 1)) /\ k - i \in 1..j
      BY <2>2
    <3>2. (a \o c)[k] = c[k - i] /\ d[k] = b[k - i]
      BY <1>2, <1>4, <1>5, <2>2, <3>1
    <3> QED BY <1>3, <3>1, <3>2
  <2>3. CASE k = i + j + 1
    <3>1. k \in 1..(i + (j + 1)) /\ ~(k <= i) /\ k - i = j + 1
      BY <2>3
    <3> QED BY <1>3, <1>4, <1>5, <2>3, <3>1
  <2> QED BY <2>1, <2>2, <2>3
<1>7. Len(a \o c) = Len(d)
  BY <1>4, <1>5
<1>8. \A k \in 1..Len(a \o c) : (a \o c)[k] = d[k]
  BY <1>5, <1>6
<1> QED BY <1>4, <1>5, <1>7, <1>8, SeqEqual DEF c, d

\* No step makes a record but the one that is being appended.
LEMMA RecordsFrom ==
  ASSUME Form, Form', Numbered, [Next]_vars, ~uncut'
  PROVE \/ Within(Records', Records)
        \/ /\ Records' = Append(Records, Record(seq, last)) /\ Record(seq, last) \in Entries
           /\ pc \in {"cut", "write"} /\ UNCHANGED <<seq, refused>>
           /\ (pc' = "idle" /\ last' = seq) \/ pc' = "down"
<1>1. /\ Recent \in Seq(Entries) /\ Recent' \in Seq(Entries)
      /\ Surplus \in Seq(Entries) /\ Surplus' \in Seq(Entries)
      /\ Records = Surplus \o Recent /\ Records' = Surplus' \o Recent'
  BY RecordsHere, RecordsNext
<1>2. CASE Unlink
  <2>1. Within(Surplus', Surplus) /\ Within(Recent', Recent)
    BY <1>1, <1>2, UnlinkRecords, UnlinkSurplus, WithinPrefix, WithinSelf
  <2> QED BY <1>1, <2>1, WithinBoth
<1>3. CASE Start
  BY <1>3, StartRecords, WithinSelf
<1>4. CASE ~Unlink /\ ~Start
  <2>1. Surplus' = Surplus
    BY <1>4, SurplusStep
  <2>2. CASE Suffix(Recent', Recent)
    BY <1>1, <2>1, <2>2, WithinSelf, WithinSuffix, WithinBoth
  <2>3. ASSUME Adds(Record(seq, last)) PROVE Records' = Append(Records, Record(seq, last))
    <3>1. PICK e \in Entries : e = Record(seq, last)
      BY <2>3 DEF Adds
    <3>2. Surplus \o Append(Recent, e) = Append(Surplus \o Recent, e)
      BY <1>1, AppendBehind
    <3> QED BY <1>1, <2>1, <2>3, <3>1, <3>2 DEF Adds
  <2>4. CASE /\ Adds(Record(seq, last)) /\ pc \in {"cut", "write"}
             /\ UNCHANGED <<seq, refused>>
             /\ (pc' = "idle" /\ last' = seq) \/ pc' = "down"
    BY <2>3, <2>4 DEF Adds
  <2> QED BY <2>2, <2>4, NewestRecord
<1> QED BY <1>2, <1>3, <1>4

LEMMA CountedStep ==
  Form /\ Form' /\ Numbered /\ Numbered' /\ Counted /\ [Next]_vars /\ ~uncut' => Counted'
<1> SUFFICES ASSUME Form, Form', Numbered, Numbered', Counted, [Next]_vars, ~uncut'
             PROVE Counted'
  OBVIOUS
<1>1. seq \in Nat /\ Records \in Seq(Entries) /\ Records' \in Seq(Entries)
  BY FormFacts, BoundAssumption, RecordsHere, RecordsNext
<1>2. \A k \in 1..Len(Records) :
        /\ Records[k].id \in 1..seq /\ Records[k].id \notin refused
        /\ pc \in Pending => Records[k].id # seq
  BY DEF Counted
\* What a record in the log may be called stays so.
<1>3. \A i \in 1..seq : i \notin refused /\ (pc \in Pending => i # seq) =>
         i \in 1..seq' /\ i \notin refused' /\ (pc' \in Pending => i # seq')
  <2>1. CASE Begin
    <3>1. seq' = seq + 1 /\ refused' = refused
      BY <2>1 DEF Begin, history
    <3> QED BY <1>1, <3>1
  <2>2. CASE ~Begin
    <3>1. seq' = seq
      BY <2>2 DEF Next, vars, EndTorn, Fits, Full, Rename, Unlink, Reopen, Write,
                  CutBack, Crash, Start
    <3>2. refused' = refused \/ (refused' = refused \cup {seq} /\ pc \in Pending /\ pc' = "idle")
      BY <2>2 DEF Next, vars, history, EndTorn, Fits, Full, Rename, Unlink, Skip, Reopen, Write,
                  CutBack, Crash, Start, Accept, Refuse, Pending, Ended
    <3>3. pc' \in Pending => pc \in Pending
      BY <2>2 DEF Next, vars, EndTorn, Fits, Full, Rename, Unlink, Skip, Reopen, Write,
                  CutBack, Crash, Start, Accept, Refuse, Pending, Ended
    <3> QED BY <3>1, <3>2, <3>3 DEF Pending, Ended
  <2> QED BY <2>1, <2>2
<1>4. CASE Within(Records', Records)
  <2>1. ASSUME NEW k \in 1..Len(Records')
        PROVE /\ Records'[k].id \in 1..seq' /\ Records'[k].id \notin refused'
              /\ pc' \in Pending => Records'[k].id # seq'
    <3>1. PICK j \in 1..Len(Records) : Records'[k] = Records[j]
      BY <1>4 DEF Within
    <3> QED BY <1>2, <1>3, <3>1
  <2> QED BY <2>1 DEF Counted
<1>5. CASE /\ Records' = Append(Records, Record(seq, last)) /\ Record(seq, last) \in Entries
           /\ pc \in {"cut", "write"}
           /\ UNCHANGED <<seq, refused>>
           /\ (pc' = "idle" /\ last' = seq) \/ pc' = "down"
  <2>1. pc' \notin Pending /\ pc \in Pending /\ seq \in 1..seq /\ seq \notin refused
    <3>1. pc' \notin Pending /\ pc \in Pending
      BY <1>5 DEF Pending, Ended
    <3> QED BY <1>1, <3>1, FormFacts DEF Numbered, Ids
  <2>2. Record(seq, last).id = seq
    BY DEF Record
  <2>3. /\ Len(Records) \in Nat /\ Len(Records') = Len(Records) + 1
        /\ Records'[Len(Records')] = Record(seq, last)
        /\ \A k \in 1..Len(Records) : Records'[k] = Records[k]
    BY <1>1, <1>5, AddsLast
  <2>4. ASSUME NEW k \in 1..Len(Records')
        PROVE /\ Records'[k].id \in 1..seq' /\ Records'[k].id \notin refused'
              /\ pc' \in Pending => Records'[k].id # seq'
    <3>1. k \in 1..Len(Records) \/ k = Len(Records')
      BY <2>3
    <3> QED BY <1>2, <1>5, <2>1, <2>2, <2>3, <3>1
  <2> QED BY <2>4 DEF Counted
<1> QED BY <1>4, <1>5, RecordsFrom

-----------------------------------------------------------------------------
(* PART EIGHT.  The chain                                                  *)

\* The process knows the last record, once it has started.
Linked ==
  /\ Chained(Recent)
  /\ pc # "down" /\ Recent # <<>> => last = Recent[Len(Recent)].id

\* The same of all the files, until records are gone from the middle of them.
Joined ==
  ~split => /\ Chained(Records)
            /\ pc # "down" /\ Records # <<>> => last = Records[Len(Records)].id

\* The end of a chain is a chain, with the same last record.
LEMMA ChainedSuffix ==
  ASSUME NEW s \in Seq(Entries), NEW r \in Seq(Entries), Suffix(r, s), Chained(s)
  PROVE Chained(r) /\ (r # <<>> => s # <<>> /\ r[Len(r)] = s[Len(s)])
<1>1. PICK n \in Nat, j \in Nat : n = Len(s) /\ j = Len(r)
  BY LenProperties
<1>2. \A i \in 2..n : s[i].prev = s[i - 1].id
  BY <1>1 DEF Chained
<1>3. j <= n /\ \A k \in 1..j : r[k] = s[k + (n - j)]
  BY <1>1 DEF Suffix
<1>4. ASSUME NEW i \in 2..j PROVE r[i].prev = r[i - 1].id
  <2>1. i \in 1..j /\ i - 1 \in 1..j /\ i + (n - j) \in 2..n
        /\ (i + (n - j)) - 1 = (i - 1) + (n - j)
    BY <1>3
  <2> QED BY <1>2, <1>3, <2>1
<1>5. Chained(r)
  BY <1>1, <1>4 DEF Chained
<1>6. ASSUME r # <<>> PROVE s # <<>> /\ r[j] = s[n]
  <2>1. j # 0
    BY <1>1, <1>6, EmptySeq
  <2>2. j \in 1..j /\ j + (n - j) = n /\ n # 0
    BY <1>3, <2>1
  <2>3. s # <<>>
    BY <1>1, <2>2, EmptySeq
  <2> QED BY <1>3, <2>2, <2>3
<1> QED BY <1>1, <1>5, <1>6

\* A chain goes on with a record of its last one's hash.
LEMMA ChainedAdd ==
  ASSUME NEW s \in Seq(Entries), NEW e \in Entries, NEW r, r = Append(s, e), Chained(s),
         s # <<>> => e.prev = s[Len(s)].id
  PROVE Chained(r) /\ r[Len(r)] = e
<1>1. PICK n \in Nat : n = Len(s)
  BY LenProperties
<1>2. \A i \in 2..n : s[i].prev = s[i - 1].id
  BY <1>1 DEF Chained
<1>3. Len(r) = n + 1 /\ r[n + 1] = e /\ \A k \in 1..n : r[k] = s[k]
  BY <1>1, AddsLast
<1>4. ASSUME NEW i \in 2..(n + 1) PROVE r[i].prev = r[i - 1].id
  <2>1. CASE i \in 2..n
    <3>1. i \in 1..n /\ i - 1 \in 1..n
      BY <2>1
    <3> QED BY <1>2, <1>3, <2>1, <3>1
  <2>2. CASE i = n + 1 /\ n # 0
    <3>1. s # <<>> /\ n \in 1..n /\ i - 1 = n
      BY <1>1, <2>2, EmptySeq
    <3> QED BY <1>1, <1>3, <2>2, <3>1
  <2>3. i \in 2..n \/ (i = n + 1 /\ n # 0)
    BY ONLY n \in Nat, i \in 2..(n + 1)
  <2> QED BY ONLY <2>1, <2>2, <2>3
<1> QED BY <1>3, <1>4 DEF Chained

\* The last record is that of the files up to keep, if they hold any.
LEMMA LastOfBoth ==
  ASSUME NEW a \in Seq(Entries), NEW b \in Seq(Entries), b # <<>>
  PROVE a \o b # <<>> /\ (a \o b)[Len(a \o b)] = b[Len(b)]
<1>1. PICK i \in Nat, j \in Nat : i = Len(a) /\ j = Len(b)
  BY LenProperties
<1>2. j # 0
  BY <1>1, EmptySeq
<1>3. /\ a \o b \in Seq(Entries) /\ Len(a \o b) = i + j
      /\ \A k \in 1..(i + j) : (a \o b)[k] = IF k <= i THEN a[k] ELSE b[k - i]
  BY <1>1, ConcatProperties
<1>4. i + j \in 1..(i + j) /\ ~(i + j <= i) /\ (i + j) - i = j /\ i + j # 0
  BY <1>2
<1>5. Len(<<>>) = 0
  BY EmptySeq
<1> QED BY <1>1, <1>3, <1>4, <1>5

\* The last place of the walk.
LEMMA LastText ==
  ASSUME NEW S, NEW f, NEW x \in S, S \subseteq Spots, IsFiniteSet(S),
         \A a \in S : f[a[1]][a[2]] \in Entries,
         \A a \in S : a = x \/ Before(a, x)
  PROVE Text(f, S)[Len(Text(f, S))] = f[x[1]][x[2]]
<1>1. PICK N \in Nat : N = Cardinality(S)
  BY FS_CardinalityType
<1>2. /\ \A k \in 1..N : Walk(S)[k] \in S /\ Rank(S, Walk(S)[k]) = k - 1
      /\ \E k \in 1..N : Walk(S)[k] = x
  BY <1>1, WalkLists
<1>3. PICK k \in 1..N : Walk(S)[k] = x
  BY <1>2
<1>4. k = N
  <2> SUFFICES ASSUME k # N PROVE FALSE
    OBVIOUS
  <2>1. k + 1 \in 1..N
    OBVIOUS
  <2>2. PICK y \in S : y = Walk(S)[k + 1]
    BY <1>2, <2>1
  <2>3. Rank(S, x) = k - 1 /\ Rank(S, y) = k
    BY <1>2, <1>3, <2>1, <2>2
  <2>4. Rank(S, x) < Rank(S, y)
    BY <2>3
  <2>5. Before(x, y)
    BY <2>4, RankNumbers
  <2>6. y = x \/ Before(y, x)
    OBVIOUS
  <2> QED BY <2>5, <2>6, WalkOrder
<1>5. Len(Text(f, S)) = N /\ \A j \in 1..N : Text(f, S)[j] = f[Walk(S)[j][1]][Walk(S)[j][2]]
  BY <1>1, TextType
<1> QED BY <1>3, <1>4, <1>5

LEMMA LastRecord ==
  ASSUME Form', NEW x \in All', \A a \in All' : a = x \/ Before(a, x)
  PROVE Records'[Len(Records')] = file'[x[1]][x[2]]
<1>1. /\ All' \subseteq Spots /\ IsFiniteSet(All') /\ Records' = Text(file', All')
      /\ \A a \in All' : file'[a[1]][a[2]] \in Entries
  BY RecordsNext
<1>2. PICK S : S = All'
  OBVIOUS
<1>3. PICK f : f = file'
  OBVIOUS
<1>4. /\ x \in S /\ S \subseteq Spots /\ IsFiniteSet(S)
      /\ \A a \in S : f[a[1]][a[2]] \in Entries
      /\ \A a \in S : a = x \/ Before(a, x)
  BY <1>1, <1>2, <1>3
<1>5. Text(f, S)[Len(Text(f, S))] = f[x[1]][x[2]]
  BY ONLY <1>4, LastText
<1> QED BY <1>1, <1>2, <1>3, <1>5

\* The hash of a sound file is that of its last record.
LEMMA HashOfLast ==
  ASSUME NEW f, NEW g, g = (IF Torn(f) THEN Cut(f) ELSE f), Lined(g), Sound(g)
  PROVE /\ g = <<>> => LastHash(f) = Genesis
        /\ g # <<>> => \E n \in 1..Len(g) :
             /\ g[n] \in Entries /\ LastHash(f) = g[n].id
             /\ \A i \in 1..Len(g) : g[i].kind = "record" => i <= n
<1> DEFINE n == IF g # <<>> /\ g[Len(g)] = Newline THEN Len(g) - 1 ELSE Len(g)
<1>1. LastHash(f) = IF n > 0 /\ Whole(g, n) THEN g[n].id ELSE Genesis
  BY DEF LastHash
<1>2. g \in Seq(Pieces) /\ Len(g) \in Nat
  BY LenProperties DEF Lined
<1>3. CASE g = <<>>
  <2>1. Len(<<>>) = 0
    BY EmptySeq
  <2>2. n = 0
    BY <1>3, <2>1
  <2> HIDE DEF n
  <2> QED BY <1>1, <1>3, <2>2
<1>4. CASE g # <<>>
  <2>1. PICK m \in Nat \ {0} : m = Len(g)
    BY <1>2, <1>4, EmptySeq
  <2>2. g[m] = Newline <=> ~Odd(m)
    BY <2>1 DEF Lined
  <2>3. n = IF Odd(m) THEN m ELSE m - 1
    BY <1>4, <2>1, <2>2
  <2> HIDE DEF n
  <2>4. n \in 1..m /\ Odd(n)
    <3>1. CASE Odd(m)
      <4>1. n = m
        BY <2>3, <3>1
      <4> QED BY <3>1, <4>1
    <3>2. CASE ~Odd(m)
      <4>1. m # 1 /\ Odd(m - 1)
        BY <3>2, Parity
      <4>2. n = m - 1
        BY <2>3, <3>2
      <4>3. n \in 1..m
        BY <4>1, <4>2
      <4> QED BY <4>1, <4>2, <4>3
    <3> QED BY <3>1, <3>2
  <2>5. g[n] \in Pieces /\ g[n] # Newline /\ g[n].kind # "fragment"
    BY <1>2, <2>1, <2>4, ElementOfSeq DEF Lined, Sound
  <2>6. PICK x \in Pieces : x = g[n]
    BY <2>5
  <2>7. x \in Entries /\ x.kind = "record"
    BY <2>5, <2>6, Kinds
  <2>8. Whole(g, n)
    BY <2>1, <2>4, <2>6, <2>7, LinedWhole
  <2>9. LastHash(f) = g[n].id
    BY <1>1, <2>4, <2>8
  <2>10. ASSUME NEW i \in 1..Len(g), g[i].kind = "record" PROVE i <= n
    <3>1. g[i] # Newline
      BY <2>10 DEF Newline
    <3>2. i # m \/ Odd(m)
      BY <2>1, <2>2, <3>1
    <3> QED BY <2>1, <2>3, <3>2
  <2> QED BY <2>1, <2>4, <2>6, <2>7, <2>9, <2>10
<1> QED BY <1>3, <1>4

\* A start takes the chain up where it ends.
LEMMA StartTakesUp ==
  ASSUME Form, Form', Clean, Start, ~uncut', ~astray', Records' # <<>>
  PROVE last' = Records'[Len(Records')].id
<1>1. /\ pc = "down" /\ pc' = "idle" /\ last' = ChainEnd(Live, file[1])
      /\ ~(LastHash(Live) = Genesis /\ file[1] = Missing /\ Records # <<>>)
      /\ keep' \in Keeps
  BY DEF Start
<1>2. /\ Clean' /\ file'[0] = Left(TRUE) /\ Lined(Live)
      /\ Lined(file'[0]) /\ file'[0] # Missing
      /\ file'[0] = IF Torn(Live) THEN Cut(Live) ELSE Live
  BY CleanStart, StartLive DEF Left
<1>3. /\ 0 \in Slots /\ 1 \in Slots /\ keep' \in 1..Most /\ Most \in Nat
      /\ \A n \in Slots : n # 0 => file'[n] = file[n]
  <2>1. 0 \in Slots /\ 1 \in Slots /\ Most \in Nat /\ file \in [Slots -> Seq(Pieces) \cup {Missing}]
    BY FormFacts
  <2>2. \E f : file' = [file EXCEPT ![0] = f]
    BY DEF Start
  <2> QED BY <1>1, <2>1, <2>2, Reach
<1>4. \A n \in Slots : file'[n] # Missing => Sound(file'[n])
  BY <1>1, <1>2 DEF Clean, Sound
<1>5. /\ \A a \in Spots : a \in All' <=> a[1] \in 0..Most /\ Holds(file', a[1], a[2])
      /\ All' \subseteq Spots
  BY <1>1, PlainNext, RecordsNext
<1>6. CASE file'[0] # <<>>
  <2>1. PICK n \in 1..Len(file'[0]) :
          /\ file'[0][n] \in Entries /\ LastHash(Live) = file'[0][n].id
          /\ \A i \in 1..Len(file'[0]) : file'[0][i].kind = "record" => i <= n
    BY <1>2, <1>3, <1>4, <1>6, HashOfLast
  <2>2. PICK x \in Spots : x = <<0, n>>
    <3>1. Len(file'[0]) \in Nat
      BY <1>2, LenProperties DEF Lined
    <3>2. n \in Nat
      BY <3>1
    <3>3. <<0, n>> \in Spots
      BY <3>2 DEF Spots
    <3> QED BY <3>3
  <2>3. x \in All'
    <3>1. file'[0][n].kind = "record"
      BY <2>1, EntryKinds
    <3>2. Holds(file', 0, n)
      BY <1>2, <3>1 DEF Holds
    <3>3. 0 \in 0..Most /\ x[1] = 0 /\ x[2] = n
      BY <1>3, <2>2
    <3> QED BY <1>5, <3>2, <3>3
  <2>4. ASSUME NEW a \in All' PROVE a = x \/ Before(a, x)
    <3>1. PICK k \in Nat, i \in Nat : a = <<k, i>>
      BY <1>5 DEF Spots
    <3>2. k = 0 => i <= n
      BY <1>5, <2>1, <3>1 DEF Holds
    <3> QED BY <2>2, <3>1, <3>2 DEF Before
  <2>5. Records'[Len(Records')] = file'[0][n]
    BY <2>2, <2>3, <2>4, LastRecord
  <2>6. LastHash(Live) # Genesis
    BY <2>1, EntryKinds DEF Ids, Genesis
  <2> QED BY <1>1, <2>1, <2>5, <2>6 DEF ChainEnd
<1>7. CASE file'[0] = <<>>
  <2>1. LastHash(Live) = Genesis
    BY <1>2, <1>3, <1>4, <1>7, HashOfLast
  <2>2. file[1] # Missing
    <3> SUFFICES ASSUME file[1] = Missing PROVE FALSE
      OBVIOUS
    <3>1. Records = <<>>
      BY <1>1, <2>1
    <3> QED BY <3>1, StartRecords
  <2>3. last' = LastHash(file[1])
    BY <1>1, <2>1, <2>2 DEF ChainEnd
  <2>4. /\ Lined(file[1]) /\ ~Odd(Len(file[1])) /\ file[1] # <<>>
        /\ file'[1] = file[1] /\ Sound(file[1])
    <3>1. file'[1] = file[1]
      BY <1>3
    <3>2. Lined(file[1]) /\ ~Ragged(file[1]) /\ file[1] # <<>>
      BY <1>3, <2>2 DEF Form, Shapes
    <3> QED BY <1>3, <1>4, <2>2, <3>1, <3>2 DEF Ragged
  <2>5. ~Torn(file[1])
    BY <2>4, LinedCut
  <2>6. PICK n \in 1..Len(file[1]) :
          /\ file[1][n] \in Entries /\ LastHash(file[1]) = file[1][n].id
          /\ \A i \in 1..Len(file[1]) : file[1][i].kind = "record" => i <= n
    BY <2>4, <2>5, HashOfLast
  <2>7. PICK x \in Spots : x = <<1, n>>
    <3>1. Len(file[1]) \in Nat
      BY <2>4, LenProperties DEF Lined
    <3>2. n \in Nat
      BY <3>1
    <3>3. <<1, n>> \in Spots
      BY <3>2 DEF Spots
    <3> QED BY <3>3
  <2>8. x \in All'
    <3>1. Holds(file', 1, n) /\ 1 \in 0..Most
      BY <1>3, <2>2, <2>4, <2>6, EntryKinds DEF Holds
    <3> QED BY <1>5, <2>7, <3>1
  <2>9. ASSUME NEW a \in All' PROVE a = x \/ Before(a, x)
    <3>1. PICK k \in Nat, i \in Nat : a = <<k, i>>
      BY <1>5 DEF Spots
    <3>2. Holds(file', k, i)
      BY <1>5, <3>1
    <3>3. k # 0
      <4>1. Len(<<>>) = 0
        BY EmptySeq
      <4> QED BY <1>7, <3>2, <4>1 DEF Holds
    <3>4. k = 1 => i <= n
      BY <2>4, <2>6, <3>2 DEF Holds
    <3> QED BY <2>7, <3>1, <3>3, <3>4 DEF Before
  <2>10. Records'[Len(Records')] = file'[1][n]
    BY <2>7, <2>8, <2>9, LastRecord
  <2> QED BY <2>3, <2>4, <2>6, <2>10
<1> QED BY <1>6, <1>7

LEMMA LinkedStep ==
  Form /\ Form' /\ Numbered /\ Clean /\ Linked /\ [Next]_vars /\ ~uncut' /\ ~astray' => Linked'
<1> SUFFICES ASSUME Form, Form', Numbered, Clean, Linked, [Next]_vars, ~uncut', ~astray'
             PROVE Linked'
  OBVIOUS
<1>1. /\ Recent \in Seq(Entries) /\ Recent' \in Seq(Entries) /\ Surplus' \in Seq(Entries)
      /\ Records' = Surplus' \o Recent' /\ Chained(Recent)
  BY RecordsHere, RecordsNext DEF Linked
<1>2. PICK s \in Seq(Entries) : s = Recent
  BY <1>1
<1>3. PICK r \in Seq(Entries) : r = Recent'
  BY <1>1
<1>4. CASE Suffix(Recent', Recent) /\ (~Start => last' = last)
  <2>1. Chained(r) /\ (r # <<>> => s # <<>> /\ r[Len(r)] = s[Len(s)])
    BY <1>1, <1>2, <1>3, <1>4, ChainedSuffix
  <2>2. ASSUME pc' # "down", Recent' # <<>> PROVE last' = Recent'[Len(Recent')].id
    <3>1. CASE Start
      <4>1. Records' # <<>> /\ Records'[Len(Records')] = Recent'[Len(Recent')]
        BY <1>1, <2>2, LastOfBoth
      <4> QED BY <3>1, <4>1, StartTakesUp
    <3>2. CASE ~Start
      <4>1. pc # "down"
        BY <2>2, <3>2 DEF Next, vars, Begin, EndTorn, Fits, Full, Rename, Unlink, Reopen, Write,
                          CutBack, Crash
      <4> QED BY <1>2, <1>3, <1>4, <2>1, <2>2, <3>2, <4>1 DEF Linked
    <3> QED BY <3>1, <3>2
  <2> QED BY <1>3, <2>1, <2>2 DEF Linked, Chained
<1>5. CASE /\ Adds(Record(seq, last)) /\ pc \in {"cut", "write"}
           /\ (pc' = "idle" /\ last' = seq) \/ pc' = "down"
  <2>1. PICK e \in Entries : e = Record(seq, last)
    BY <1>5 DEF Adds
  <2>2. e.id = seq /\ e.prev = last
    BY <2>1 DEF Record
  <2>3. s # <<>> => e.prev = s[Len(s)].id
    BY <1>2, <1>5, <2>2 DEF Linked
  <2>4. Chained(r) /\ r[Len(r)] = e
    BY <1>1, <1>2, <1>3, <1>5, <2>1, <2>3, ChainedAdd DEF Adds
  <2> QED BY <1>3, <1>5, <2>2, <2>4 DEF Linked, Chained
<1> QED BY <1>4, <1>5, NewestRecord

\* With no file above keep the records are those up to it.
LEMMA SurplusEmpty ==
  ASSUME Form', \A n \in Slots : n > keep' => file'[n] = Missing
  PROVE Records' = Recent'
<1>1. /\ Rest' \subseteq Spots /\ Surplus' = Text(file', Rest')
      /\ Recent' \in Seq(Entries) /\ Records' = Surplus' \o Recent'
  BY RecordsNext
<1>2. keep' \in 1..Most /\ Most \in Nat
  BY Reach DEF Form, TypeOK
<1>3. ASSUME NEW a \in Rest' PROVE FALSE
  <2>1. a[1] \in 1..Most /\ a[1] \notin 1..keep' /\ file'[a[1]] # Missing
    BY <1>1, <1>2 DEF Rest, Beyond, Older
  <2>2. a[1] \in Slots /\ a[1] > keep'
    BY <1>2, <2>1 DEF Slots
  <2> QED BY <2>1, <2>2
<1>4. Rest' = {}
  BY <1>3
<1>5. Surplus' = <<>>
  BY <1>1, <1>4, TextEmpty
<1> QED BY <1>1, <1>5, ConcatEmptySeq

\* What a step does to the records of all the files while none are gone from
\* the middle of them.
LEMMA NoneBetween ==
  ASSUME Form, Form', Numbered, [Next]_vars, ~uncut', ~split'
  PROVE \/ Records' = Recent'
        \/ Records' = Records /\ ~split /\ (~Start => last' = last)
        \/ /\ Records' = Append(Records, Record(seq, last)) /\ Record(seq, last) \in Entries
           /\ ~split /\ pc \in {"cut", "write"}
           /\ (pc' = "idle" /\ last' = seq) \/ pc' = "down"
<1>1. /\ Recent \in Seq(Entries) /\ Surplus \in Seq(Entries)
      /\ Records = Surplus \o Recent /\ Records' = Surplus' \o Recent'
  BY RecordsHere, RecordsNext
<1>2. /\ file \in [Slots -> Seq(Pieces) \cup {Missing}]
      /\ keep \in 1..Most /\ Most \in Nat /\ \A n \in Slots : n \in Nat
  BY FormFacts
<1>3. CASE Unlink
  <2>1. Recent' = Recent /\ last' = last /\ keep' = keep
    BY <1>3, UnlinkRecords DEF Unlink
  <2>2. CASE Surplus' = Surplus /\ split' = split
    BY <1>1, <2>1, <2>2
  <2>3. CASE Drop(slot) /\ file' = [file EXCEPT ![slot] = Missing] /\ file[slot] # Missing
    <3>1. \A n \in Slots : n > keep /\ n < slot => file[n] = Missing
      BY <1>3 DEF Unlink, Form, Making
    <3>2. \A n \in Slots : n > slot => file[n] = Missing
      BY <2>3 DEF Drop
    <3>3. slot \in Nat
      BY <1>2 DEF Form, TypeOK
    <3>4. \A n \in Slots : n > keep' => file'[n] = Missing
      BY <1>2, <2>1, <2>3, <3>1, <3>2, <3>3
    <3> QED BY <3>4, SurplusEmpty
  <2> QED BY <1>3, <2>2, <2>3, UnlinkSurplus
<1>4. CASE Rename
  <2>1. last' = last /\ keep' = keep /\ slot \in 1..keep
    BY <1>4 DEF Rename, Form, TypeOK
  <2>2. Surplus' = Surplus
    <3>1. ~Unlink /\ ~Start
      BY <1>4 DEF Rename, Unlink, Start
    <3> QED BY <3>1, SurplusStep
  <2>3. CASE Recent' = Recent /\ split' = split
    BY <1>1, <2>1, <2>2, <2>3
  <2>4. CASE slot = keep /\ file[slot] # Missing /\ Drop(slot)
    <3>1. \A n \in Slots : n > keep => file[n] = Missing
      BY <2>4 DEF Drop
    <3>2. file' = file \/ file' = [file EXCEPT ![slot] = file[slot - 1], ![slot - 1] = Missing]
      BY <1>4 DEF Rename, Skip
    <3>3. \A n \in Slots : n > keep => n # slot /\ n # slot - 1
      BY <1>2, <2>1
    <3>4. \A n \in Slots : n > keep' => file'[n] = Missing
      BY <1>2, <2>1, <3>1, <3>2, <3>3
    <3> QED BY <3>4, SurplusEmpty
  <2> QED BY <1>4, <2>3, <2>4, RenameRecords
<1>5. CASE Start
  <2>1. split' = split
    BY <1>5 DEF Start
  <2> QED BY <1>5, <2>1, StartRecords
<1>6. CASE ~Unlink /\ ~Rename /\ ~Start
  <2>1. Surplus' = Surplus
    BY <1>6, SurplusStep
  <2>2. split' = split
    BY <1>6 DEF Next, vars, history, Begin, EndTorn, Fits, Full, Reopen, Write, CutBack, Crash,
                Accept, Refuse
  <2>3. CASE Recent' = Recent /\ last' = last
    BY <1>1, <2>1, <2>2, <2>3
  <2>4. CASE /\ Adds(Record(seq, last)) /\ pc \in {"cut", "write"}
             /\ (pc' = "idle" /\ last' = seq) \/ pc' = "down"
    <3>1. PICK e \in Entries : e = Record(seq, last)
      BY <2>4 DEF Adds
    <3>2. Surplus \o Append(Recent, e) = Append(Surplus \o Recent, e)
      BY <1>1, AppendBehind
    <3>3. Records' = Append(Records, Record(seq, last))
      BY <1>1, <2>1, <2>4, <3>1, <3>2 DEF Adds
    <3> QED BY <2>2, <2>4, <3>1, <3>3
  <2> QED BY <1>6, <2>3, <2>4, NewestRecord
<1> QED BY <1>3, <1>4, <1>5, <1>6

LEMMA JoinedStep ==
  /\ Form /\ Form' /\ Numbered /\ Clean /\ Joined /\ Linked'
  /\ [Next]_vars /\ ~uncut' /\ ~astray'
  => Joined'
<1> SUFFICES ASSUME Form, Form', Numbered, Clean, Joined, Linked', [Next]_vars,
                    ~uncut', ~astray', ~split'
             PROVE /\ Chained(Records')
                   /\ pc' # "down" /\ Records' # <<>> => last' = Records'[Len(Records')].id
  BY DEF Joined, Chained
<1>1. CASE Records' = Recent'
  BY <1>1 DEF Linked, Chained
<1>2. CASE Records' = Records /\ ~split /\ (~Start => last' = last)
  <2>1. Chained(Records) /\ (pc # "down" /\ Records # <<>> => last = Records[Len(Records)].id)
    BY <1>2 DEF Joined
  <2>2. CASE Start
    BY <1>2, <2>1, <2>2, StartTakesUp
  <2>3. CASE ~Start
    <3>1. pc' # "down" => pc # "down"
      BY <2>3 DEF Next, vars, Begin, EndTorn, Fits, Full, Rename, Unlink, Reopen, Write,
                  CutBack, Crash
    <3> QED BY <1>2, <2>1, <2>3, <3>1
  <2> QED BY <2>2, <2>3
<1>3. CASE /\ Records' = Append(Records, Record(seq, last)) /\ Record(seq, last) \in Entries
           /\ ~split /\ pc \in {"cut", "write"}
           /\ (pc' = "idle" /\ last' = seq) \/ pc' = "down"
  <2>1. PICK s \in Seq(Entries) : s = Records
    BY RecordsHere
  <2>2. PICK e \in Entries : e = Record(seq, last)
    BY <1>3
  <2>3. PICK r : r = Records'
    OBVIOUS
  <2>4. e.id = seq /\ e.prev = last
    BY <2>2 DEF Record
  <2>5. Chained(s) /\ (s # <<>> => e.prev = s[Len(s)].id)
    BY <1>3, <2>1, <2>4 DEF Joined
  <2>6. Chained(r) /\ r[Len(r)] = e
    BY <1>3, <2>1, <2>2, <2>3, <2>5, ChainedAdd
  <2> QED BY <1>3, <2>3, <2>4, <2>6
<1> QED BY <1>1, <1>2, <1>3, NoneBetween

\* The invariant: what a torn line that stays, or a start that did not find the
\* end of the chain, may break is not asked for any more.
Sealed ==
  /\ Form /\ Numbered
  /\ ~uncut => Clean /\ Counted
  /\ ~uncut /\ ~astray => Linked /\ Joined

LEMMA SealedInit == Init => Sealed
<1> SUFFICES ASSUME Init PROVE Sealed
  OBVIOUS
<1>1. Form /\ Recent = <<>> /\ Len(<<>>) = 0
  BY FormInit, InitRecords, EmptySeq
<1>2. Numbered
  BY DEF Init, Numbered, Pending, Ended
<1>3. Clean
  BY <1>1 DEF Init, Clean
<1>4. Counted /\ Linked /\ Joined
  BY <1>1, InitRecords DEF Counted, Linked, Joined, Chained
<1> QED BY <1>1, <1>2, <1>3, <1>4 DEF Sealed

LEMMA SealedStep == Sealed /\ [Next]_vars => Sealed'
<1> SUFFICES ASSUME Sealed, [Next]_vars PROVE Sealed'
  OBVIOUS
<1>1. Form /\ Form' /\ Numbered /\ Numbered'
  BY FormStep, NumberedStep DEF Sealed
<1>2. (~uncut' => ~uncut) /\ (~astray' => ~astray)
  <2>1. CASE Start
    BY <2>1 DEF Start
  <2>2. CASE CutBack
    BY <2>2 DEF CutBack, Refuse
  <2>3. CASE ~Start /\ ~CutBack
    <3>1. uncut' = uncut /\ astray' = astray
      BY <2>3 DEF Next, vars, history, Begin, EndTorn, Fits, Full, Rename, Unlink, Reopen, Write,
                  Crash, Accept, Refuse
    <3> QED BY <3>1
  <2> QED BY <2>1, <2>2, <2>3
<1>3. ~uncut' => Clean' /\ Counted'
  BY <1>1, <1>2, CleanStep, CountedStep DEF Sealed
<1>4. ~uncut' /\ ~astray' => Linked' /\ Joined'
  BY <1>1, <1>2, LinkedStep, JoinedStep DEF Sealed
<1> QED BY <1>1, <1>3, <1>4 DEF Sealed

LEMMA SealedInvariant == Spec => []Sealed
BY SealedInit, SealedStep, PTL DEF Spec

\* Whatever crashes, short writes, failed renames and new keeps a log went
\* through, its files verify at any time, as long as every torn line could be
\* cut; under a lowered keep, until a rotation drops records that a file above
\* keep is older than, from when on those up to keep do:
\* src/src/mcp_airlock/audit_cli.py:104-173.
THEOREM AlwaysVerifies == Spec => []VerifyPasses
<1>1. Sealed => VerifyPasses
  <2> SUFFICES ASSUME Sealed, pc \notin {"down", "cut"}, ~uncut, ~astray
               PROVE ~Garbage /\ Chained(Recent) /\ (~split => Verified)
    BY DEF VerifyPasses
  <2>1. Form /\ Clean /\ Chained(Recent) /\ (~split => Chained(Records))
    BY DEF Sealed, Linked, Joined
  <2>2. ASSUME NEW n \in Files, NEW i \in DOMAIN Settled(n)
        PROVE Settled(n)[i] = Newline \/ Whole(Settled(n), i)
    <3>1. Settled(n) = file[n] /\ file[n] # Missing /\ n \in Slots
      BY <2>1, FormFacts DEF Settled, Files
    <3>2. Lined(file[n])
      BY <2>1, <3>1 DEF Form, Shapes
    <3>3. i \in 1..Len(file[n]) /\ file[n] \in Seq(Pieces)
      BY <3>1, <3>2, LenProperties DEF Lined
    <3>4. file[n][i] \in Pieces /\ file[n][i].kind # "fragment"
      BY <2>1, <3>1, <3>3, ElementOfSeq DEF Clean
    <3>5. file[n][i] = Newline \/ file[n][i].kind = "record"
      BY <3>4, Kinds
    <3> QED BY <3>1, <3>2, <3>3, <3>5, LinedWhole
  <2>3. ~Garbage
    BY <2>2 DEF Garbage
  <2> QED BY <2>1, <2>3 DEF Verified
<1> QED BY <1>1, SealedInvariant, PTL

\* A record whose write raised never shows up in the log:
\* src/src/mcp_airlock/audit.py:257-282.
THEOREM RefusedStaysOut == Spec => []RefusedNotRecorded
<1>1. Sealed => RefusedNotRecorded
  <2> SUFFICES ASSUME Sealed, ~uncut, NEW r \in Range(Records) PROVE r.id \notin refused
    BY DEF RefusedNotRecorded
  <2>1. Records \in Seq(Entries) /\ Counted
    BY RecordsHere DEF Sealed
  <2>2. PICK k \in DOMAIN Records : r = Records[k]
    BY DEF Range
  <2>3. k \in 1..Len(Records)
    BY <2>1, <2>2, LenProperties
  <2> QED BY <2>1, <2>2, <2>3 DEF Counted
<1> QED BY <1>1, SealedInvariant, PTL

=============================================================================
