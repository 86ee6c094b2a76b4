-------------------------------- MODULE Sums --------------------------------
(***************************************************************************)
(* Sums over finite sets, SumFunctionOnSet of the community modules: that  *)
(* its recursion has a solution, and the laws the window and the audit     *)
(* mirror need of it.  An induction over finite sets is written as a       *)
(* smallest counterexample, a set of sets rather than a predicate.         *)
(***************************************************************************)
EXTENDS Functions, FiniteSetTheorems, TLAPS

Pick(s) == CHOOSE x \in s : TRUE

\* g holds the sum of f over every subset of T.
Sums(g, f, T) ==
  g = [s \in SUBSET T |-> IF s = {} THEN 0 ELSE f[Pick(s)] + g[s \ {Pick(s)}]]

TheSums(f, T) == CHOOSE g : Sums(g, f, T)

LEMMA SumUnfold ==
  ASSUME NEW f, NEW S
  PROVE  SumFunctionOnSet(f, S) = TheSums(f, S)[S]
BY DEF SumFunctionOnSet, FoldFunctionOnSet, MapThenFoldSet, TheSums, Sums, Pick

LEMMA PickIn ==
  ASSUME NEW S, S # {}
  PROVE  Pick(S) \in S /\ S \ {Pick(S)} \subseteq S /\ S \ {Pick(S)} # S
BY DEF Pick

\* A set of subsets of a finite set has a smallest one.
LEMMA SmallestSet ==
  ASSUME NEW S, IsFiniteSet(S), NEW Bad, Bad \subseteq SUBSET S, Bad # {}
  PROVE  \E T \in Bad : \A U \in Bad : U \subseteq T => U = T
<1>1. IsWellFoundedOn(StrictSubsetOrdering(S), SUBSET S)
  BY FS_StrictSubsetOrderingWellFounded, FS_FiniteSubsetsOfFinite
<1>0. Bad \subseteq SUBSET S
  OBVIOUS
<1>2. PICK T \in Bad : \A U \in Bad : ~ (<<U, T>> \in StrictSubsetOrdering(S))
  BY <1>1, WFMin
<1>3. \A U \in Bad : U \subseteq T => U = T
  <2> SUFFICES ASSUME NEW U \in Bad, U \subseteq T, U # T
               PROVE  <<U, T>> \in StrictSubsetOrdering(S)
    BY <1>2
  <2>1. <<U, T>> \in (SUBSET S) \X (SUBSET S)
    OBVIOUS
  <2> QED BY <2>1 DEF StrictSubsetOrdering
<1> QED BY <1>3

\* Two solutions of the recursion agree.
LEMMA SumsAgree ==
  ASSUME NEW f, NEW T, IsFiniteSet(T), NEW U, U \subseteq T,
         NEW g, NEW h, Sums(g, f, T), Sums(h, f, U)
  PROVE  \A s \in SUBSET U : g[s] = h[s]
<1> DEFINE Bad == {s \in SUBSET U : g[s] # h[s]}
<1> SUFFICES ASSUME Bad # {} PROVE FALSE
  OBVIOUS
<1>1. IsFiniteSet(U) /\ Bad \subseteq SUBSET U
  BY FS_Subset
<1>2. PICK s \in Bad : \A r \in Bad : r \subseteq s => r = s
  <2> HIDE DEF Bad
  <2> QED BY <1>1, SmallestSet
<1>3. s # {}
  BY DEF Sums
<1> DEFINE r == s \ {Pick(s)}
<1>4. r \subseteq s /\ r # s
  BY <1>3, PickIn
<1>5. g[r] = h[r]
  BY <1>2, <1>4
<1>6. g[s] = f[Pick(s)] + g[r]
  BY <1>3 DEF Sums
<1>7. h[s] = f[Pick(s)] + h[r]
  BY <1>3 DEF Sums
<1> QED BY <1>5, <1>6, <1>7

\* The recursion has a solution.
LEMMA SumsExist ==
  ASSUME NEW f, NEW S, IsFiniteSet(S)
  PROVE  \A T \in SUBSET S : Sums(TheSums(f, T), f, T)
<1> DEFINE Bad == {T \in SUBSET S : ~ \E g : Sums(g, f, T)}
<1>1. SUFFICES Bad = {}
  BY DEF TheSums
<1> SUFFICES ASSUME Bad # {} PROVE FALSE
  OBVIOUS
<1>0. Bad \subseteq SUBSET S
  OBVIOUS
<1>2. PICK T \in Bad : \A U \in Bad : U \subseteq T => U = T
  <2> HIDE DEF Bad
  <2> QED BY <1>0, SmallestSet
<1> DEFINE less(s) == s \ {Pick(s)}
           g == [s \in SUBSET T |-> IF s = {} THEN 0
                                    ELSE f[Pick(s)] + TheSums(f, less(s))[less(s)]]
<1>3. ASSUME NEW s \in SUBSET T, s # {}
      PROVE  Sums(TheSums(f, less(s)), f, less(s)) /\ less(s) \in SUBSET T
  <2>1. less(s) \subseteq T /\ less(s) # T
    BY <1>3, PickIn
  <2>2. less(s) \in SUBSET S /\ less(s) \notin Bad
    BY <1>2, <2>1
  <2> QED BY <2>1, <2>2 DEF TheSums
<1>4. ASSUME NEW s \in SUBSET T, s # {}
      PROVE  g[less(s)] = TheSums(f, less(s))[less(s)]
  <2> DEFINE r == less(s)
  <2>1. Sums(TheSums(f, r), f, r) /\ r \in SUBSET T
    BY <1>3, <1>4
  <2>2. CASE r = {}
    BY <2>1, <2>2 DEF Sums
  <2>3. CASE r # {}
    <3>1. Sums(TheSums(f, less(r)), f, less(r)) /\ less(r) \subseteq r
      BY <1>3, <2>1, <2>3, PickIn
    <3>2. IsFiniteSet(r)
      BY <2>1, FS_Subset
    <3>3. TheSums(f, r)[less(r)] = TheSums(f, less(r))[less(r)]
      <4> HIDE DEF less, r
      <4> QED BY <2>1, <3>1, <3>2, SumsAgree
    <3>4. TheSums(f, r)[r] = f[Pick(r)] + TheSums(f, r)[less(r)]
      BY <2>1, <2>3 DEF Sums
    <3>5. g[r] = f[Pick(r)] + TheSums(f, less(r))[less(r)]
      BY <2>1, <2>3
    <3> QED BY <3>3, <3>4, <3>5
  <2> QED BY <2>2, <2>3
<1>5. Sums(g, f, T)
  <2>1. g = [s \in SUBSET T |-> IF s = {} THEN 0 ELSE f[Pick(s)] + g[less(s)]]
    BY <1>4
  <2> QED BY <2>1 DEF Sums
<1> QED BY <1>2, <1>5

\* An empty sum is zero.
THEOREM SumEmpty ==
  ASSUME NEW f
  PROVE  SumFunctionOnSet(f, {}) = 0
<1>1. Sums(TheSums(f, {}), f, {})
  BY SumsExist, FS_EmptySet
<1> QED BY <1>1, SumUnfold DEF Sums

LEMMA SumPick ==
  ASSUME NEW f, NEW S, IsFiniteSet(S), S # {}
  PROVE  SumFunctionOnSet(f, S) = f[Pick(S)] + SumFunctionOnSet(f, S \ {Pick(S)})
<1> DEFINE r == S \ {Pick(S)}
<1>1. Sums(TheSums(f, S), f, S) /\ Sums(TheSums(f, r), f, r)
  BY SumsExist
<1>2. r \in SUBSET S
  OBVIOUS
<1>3. TheSums(f, S)[r] = TheSums(f, r)[r]
  <2> HIDE DEF r
  <2> QED BY <1>1, <1>2, SumsAgree
<1>4. TheSums(f, S)[S] = f[Pick(S)] + TheSums(f, S)[r]
  BY <1>1 DEF Sums
<1> QED BY <1>3, <1>4, SumUnfold

-----------------------------------------------------------------------------
(* Sums of integers *)

\* A finite sum of integers is an integer.
THEOREM SumInt ==
  ASSUME NEW f, NEW S, IsFiniteSet(S), \A x \in S : f[x] \in Int
  PROVE  SumFunctionOnSet(f, S) \in Int
<1> DEFINE Bad == {T \in SUBSET S : SumFunctionOnSet(f, T) \notin Int}
<1>1. Bad \subseteq SUBSET S
  OBVIOUS
<1> SUFFICES ASSUME Bad # {} PROVE FALSE
  OBVIOUS
<1>2. PICK T \in Bad : \A U \in Bad : U \subseteq T => U = T
  <2> HIDE DEF Bad
  <2> QED BY <1>1, SmallestSet
<1>3. T # {} /\ IsFiniteSet(T)
  <2>1. SumFunctionOnSet(f, {}) \in Int
    BY SumEmpty
  <2> QED BY <1>2, <2>1, FS_Subset
<1>4. SumFunctionOnSet(f, T \ {Pick(T)}) \in Int /\ f[Pick(T)] \in Int
  BY <1>2, <1>3, PickIn
<1> QED BY <1>3, <1>4, SumPick

\* Terms that are zero add nothing.
THEOREM SumZero ==
  ASSUME NEW f, NEW S, IsFiniteSet(S), \A x \in S : f[x] = 0
  PROVE  SumFunctionOnSet(f, S) = 0
<1> DEFINE Bad == {T \in SUBSET S : SumFunctionOnSet(f, T) # 0}
<1>1. Bad \subseteq SUBSET S
  OBVIOUS
<1> SUFFICES ASSUME Bad # {} PROVE FALSE
  OBVIOUS
<1>2. PICK T \in Bad : \A U \in Bad : U \subseteq T => U = T
  <2> HIDE DEF Bad
  <2> QED BY <1>1, SmallestSet
<1>3. T # {} /\ IsFiniteSet(T)
  <2>1. SumFunctionOnSet(f, {}) = 0
    BY SumEmpty
  <2> QED BY <1>2, <2>1, FS_Subset
<1>4. SumFunctionOnSet(f, T \ {Pick(T)}) = 0 /\ f[Pick(T)] = 0
  BY <1>2, <1>3, PickIn
<1> QED BY <1>2, <1>3, <1>4, SumPick

\* Any element may be taken out of a sum.
THEOREM SumRemove ==
  ASSUME NEW f, NEW S, IsFiniteSet(S), \A x \in S : f[x] \in Int
  PROVE  \A x \in S : SumFunctionOnSet(f, S) = f[x] + SumFunctionOnSet(f, S \ {x})
<1> DEFINE Splits(T) == \A x \in T : SumFunctionOnSet(f, T) = f[x] + SumFunctionOnSet(f, T \ {x})
           Bad == {T \in SUBSET S : ~Splits(T)}
<1>1. Bad \subseteq SUBSET S
  OBVIOUS
<1> SUFFICES ASSUME Bad # {} PROVE FALSE
  OBVIOUS
<1>2. PICK T \in Bad : \A U \in Bad : U \subseteq T => U = T
  <2> HIDE DEF Bad
  <2> QED BY <1>1, SmallestSet
<1>3. \A U \in SUBSET T : U # T => Splits(U)
  <2> HIDE DEF Splits
  <2> QED BY <1>2
<1>4. PICK x \in T : SumFunctionOnSet(f, T) # f[x] + SumFunctionOnSet(f, T \ {x})
  BY <1>2
<1> DEFINE p == Pick(T)
<1>5. p \in T /\ IsFiniteSet(T)
  BY FS_Subset, PickIn
<1>6. SumFunctionOnSet(f, T) = f[p] + SumFunctionOnSet(f, T \ {p})
  BY <1>5, SumPick
<1> HIDE DEF p
<1>7. p # x
  BY <1>4, <1>6
<1>8. SumFunctionOnSet(f, T \ {p}) = f[x] + SumFunctionOnSet(f, (T \ {p}) \ {x})
  <2>1. Splits(T \ {p})
    <3> HIDE DEF Splits
    <3> QED BY <1>3, <1>5
  <2> QED BY <2>1, <1>7
<1>9. SumFunctionOnSet(f, T \ {x}) = f[p] + SumFunctionOnSet(f, (T \ {x}) \ {p})
  <2>1. Splits(T \ {x})
    <3> HIDE DEF Splits
    <3> QED BY <1>3
  <2> QED BY <2>1, <1>5, <1>7
<1>10. (T \ {x}) \ {p} = (T \ {p}) \ {x} /\ IsFiniteSet((T \ {p}) \ {x})
  BY <1>5, FS_Subset
<1>11. SumFunctionOnSet(f, (T \ {p}) \ {x}) \in Int /\ f[p] \in Int /\ f[x] \in Int
  BY <1>5, <1>10, SumInt
<1> DEFINE rest == SumFunctionOnSet(f, (T \ {p}) \ {x})
<1>12. SumFunctionOnSet(f, T) = f[p] + (f[x] + rest) /\ SumFunctionOnSet(f, T \ {x}) = f[p] + rest
  BY <1>6, <1>8, <1>9, <1>10
<1>13. rest \in Int
  BY <1>11
<1> HIDE DEF rest
<1>14. f[x] + (f[p] + rest) = f[p] + (f[x] + rest)
  BY <1>11, <1>13
<1> QED BY <1>4, <1>12, <1>14

\* One more element adds its term.
THEOREM SumAdd ==
  ASSUME NEW f, NEW S, IsFiniteSet(S), NEW x, x \notin S, f[x] \in Int,
         \A y \in S : f[y] \in Int
  PROVE  SumFunctionOnSet(f, S \cup {x}) = f[x] + SumFunctionOnSet(f, S)
<1>1. IsFiniteSet(S \cup {x}) /\ (S \cup {x}) \ {x} = S
  BY FS_AddElement
<1> QED BY <1>1, SumRemove

\* A sum grows with its terms.
THEOREM SumMonotone ==
  ASSUME NEW f, NEW g, NEW S, IsFiniteSet(S),
         \A x \in S : f[x] \in Int /\ g[x] \in Int /\ f[x] <= g[x]
  PROVE  SumFunctionOnSet(f, S) <= SumFunctionOnSet(g, S)
<1> DEFINE Bad == {T \in SUBSET S : ~ (SumFunctionOnSet(f, T) <= SumFunctionOnSet(g, T))}
<1>1. Bad \subseteq SUBSET S
  OBVIOUS
<1> SUFFICES ASSUME Bad # {} PROVE FALSE
  OBVIOUS
<1>2. PICK T \in Bad : \A U \in Bad : U \subseteq T => U = T
  <2> HIDE DEF Bad
  <2> QED BY <1>1, SmallestSet
<1>3. T # {} /\ IsFiniteSet(T)
  <2>1. SumFunctionOnSet(f, {}) <= SumFunctionOnSet(g, {})
    BY SumEmpty
  <2> QED BY <1>2, <2>1, FS_Subset
<1> DEFINE p == Pick(T)
<1>4. /\ p \in S /\ IsFiniteSet(T \ {p})
      /\ SumFunctionOnSet(f, T \ {p}) <= SumFunctionOnSet(g, T \ {p})
  BY <1>2, <1>3, PickIn, FS_Subset
<1>5. SumFunctionOnSet(f, T \ {p}) \in Int /\ SumFunctionOnSet(g, T \ {p}) \in Int
  BY <1>4, SumInt
<1>6. /\ SumFunctionOnSet(f, T) = f[p] + SumFunctionOnSet(f, T \ {p})
      /\ SumFunctionOnSet(g, T) = g[p] + SumFunctionOnSet(g, T \ {p})
  BY <1>3, SumPick
<1>7. f[p] \in Int /\ g[p] \in Int /\ f[p] <= g[p]
  BY <1>4
<1> HIDE DEF p
<1> QED BY <1>2, <1>4, <1>5, <1>6, <1>7

\* A sum is that of its terms.
THEOREM SumSame ==
  ASSUME NEW f, NEW g, NEW S, IsFiniteSet(S), \A x \in S : f[x] \in Int /\ f[x] = g[x]
  PROVE  SumFunctionOnSet(f, S) = SumFunctionOnSet(g, S)
<1>1. /\ SumFunctionOnSet(f, S) <= SumFunctionOnSet(g, S)
      /\ SumFunctionOnSet(g, S) <= SumFunctionOnSet(f, S)
  BY SumMonotone
<1> QED BY <1>1, SumInt

\* The sum over two sets with nothing in common is that of their sums.
THEOREM SumUnion ==
  ASSUME NEW f, NEW S, IsFiniteSet(S), NEW T, IsFiniteSet(T), S \cap T = {},
         \A x \in S \cup T : f[x] \in Int
  PROVE  SumFunctionOnSet(f, S \cup T) = SumFunctionOnSet(f, S) + SumFunctionOnSet(f, T)
<1> DEFINE Bad ==
             {U \in SUBSET T :
                SumFunctionOnSet(f, S \cup U) # SumFunctionOnSet(f, S) + SumFunctionOnSet(f, U)}
<1>1. Bad \subseteq SUBSET T
  OBVIOUS
<1> SUFFICES ASSUME Bad # {} PROVE FALSE
  OBVIOUS
<1>2. PICK U \in Bad : \A V \in Bad : V \subseteq U => V = U
  <2> HIDE DEF Bad
  <2> QED BY <1>1, SmallestSet
<1>3. U # {}
  <2>1. SumFunctionOnSet(f, S \cup {}) = SumFunctionOnSet(f, S) + SumFunctionOnSet(f, {})
    <3>1. S \cup {} = S
      OBVIOUS
    <3>2. SumFunctionOnSet(f, {}) = 0
      BY SumEmpty
    <3>3. SumFunctionOnSet(f, S) \in Int
      BY SumInt
    <3> QED BY <3>1, <3>2, <3>3
  <2> QED BY <1>2, <2>1
<1> DEFINE p == Pick(U)
<1>4. p \in U /\ U \ {p} \subseteq U /\ U \ {p} # U
  BY <1>3, PickIn
<1>5. SumFunctionOnSet(f, S \cup (U \ {p})) = SumFunctionOnSet(f, S) + SumFunctionOnSet(f, U \ {p})
  BY <1>2, <1>4
<1>6. IsFiniteSet(U) /\ IsFiniteSet(S \cup U) /\ IsFiniteSet(U \ {p})
  BY FS_Subset, FS_Union
<1>7. (S \cup U) \ {p} = S \cup (U \ {p})
  BY <1>4
<1>8. SumFunctionOnSet(f, S \cup U) = f[p] + SumFunctionOnSet(f, S \cup (U \ {p}))
  BY <1>4, <1>6, <1>7, SumRemove
<1>9. SumFunctionOnSet(f, U) = f[p] + SumFunctionOnSet(f, U \ {p})
  BY <1>4, <1>6, SumRemove
<1>10. SumFunctionOnSet(f, S) \in Int /\ SumFunctionOnSet(f, U \ {p}) \in Int /\ f[p] \in Int
  BY <1>4, <1>6, SumInt
<1> HIDE DEF p
<1> QED BY <1>2, <1>5, <1>8, <1>9, <1>10

\* A sum of terms that are not negative holds that of any part of it.
THEOREM SumPart ==
  ASSUME NEW f, NEW S, IsFiniteSet(S), NEW T, T \subseteq S,
         \A x \in S : f[x] \in Nat
  PROVE  /\ 0 <= SumFunctionOnSet(f, T) /\ SumFunctionOnSet(f, T) <= SumFunctionOnSet(f, S)
         /\ SumFunctionOnSet(f, S) \in Nat
<1>1. ASSUME NEW U, U \subseteq S
      PROVE  SumFunctionOnSet(f, U) \in Nat
  <2> DEFINE Bad == {V \in SUBSET U : SumFunctionOnSet(f, V) \notin Nat}
  <2>1. Bad \subseteq SUBSET U /\ IsFiniteSet(U)
    BY <1>1, FS_Subset
  <2> SUFFICES ASSUME Bad # {} PROVE FALSE
    OBVIOUS
  <2>2. PICK V \in Bad : \A W \in Bad : W \subseteq V => W = V
    <3> HIDE DEF Bad
    <3> QED BY <2>1, SmallestSet
  <2>3. V # {} /\ IsFiniteSet(V)
    <3>1. SumFunctionOnSet(f, {}) \in Nat
      BY SumEmpty
    <3> QED BY <2>1, <2>2, <3>1, FS_Subset
  <2>4. SumFunctionOnSet(f, V \ {Pick(V)}) \in Nat /\ f[Pick(V)] \in Nat
    BY <1>1, <2>2, <2>3, PickIn
  <2> QED BY <2>2, <2>3, <2>4, SumPick
<1>2. IsFiniteSet(T) /\ IsFiniteSet(S \ T) /\ S = T \cup (S \ T)
  BY FS_Subset
<1>3. SumFunctionOnSet(f, S) = SumFunctionOnSet(f, T) + SumFunctionOnSet(f, S \ T)
  BY <1>2, SumUnion
<1> QED BY <1>1, <1>3

\* The sum of r's taken group by group; by names the group of each.
THEOREM SumByGroups ==
  ASSUME NEW f, NEW S, IsFiniteSet(S), \A x \in S : f[x] \in Int,
         NEW by, NEW G, IsFiniteSet(G), \A x \in S : by[x] \in G,
         NEW g, \A d \in G : g[d] = SumFunctionOnSet(f, {x \in S : by[x] = d})
  PROVE  SumFunctionOnSet(f, S) = SumFunctionOnSet(g, G)
<1> DEFINE Of(H) == {x \in S : by[x] \in H}
           Bad == {H \in SUBSET G : SumFunctionOnSet(f, Of(H)) # SumFunctionOnSet(g, H)}
<1>1. Bad \subseteq SUBSET G
  OBVIOUS
<1>2. Of(G) = S /\ Of({}) = {}
  OBVIOUS
<1> SUFFICES ASSUME Bad # {} PROVE FALSE
  BY <1>2
<1>3. PICK H \in Bad : \A I \in Bad : I \subseteq H => I = H
  <2> HIDE DEF Bad
  <2> QED BY <1>1, SmallestSet
<1>4. H # {}
  BY <1>2, <1>3, SumEmpty
<1> DEFINE p == Pick(H)
<1>5. p \in H /\ H \ {p} \subseteq H /\ H \ {p} # H
  BY <1>4, PickIn
<1>6. SumFunctionOnSet(f, Of(H \ {p})) = SumFunctionOnSet(g, H \ {p})
  BY <1>3, <1>5
<1> DEFINE own == {x \in S : by[x] = p}
<1>7. /\ Of(H) = Of(H \ {p}) \cup own /\ Of(H \ {p}) \cap own = {}
      /\ IsFiniteSet(Of(H \ {p})) /\ IsFiniteSet(own)
  <2>1. Of(H) = Of(H \ {p}) \cup own /\ Of(H \ {p}) \cap own = {}
    BY <1>5
  <2>2. Of(H \ {p}) \subseteq S /\ own \subseteq S
    OBVIOUS
  <2> HIDE DEF Of, own
  <2> QED BY <2>1, <2>2, FS_Subset
<1>8. SumFunctionOnSet(f, Of(H)) = SumFunctionOnSet(f, Of(H \ {p})) + SumFunctionOnSet(f, own)
  <2> DEFINE rest == Of(H \ {p})
  <2>1. \A x \in rest \cup own : f[x] \in Int
    OBVIOUS
  <2>2. /\ Of(H) = rest \cup own /\ rest \cap own = {}
        /\ IsFiniteSet(rest) /\ IsFiniteSet(own)
    BY <1>7
  <2> HIDE DEF rest, own
  <2>3. SumFunctionOnSet(f, rest \cup own) = SumFunctionOnSet(f, rest) + SumFunctionOnSet(f, own)
    BY <2>1, <2>2, SumUnion
  <2>4. SumFunctionOnSet(f, Of(H)) = SumFunctionOnSet(f, rest) + SumFunctionOnSet(f, own)
    BY <2>2, <2>3
  <2> QED BY <2>4 DEF rest
<1>9. \A d \in H : g[d] \in Int
  <2> SUFFICES ASSUME NEW d \in H PROVE SumFunctionOnSet(f, {x \in S : by[x] = d}) \in Int
    BY <1>3
  <2>1. IsFiniteSet({x \in S : by[x] = d})
    BY FS_Subset
  <2> QED BY <2>1, SumInt
<1>10. IsFiniteSet(H)
  BY <1>3, FS_Subset
<1>11. /\ SumFunctionOnSet(g, H) = g[p] + SumFunctionOnSet(g, H \ {p})
       /\ g[p] = SumFunctionOnSet(f, own)
  BY <1>3, <1>5, <1>9, <1>10, SumRemove
<1>12. SumFunctionOnSet(g, H \ {p}) \in Int /\ g[p] \in Int
  <2>1. IsFiniteSet(H \ {p})
    BY <1>10, FS_Subset
  <2> QED BY <1>5, <1>9, <2>1, SumInt
<1> HIDE DEF p, own, Of
<1> QED BY <1>3, <1>6, <1>8, <1>11, <1>12

\* The same terms under other names.
THEOREM SumRenamed ==
  ASSUME NEW f, NEW S, IsFiniteSet(S), NEW b, \A x, y \in S : b[x] = b[y] => x = y,
         NEW g, \A x \in S : f[x] \in Int /\ g[b[x]] = f[x]
  PROVE  SumFunctionOnSet(g, {b[x] : x \in S}) = SumFunctionOnSet(f, S)
<1> DEFINE Image(T) == {b[x] : x \in T}
           Bad == {T \in SUBSET S : SumFunctionOnSet(g, Image(T)) # SumFunctionOnSet(f, T)}
<1>1. Bad \subseteq SUBSET S
  OBVIOUS
<1> SUFFICES ASSUME Bad # {} PROVE FALSE
  OBVIOUS
<1>2. PICK T \in Bad : \A U \in Bad : U \subseteq T => U = T
  <2> HIDE DEF Bad
  <2> QED BY <1>1, SmallestSet
<1>3. T # {} /\ IsFiniteSet(T)
  <2>1. Image({}) = {}
    OBVIOUS
  <2> QED BY <1>2, <2>1, SumEmpty, FS_Subset
<1> DEFINE p == Pick(T)
           R == T \ {p}
<1>4. p \in T /\ R \subseteq T /\ R # T
  BY <1>3, PickIn
<1>5. SumFunctionOnSet(g, Image(R)) = SumFunctionOnSet(f, R)
  BY <1>2, <1>4
<1>6. Image(T) = Image(R) \cup {b[p]} /\ b[p] \notin Image(R)
  BY <1>4
<1>7. IsFiniteSet(R) /\ IsFiniteSet(Image(R))
  <2>1. IsFiniteSet(R)
    BY <1>3, FS_Subset
  <2> DEFINE h == [x \in R |-> b[x]]
  <2>2. h \in Surjection(R, Image(R))
    BY DEF Surjection
  <2> HIDE DEF h, R, Image
  <2> QED BY <2>1, <2>2, FS_Surjection
<1>8. SumFunctionOnSet(g, Image(T)) = g[b[p]] + SumFunctionOnSet(g, Image(R))
  <2>1. \A y \in Image(R) : g[y] \in Int
    BY <1>4
  <2>2. g[b[p]] \in Int
    BY <1>4
  <2> HIDE DEF Image, R, p
  <2> QED BY <1>6, <1>7, <2>1, <2>2, SumAdd
<1>9. SumFunctionOnSet(f, T) = f[p] + SumFunctionOnSet(f, R)
  BY <1>3, SumPick
<1> QED BY <1>2, <1>4, <1>5, <1>8, <1>9
=============================================================================
