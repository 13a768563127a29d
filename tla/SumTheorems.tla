---------------------------- MODULE SumTheorems ----------------------------
(***************************************************************************)
(* Facts about the sums of numbers over finite sets, SumFunctionOnSet of   *)
(* the community modules, which folds a set in an order that CHOOSE picks: *)
(* the order does not matter, an element can be taken out or changed, and  *)
(* the summands may be renamed; and that of finitely many numbers one is   *)
(* the smallest and one the largest.  Induction over sets is done by       *)
(* taking a smallest set for which a fact would fail.                      *)
(***************************************************************************)
EXTENDS Integers, Functions, FiniteSetTheorems, TLAPS

(* The element that the fold takes out of a set.                           *)
One(s) == CHOOSE x \in s : TRUE

(* iter is the function on the subsets of S with which the fold is defined.*)
IsFold(iter, f, S) ==
  iter = [s \in SUBSET S |-> IF s = {} THEN 0 ELSE f[One(s)] + iter[s \ {One(s)}]]

(* A set of finite subsets that is not empty has a smallest member: the    *)
(* induction over finite sets.                                             *)
LEMMA SmallestExists ==
  ASSUME NEW S, IsFiniteSet(S), NEW Bad \in SUBSET (SUBSET S), Bad # {}
  PROVE  \E T \in Bad : \A U \in Bad : U \subseteq T => U = T
<1>1. PICK T \in Bad : \A U \in Bad : <<U, T>> \notin StrictSubsetOrdering(S)
  BY FS_StrictSubsetOrderingWellFounded, FS_FiniteSubsetsOfFinite, WFMin, Zenon
<1>2. ASSUME NEW U \in Bad, U \subseteq T, U # T
      PROVE  FALSE
  <2>1. IsFiniteSet(T) /\ IsFiniteSet(U)
    BY <1>1, FS_Subset
  <2> QED
    BY <1>1, <1>2, <2>1 DEF StrictSubsetOrdering
<1> QED
  BY <1>2

(* Two such functions agree.                                               *)
LEMMA FoldsUnique ==
  ASSUME NEW f, NEW S, IsFiniteSet(S), NEW T \in SUBSET S,
         NEW g, IsFold(g, f, S), NEW h, IsFold(h, f, T)
  PROVE  \A s \in SUBSET T : g[s] = h[s]
<1> DEFINE Bad == {s \in SUBSET T : g[s] # h[s]}
<1>1. \A s \in SUBSET T : s # {} => One(s) \in s
  BY DEF One
<1>2. \A s \in SUBSET T :
        /\ g[s] = IF s = {} THEN 0 ELSE f[One(s)] + g[s \ {One(s)}]
        /\ h[s] = IF s = {} THEN 0 ELSE f[One(s)] + h[s \ {One(s)}]
  BY DEF IsFold
<1>3. SUFFICES ASSUME Bad # {} PROVE FALSE
  OBVIOUS
<1>4. IsFiniteSet(T)
  BY FS_Subset
<1>5. PICK s \in Bad : \A u \in Bad : u \subseteq s => u = s
  <2> HIDE DEF Bad
  <2>1. Bad \in SUBSET (SUBSET T)
    BY DEF Bad
  <2> QED
    BY <1>3, <1>4, <2>1, SmallestExists
<1>6. s # {}
  BY <1>2
<1>7. g[s \ {One(s)}] = h[s \ {One(s)}]
  BY <1>1, <1>5, <1>6
<1> QED
  BY <1>2, <1>6, <1>7

(* There is one for every finite set.                                      *)
LEMMA FoldsExists ==
  ASSUME NEW f, NEW S, IsFiniteSet(S)
  PROVE  \E iter : IsFold(iter, f, S)
<1> DEFINE Bad == {s \in SUBSET S : ~ \E iter : IsFold(iter, f, s)}
           Value(s) == (CHOOSE iter : IsFold(iter, f, s))[s]
<1>1. SUFFICES ASSUME Bad # {} PROVE FALSE
  OBVIOUS
<1>2. PICK T \in Bad : \A u \in Bad : u \subseteq T => u = T
  <2> HIDE DEF Bad
  <2>1. Bad \in SUBSET (SUBSET S)
    BY DEF Bad
  <2> QED
    BY <1>1, <2>1, SmallestExists
<1>3. \A s \in SUBSET T : s # {} => One(s) \in s
  BY DEF One
<1>4. \A u \in SUBSET T : u # T => IsFold(CHOOSE iter : IsFold(iter, f, u), f, u)
  <2> TAKE u \in SUBSET T
  <2> HAVE u # T
  <2>1. \E iter : IsFold(iter, f, u)
    BY <1>2
  <2> QED
    BY <2>1
<1>5. ASSUME NEW u \in SUBSET T, u # T, u # {}
      PROVE  Value(u) = f[One(u)] + Value(u \ {One(u)})
  <2> DEFINE h == CHOOSE iter : IsFold(iter, f, u)
             v == u \ {One(u)}
             k == CHOOSE iter : IsFold(iter, f, v)
  <2>1. IsFold(h, f, u) /\ v \in SUBSET u /\ v \in SUBSET T /\ v # T
    BY <1>3, <1>4, <1>5
  <2>2. IsFold(k, f, v)
    BY <1>4, <2>1
  <2>3. IsFiniteSet(u)
    BY <1>5, FS_Subset
  <2> HIDE DEF h, k, v
  <2>4. h[v] = k[v]
    BY <2>1, <2>2, <2>3, FoldsUnique
  <2>5. h[u] = f[One(u)] + h[v]
    BY <1>5, <2>1 DEF IsFold, v
  <2> QED
    BY <2>4, <2>5 DEF h, k, v
<1>6. Value({}) = 0
  <2>1. T # {}
    <3>1. IsFold([s \in SUBSET {} |-> 0], f, {})
      BY DEF IsFold
    <3> QED
      BY <1>2, <3>1
  <2>2. IsFold(CHOOSE iter : IsFold(iter, f, {}), f, {})
    BY <1>4, <2>1
  <2> QED
    BY <2>2 DEF IsFold
<1> HIDE DEF Value
<1>7. IsFold([s \in SUBSET T |-> IF s = {} THEN 0 ELSE f[One(s)] + Value(s \ {One(s)})], f, T)
  <2> DEFINE g == [s \in SUBSET T |->
                     IF s = {} THEN 0 ELSE f[One(s)] + Value(s \ {One(s)})]
  <2>1. \A s \in SUBSET T : s # {} =>
          s \ {One(s)} \in SUBSET T /\ s \ {One(s)} # T
    BY <1>3
  <2>2. \A s \in SUBSET T : s # {} => g[s \ {One(s)}] = Value(s \ {One(s)})
    BY <1>5, <1>6, <2>1
  <2> QED
    BY <2>2 DEF IsFold
<1> QED
  BY <1>2, <1>7

(* What SumFunctionOnSet is defined to be.                                 *)
LEMMA SumIsFold ==
  ASSUME NEW f, NEW S
  PROVE  SumFunctionOnSet(f, S) = (CHOOSE iter : IsFold(iter, f, S))[S]
BY DEF SumFunctionOnSet, FoldFunctionOnSet, MapThenFoldSet, IsFold, One

LEMMA SumEmpty ==
  ASSUME NEW f
  PROVE  SumFunctionOnSet(f, {}) = 0
<1>1. IsFold(CHOOSE iter : IsFold(iter, f, {}), f, {})
  BY FoldsExists, FS_EmptySet
<1> QED
  BY <1>1, SumIsFold DEF IsFold

(* The sum of what the fold has not taken yet.                             *)
LEMMA SumOne ==
  ASSUME NEW f, NEW S, IsFiniteSet(S), S # {}
  PROVE  SumFunctionOnSet(f, S) = f[One(S)] + SumFunctionOnSet(f, S \ {One(S)})
<1> DEFINE g == CHOOSE iter : IsFold(iter, f, S)
           T == S \ {One(S)}
           h == CHOOSE iter : IsFold(iter, f, T)
<1>1. IsFiniteSet(T)
  BY FS_RemoveElement
<1>2. IsFold(g, f, S)
  BY FoldsExists
<1>3. IsFold(h, f, T)
  BY <1>1, FoldsExists
<1>4. T \in SUBSET S
  OBVIOUS
<1> HIDE DEF g, h, T
<1>5. g[T] = h[T]
  BY <1>2, <1>3, <1>4, FoldsUnique
<1>6. g[S] = f[One(S)] + g[T]
  BY <1>2 DEF IsFold, T
<1> QED
  BY <1>5, <1>6, SumIsFold DEF g, h, T

-----------------------------------------------------------------------------
(* The order does not matter: any element may be the one taken out.        *)
LEMMA SumType ==
  ASSUME NEW f, NEW S, IsFiniteSet(S), \A x \in S : f[x] \in Int
  PROVE  SumFunctionOnSet(f, S) \in Int
<1> DEFINE Bad == {T \in SUBSET S : SumFunctionOnSet(f, T) \notin Int}
<1>1. SUFFICES ASSUME Bad # {} PROVE FALSE
  OBVIOUS
<1>2. PICK T \in Bad : \A U \in Bad : U \subseteq T => U = T
  <2> HIDE DEF Bad
  <2>1. Bad \in SUBSET (SUBSET S)
    BY DEF Bad
  <2> QED
    BY <1>1, <2>1, SmallestExists
<1>3. T # {} /\ IsFiniteSet(T)
  <2>1. SumFunctionOnSet(f, {}) = 0
    BY SumEmpty
  <2>2. T # {}
    BY <2>1
  <2> QED
    BY <2>2, FS_Subset
<1>4. One(T) \in T
  BY <1>3 DEF One
<1>5. SumFunctionOnSet(f, T \ {One(T)}) \in Int
  BY <1>2, <1>4
<1>6. SumFunctionOnSet(f, T) = f[One(T)] + SumFunctionOnSet(f, T \ {One(T)})
  BY <1>3, SumOne
<1> QED
  BY <1>4, <1>5, <1>6

LEMMA SumRemove ==
  ASSUME NEW f, NEW S, IsFiniteSet(S), \A x \in S : f[x] \in Int, NEW x \in S
  PROVE  SumFunctionOnSet(f, S) = f[x] + SumFunctionOnSet(f, S \ {x})
<1> DEFINE Right(T, y) == SumFunctionOnSet(f, T) = f[y] + SumFunctionOnSet(f, T \ {y})
           Bad == {T \in SUBSET S : \E y \in T : ~Right(T, y)}
<1>1. SUFFICES ASSUME Bad # {} PROVE FALSE
  OBVIOUS
<1>2. PICK T \in Bad : \A U \in Bad : U \subseteq T => U = T
  <2> HIDE DEF Bad
  <2>1. Bad \in SUBSET (SUBSET S)
    BY DEF Bad
  <2> QED
    BY <1>1, <2>1, SmallestExists
<1>3. PICK y \in T : ~Right(T, y)
  OBVIOUS
<1> DEFINE z == One(T)
<1>4. z \in T /\ Right(T, z) /\ IsFiniteSet(T)
  BY <1>3, FS_Subset, SumOne DEF One
<1> HIDE DEF z
<1>5. y # z
  BY <1>3, <1>4
<1>6. Right(T \ {z}, y) /\ Right(T \ {y}, z)
  BY <1>2, <1>3, <1>4, <1>5
<1>7. SumFunctionOnSet(f, T \ {y, z}) \in Int
  <2>1. IsFiniteSet(T \ {y, z})
    BY <1>4, FS_Difference
  <2> QED
    BY <2>1, SumType
<1>8. (T \ {z}) \ {y} = T \ {y, z} /\ (T \ {y}) \ {z} = T \ {y, z}
  OBVIOUS
<1>9. f[y] \in Int /\ f[z] \in Int
  BY <1>3, <1>4
<1>10. Right(T, y)
  <2> HIDE DEF Bad
  <2>1. /\ SumFunctionOnSet(f, T) = f[z] + SumFunctionOnSet(f, T \ {z})
        /\ SumFunctionOnSet(f, T \ {z}) = f[y] + SumFunctionOnSet(f, T \ {y, z})
        /\ SumFunctionOnSet(f, T \ {y}) = f[z] + SumFunctionOnSet(f, T \ {y, z})
    BY <1>4, <1>6, <1>8
  <2> QED
    BY <1>7, <1>9, <2>1
<1> QED
  BY <1>3, <1>10

LEMMA SumAdd ==
  ASSUME NEW f, NEW S, IsFiniteSet(S), NEW x, x \notin S,
         \A y \in S \union {x} : f[y] \in Int
  PROVE  SumFunctionOnSet(f, S \union {x}) = f[x] + SumFunctionOnSet(f, S)
<1>1. IsFiniteSet(S \union {x}) /\ (S \union {x}) \ {x} = S
  BY FS_AddElement
<1> QED
  BY <1>1, SumRemove

(* Sums of equal summands are equal, of smaller ones smaller.              *)
LEMMA SumMonotone ==
  ASSUME NEW f, NEW g, NEW S, IsFiniteSet(S),
         \A x \in S : f[x] \in Int /\ g[x] \in Int /\ f[x] <= g[x]
  PROVE  SumFunctionOnSet(f, S) <= SumFunctionOnSet(g, S)
<1> DEFINE Bad == {T \in SUBSET S : ~(SumFunctionOnSet(f, T) <= SumFunctionOnSet(g, T))}
<1>1. SUFFICES ASSUME Bad # {} PROVE FALSE
  OBVIOUS
<1>2. PICK T \in Bad : \A U \in Bad : U \subseteq T => U = T
  <2> HIDE DEF Bad
  <2>1. Bad \in SUBSET (SUBSET S)
    BY DEF Bad
  <2> QED
    BY <1>1, <2>1, SmallestExists
<1>3. T # {} /\ IsFiniteSet(T)
  <2>1. SumFunctionOnSet(f, {}) = 0 /\ SumFunctionOnSet(g, {}) = 0
    BY SumEmpty
  <2>2. T # {}
    BY <2>1
  <2> QED
    BY <2>2, FS_Subset
<1>4. PICK x \in T : TRUE
  BY <1>3
<1> DEFINE U == T \ {x}
<1>5. IsFiniteSet(U) /\ U \in SUBSET S
  BY <1>3, FS_RemoveElement
<1>6. SumFunctionOnSet(f, U) <= SumFunctionOnSet(g, U)
  BY <1>2, <1>4
<1>7. SumFunctionOnSet(f, U) \in Int /\ SumFunctionOnSet(g, U) \in Int
  BY <1>5, SumType
<1>8. /\ SumFunctionOnSet(f, T) = f[x] + SumFunctionOnSet(f, U)
      /\ SumFunctionOnSet(g, T) = g[x] + SumFunctionOnSet(g, U)
  BY <1>3, SumRemove
<1>9. f[x] \in Int /\ g[x] \in Int /\ f[x] <= g[x]
  OBVIOUS
<1> HIDE DEF U
<1>10. SumFunctionOnSet(f, T) <= SumFunctionOnSet(g, T)
  BY <1>6, <1>7, <1>8, <1>9
<1> QED
  BY <1>10

LEMMA SumSame ==
  ASSUME NEW f, NEW g, NEW S, IsFiniteSet(S),
         \A x \in S : f[x] \in Int /\ g[x] = f[x]
  PROVE  SumFunctionOnSet(g, S) = SumFunctionOnSet(f, S)
<1>1. /\ SumFunctionOnSet(f, S) <= SumFunctionOnSet(g, S)
      /\ SumFunctionOnSet(g, S) <= SumFunctionOnSet(f, S)
  BY SumMonotone
<1>2. SumFunctionOnSet(f, S) \in Int /\ SumFunctionOnSet(g, S) \in Int
  BY SumType
<1> QED
  BY <1>1, <1>2

LEMMA SumZero ==
  ASSUME NEW f, NEW S, IsFiniteSet(S), \A x \in S : f[x] = 0
  PROVE  SumFunctionOnSet(f, S) = 0
<1> DEFINE Bad == {T \in SUBSET S : SumFunctionOnSet(f, T) # 0}
<1>1. SUFFICES ASSUME Bad # {} PROVE FALSE
  OBVIOUS
<1>2. PICK T \in Bad : \A U \in Bad : U \subseteq T => U = T
  <2> HIDE DEF Bad
  <2>1. Bad \in SUBSET (SUBSET S)
    BY DEF Bad
  <2> QED
    BY <1>1, <2>1, SmallestExists
<1>3. T # {} /\ IsFiniteSet(T)
  BY SumEmpty, FS_Subset
<1>4. One(T) \in T
  BY <1>3 DEF One
<1>5. SumFunctionOnSet(f, T \ {One(T)}) = 0
  BY <1>2, <1>4
<1> QED
  BY <1>3, <1>4, <1>5, SumOne

(* A sum of natural numbers is one, and at least each of its parts.        *)
LEMMA SumNat ==
  ASSUME NEW f, NEW S, IsFiniteSet(S), \A x \in S : f[x] \in Nat
  PROVE  SumFunctionOnSet(f, S) \in Nat
<1> DEFINE zero == [x \in S |-> 0]
<1>1. SumFunctionOnSet(zero, S) = 0
  BY SumZero
<1>2. SumFunctionOnSet(zero, S) <= SumFunctionOnSet(f, S)
  BY SumMonotone
<1>3. SumFunctionOnSet(f, S) \in Int
  BY SumType
<1> QED
  BY <1>1, <1>2, <1>3

(* The sum over two sets that share nothing.                               *)
LEMMA SumUnion ==
  ASSUME NEW f, NEW S, IsFiniteSet(S), NEW T, IsFiniteSet(T), S \intersect T = {},
         \A x \in S \union T : f[x] \in Int
  PROVE  SumFunctionOnSet(f, S \union T) = SumFunctionOnSet(f, S) + SumFunctionOnSet(f, T)
<1> DEFINE Sum(U) == SumFunctionOnSet(f, U)
           Bad == {U \in SUBSET S : Sum(U \union T) # Sum(U) + Sum(T)}
<1>1. SUFFICES ASSUME Bad # {} PROVE FALSE
  OBVIOUS
<1>2. PICK U \in Bad : \A V \in Bad : V \subseteq U => V = U
  <2> HIDE DEF Bad
  <2>1. Bad \in SUBSET (SUBSET S)
    BY DEF Bad
  <2> QED
    BY <1>1, <2>1, SmallestExists
<1>3. U # {} /\ IsFiniteSet(U)
  <2>1. Sum(T) \in Int /\ Sum({}) = 0 /\ {} \union T = T
    BY SumType, SumEmpty
  <2>2. Sum({} \union T) = Sum({}) + Sum(T)
    BY <2>1
  <2>3. U # {}
    BY <2>2
  <2> QED
    BY <2>3, FS_Subset
<1>4. PICK x \in U : TRUE
  BY <1>3
<1> DEFINE V == U \ {x}
<1>5. V \in SUBSET U /\ V # U
  OBVIOUS
<1>6. Sum(V \union T) = Sum(V) + Sum(T)
  BY <1>2, <1>5
<1>7. IsFiniteSet(V) /\ IsFiniteSet(V \union T)
  BY <1>3, <1>5, FS_Subset, FS_Union
<1>8. x \notin V /\ x \notin V \union T
  OBVIOUS
<1>9. Sum(V \union {x}) = f[x] + Sum(V)
  BY <1>7, <1>8, SumAdd
<1>10. Sum((V \union T) \union {x}) = f[x] + Sum(V \union T)
  BY <1>7, <1>8, SumAdd
<1>11. V \union {x} = U /\ (V \union T) \union {x} = U \union T
  OBVIOUS
<1>12. Sum(V) \in Int /\ Sum(T) \in Int /\ f[x] \in Int
  BY <1>7, SumType
<1> HIDE DEF V, Sum
<1>13. Sum(U \union T) = Sum(U) + Sum(T)
  <2>1. /\ Sum(V \union T) = Sum(V) + Sum(T)
        /\ Sum(U) = f[x] + Sum(V) /\ Sum(U \union T) = f[x] + Sum(V \union T)
    BY <1>6, <1>9, <1>10, <1>11
  <2> HIDE DEF Bad
  <2> QED
    BY <1>12, <2>1
<1> QED
  BY <1>13

LEMMA SumSubset ==
  ASSUME NEW f, NEW S, IsFiniteSet(S), NEW T \in SUBSET S, \A x \in S : f[x] \in Nat
  PROVE  SumFunctionOnSet(f, T) <= SumFunctionOnSet(f, S)
<1>1. IsFiniteSet(T) /\ IsFiniteSet(S \ T) /\ T \union (S \ T) = S
  BY FS_Subset, FS_Difference
<1>2. SumFunctionOnSet(f, S) = SumFunctionOnSet(f, T) + SumFunctionOnSet(f, S \ T)
  <2>1. T \intersect (S \ T) = {}
    OBVIOUS
  <2>2. SumFunctionOnSet(f, T \union (S \ T))
          = SumFunctionOnSet(f, T) + SumFunctionOnSet(f, S \ T)
    BY <1>1, <2>1, SumUnion
  <2> QED
    BY <1>1, <2>2
<1>3. SumFunctionOnSet(f, T) \in Nat /\ SumFunctionOnSet(f, S \ T) \in Nat
  BY <1>1, SumNat
<1> QED
  BY <1>2, <1>3

(* One summand changes.                                                    *)
LEMMA SumChange ==
  ASSUME NEW f, NEW g, NEW S, IsFiniteSet(S), NEW x \in S, f[x] \in Int, g[x] \in Int,
         \A y \in S \ {x} : f[y] \in Int /\ g[y] = f[y]
  PROVE  SumFunctionOnSet(g, S) = SumFunctionOnSet(f, S) - f[x] + g[x]
<1> DEFINE T == S \ {x}
<1>1. IsFiniteSet(T)
  BY FS_RemoveElement
<1>2. SumFunctionOnSet(g, T) = SumFunctionOnSet(f, T)
  BY <1>1, SumSame
<1>3. SumFunctionOnSet(f, T) \in Int
  BY <1>1, SumType
<1>4. /\ SumFunctionOnSet(f, S) = f[x] + SumFunctionOnSet(f, T)
      /\ SumFunctionOnSet(g, S) = g[x] + SumFunctionOnSet(g, T)
  BY SumRemove
<1> QED
  BY <1>2, <1>3, <1>4

(* Some summands are greater by one.                                       *)
LEMMA SumOnes ==
  ASSUME NEW f, NEW g, NEW S, IsFiniteSet(S), NEW Z \in SUBSET S,
         \A x \in S : f[x] \in Int /\ g[x] = IF x \in Z THEN f[x] + 1 ELSE f[x]
  PROVE  SumFunctionOnSet(g, S) = SumFunctionOnSet(f, S) + Cardinality(Z)
<1> DEFINE Right(U) == SumFunctionOnSet(g, U) = SumFunctionOnSet(f, U) + Cardinality(U \intersect Z)
           Bad == {U \in SUBSET S : ~Right(U)}
<1>1. SUFFICES ASSUME Bad # {} PROVE FALSE
  <2>1. S \notin Bad
    BY <1>1
  <2>2. S \intersect Z = Z
    OBVIOUS
  <2>3. Right(S)
    BY <2>1
  <2> QED
    BY <2>2, <2>3
<1>2. PICK U \in Bad : \A V \in Bad : V \subseteq U => V = U
  <2> HIDE DEF Bad
  <2>1. Bad \in SUBSET (SUBSET S)
    BY DEF Bad
  <2> QED
    BY <1>1, <2>1, SmallestExists
<1>3. IsFiniteSet(U) /\ IsFiniteSet(U \intersect Z)
  BY FS_Subset, FS_Intersection
<1>4. U # {}
  <2>1. {} \intersect Z = {}
    OBVIOUS
  <2>2. Right({})
    BY <2>1, SumEmpty, FS_EmptySet
  <2> QED
    BY <2>2
<1>5. PICK x \in U : TRUE
  BY <1>4
<1> DEFINE V == U \ {x}
<1>6. Right(V)
  BY <1>2, <1>5
<1>7. Cardinality(U \intersect Z)
        = Cardinality(V \intersect Z) + (IF x \in Z THEN 1 ELSE 0)
  <2>1. CASE x \in Z
    <3>1. V \intersect Z = (U \intersect Z) \ {x} /\ x \in U \intersect Z
      BY <2>1
    <3>2. Cardinality(U \intersect Z) \in Nat
      BY <1>3, FS_CardinalityType
    <3>3. Cardinality((U \intersect Z) \ {x}) = Cardinality(U \intersect Z) - 1
      BY <1>3, <3>1, FS_RemoveElement
    <3>4. Cardinality(V \intersect Z) = Cardinality(U \intersect Z) - 1
      BY <3>1, <3>3
    <3>5. Cardinality(U \intersect Z) = Cardinality(V \intersect Z) + 1
      BY <3>2, <3>4
    <3> QED
      BY <2>1, <3>5
  <2>2. CASE x \notin Z
    <3>1. V \intersect Z = U \intersect Z
      BY <2>2
    <3>2. Cardinality(U \intersect Z) \in Nat
      BY <1>3, FS_CardinalityType
    <3> QED
      BY <2>2, <3>1, <3>2
  <2> QED
    BY <2>1, <2>2
<1>8. IsFiniteSet(V) /\ IsFiniteSet(V \intersect Z)
  BY <1>3, FS_RemoveElement, FS_Intersection
<1>9. /\ SumFunctionOnSet(f, V) \in Int /\ SumFunctionOnSet(g, V) \in Int
      /\ Cardinality(V \intersect Z) \in Nat
  BY <1>8, SumType, FS_CardinalityType
<1>10. /\ SumFunctionOnSet(f, U) = f[x] + SumFunctionOnSet(f, V)
       /\ SumFunctionOnSet(g, U) = g[x] + SumFunctionOnSet(g, V)
  BY <1>3, SumRemove
<1>11. f[x] \in Int /\ g[x] = IF x \in Z THEN f[x] + 1 ELSE f[x]
  OBVIOUS
<1> HIDE DEF V
<1>12. Right(U)
  BY <1>6, <1>7, <1>9, <1>10, <1>11
<1> QED
  BY <1>12

(* The summands are renamed.                                               *)
LEMMA SumRenamed ==
  ASSUME NEW S, IsFiniteSet(S), NEW T, NEW h \in Bijection(S, T), NEW f, NEW g,
         \A x \in S : g[x] \in Int /\ f[h[x]] = g[x]
  PROVE  SumFunctionOnSet(f, T) = SumFunctionOnSet(g, S)
<1> DEFINE Image(U) == {h[x] : x \in U}
           Bad == {U \in SUBSET S : SumFunctionOnSet(f, Image(U)) # SumFunctionOnSet(g, U)}
<1>1. /\ \A x, y \in S : h[x] = h[y] => x = y
      /\ Image(S) = T
  BY DEF Bijection, Injection, Surjection, IsInjective
<1>2. SUFFICES ASSUME Bad # {} PROVE FALSE
  BY <1>1
<1>3. PICK U \in Bad : \A V \in Bad : V \subseteq U => V = U
  <2> HIDE DEF Bad
  <2>1. Bad \in SUBSET (SUBSET S)
    BY DEF Bad
  <2> QED
    BY <1>2, <2>1, SmallestExists
<1>4. IsFiniteSet(U)
  BY FS_Subset
<1>5. U # {}
  <2>1. Image({}) = {}
    OBVIOUS
  <2> QED
    BY <2>1, SumEmpty
<1>6. PICK x \in U : TRUE
  BY <1>5
<1> DEFINE V == U \ {x}
<1>7. SumFunctionOnSet(f, Image(V)) = SumFunctionOnSet(g, V)
  BY <1>3, <1>6
<1>8. Image(V) \union {h[x]} = Image(U) /\ h[x] \notin Image(V)
  BY <1>1
<1>9. IsFiniteSet(Image(V))
  <2>1. IsFiniteSet(V)
    BY <1>4, FS_RemoveElement
  <2>2. [y \in V |-> h[y]] \in Surjection(V, Image(V))
    BY DEF Surjection
  <2> HIDE DEF Image, V
  <2> QED
    BY <2>1, <2>2, FS_Surjection
<1>10. SumFunctionOnSet(f, Image(V) \union {h[x]}) = f[h[x]] + SumFunctionOnSet(f, Image(V))
  <2>1. \A y \in Image(V) \union {h[x]} : f[y] \in Int
    OBVIOUS
  <2> HIDE DEF Image
  <2> QED
    BY <1>8, <1>9, <2>1, SumAdd
<1>11. SumFunctionOnSet(g, U) = g[x] + SumFunctionOnSet(g, V)
  BY <1>4, SumRemove
<1>12. f[h[x]] = g[x]
  OBVIOUS
<1> HIDE DEF Image, V
<1>13. SumFunctionOnSet(f, Image(U)) = SumFunctionOnSet(g, U)
  BY <1>7, <1>8, <1>10, <1>11, <1>12
<1> QED
  BY <1>13

(* Of finitely many numbers one is the smallest and one the largest.       *)
Bounded(f, S) == /\ \E x \in S : \A y \in S : f[x] <= f[y]
                 /\ \E x \in S : \A y \in S : f[x] >= f[y]

LEMMA ExtremesExist ==
  ASSUME NEW f, NEW S, IsFiniteSet(S), S # {}, \A x \in S : f[x] \in Int
  PROVE  Bounded(f, S)
<1> DEFINE Bad == {T \in SUBSET S : T # {} /\ ~Bounded(f, T)}
<1>1. SUFFICES ASSUME Bad # {} PROVE FALSE
  OBVIOUS
<1>2. PICK T \in Bad : \A U \in Bad : U \subseteq T => U = T
  <2> HIDE DEF Bad
  <2>1. Bad \in SUBSET (SUBSET S)
    BY DEF Bad
  <2> QED
    BY <1>1, <2>1, SmallestExists
<1>3. PICK x \in T : TRUE
  OBVIOUS
<1> DEFINE U == T \ {x}
<1>4. U = {} \/ Bounded(f, U)
  <2>1. U \in SUBSET S /\ U \subseteq T /\ U # T
    BY <1>3
  <2>2. U \notin Bad
    BY <1>2, <2>1
  <2> HIDE DEF U
  <2> QED
    BY <2>1, <2>2
<1>5. \A y \in T : f[y] \in Int /\ (y = x \/ y \in U)
  OBVIOUS
<1>6. CASE U = {}
  BY <1>3, <1>5, <1>6 DEF Bounded
<1>7. CASE Bounded(f, U)
  <2>1. PICK low \in U : \A y \in U : f[low] <= f[y]
    BY <1>7 DEF Bounded
  <2>2. PICK high \in U : \A y \in U : f[high] >= f[y]
    BY <1>7 DEF Bounded
  <2>3. \E z \in {x, low} : f[z] <= f[x] /\ f[z] <= f[low]
    BY <1>3, <1>5, <2>1
  <2>4. \E z \in {x, high} : f[z] >= f[x] /\ f[z] >= f[high]
    BY <1>3, <1>5, <2>2
  <2>5. \E z \in T : \A y \in T : f[z] <= f[y]
    BY <1>5, <2>1, <2>3
  <2>6. \E z \in T : \A y \in T : f[z] >= f[y]
    BY <1>5, <2>2, <2>4
  <2> QED
    BY <2>5, <2>6 DEF Bounded
<1> QED
  BY <1>4, <1>6, <1>7

=============================================================================
