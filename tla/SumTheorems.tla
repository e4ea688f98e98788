----------------------------- MODULE SumTheorems -----------------------------
(***************************************************************************)
(* What SumFunction of the community modules gives for a function from a   *)
(* finite set to the naturals.  A fold takes the elements in an order that *)
(* CHOOSE fixes; that the order does not matter is shown by counting: the  *)
(* sum is the number of coins when each x of the domain holds f[x] of      *)
(* them, and cardinalities of disjoint sets add up.                        *)
(***************************************************************************)
EXTENDS Integers, FiniteSets, Functions, FiniteSetTheorems, TLAPS

CoinsAt(f, x) == {x} \X (1 .. f[x])
Coins(f, T) == UNION {CoinsAt(f, x) : x \in T}

-----------------------------------------------------------------------------
(* Counting coins                                                          *)

LEMMA CoinsAtCount ==
  ASSUME NEW f, NEW x, f[x] \in Nat
  PROVE  IsFiniteSet(CoinsAt(f, x)) /\ Cardinality(CoinsAt(f, x)) = f[x]
<1> DEFINE n == f[x]
<1>1. n \in Nat
  OBVIOUS
<1>2. CoinsAt(f, x) = {x} \X (1 .. n)
  BY DEF CoinsAt
<1> HIDE DEF n
<1>3. IsFiniteSet(1 .. n) /\ Cardinality(1 .. n) = n
  BY <1>1, FS_Interval
<1>4. IsFiniteSet({x}) /\ Cardinality({x}) = 1
  BY FS_Singleton
<1>5. /\ IsFiniteSet({x} \X (1 .. n))
      /\ Cardinality({x} \X (1 .. n)) = Cardinality({x}) * Cardinality(1 .. n)
  BY <1>3, <1>4, FS_Product
<1> QED
  BY <1>1, <1>2, <1>3, <1>4, <1>5 DEF n

LEMMA CoinsFinite ==
  ASSUME NEW f, NEW T, IsFiniteSet(T), \A x \in T : f[x] \in Nat
  PROVE  IsFiniteSet(Coins(f, T)) /\ Cardinality(Coins(f, T)) \in Nat
<1> DEFINE purses == {CoinsAt(f, x) : x \in T}
<1> DEFINE g == [x \in T |-> CoinsAt(f, x)]
<1>1. g \in Surjection(T, purses)
  BY DEF Surjection
<1>2. \A P \in purses : IsFiniteSet(P)
  BY CoinsAtCount
<1> HIDE DEF g, purses
<1>3. IsFiniteSet(purses)
  BY <1>1, FS_Surjection
<1>4. IsFiniteSet(UNION purses)
  BY <1>2, <1>3, FS_UNION
<1> QED
  BY <1>4, FS_CardinalityType DEF Coins, purses

LEMMA CoinsSplit ==
  ASSUME NEW f, NEW T, IsFiniteSet(T), \A x \in T : f[x] \in Nat, NEW x \in T
  PROVE  Cardinality(Coins(f, T)) = f[x] + Cardinality(Coins(f, T \ {x}))
<1> DEFINE A == CoinsAt(f, x)
<1> DEFINE B == Coins(f, T \ {x})
<1>1. Coins(f, T) = A \cup B
  BY DEF Coins
<1>2. A \cap B = {}
  BY DEF Coins, CoinsAt
<1>3. IsFiniteSet(A) /\ Cardinality(A) = f[x]
  BY CoinsAtCount
<1>4. IsFiniteSet(T \ {x})
  BY FS_Difference
<1>5. IsFiniteSet(B) /\ Cardinality(B) \in Nat
  BY <1>4, CoinsFinite
<1> HIDE DEF A, B
<1>6. Cardinality(A \cup B) = Cardinality(A) + Cardinality(B) - Cardinality(A \cap B)
  BY <1>3, <1>5, FS_Union
<1>7. Cardinality(A \cap B) = 0
  BY <1>2, FS_EmptySet
<1> QED
  BY <1>1, <1>3, <1>5, <1>6, <1>7 DEF A, B

-----------------------------------------------------------------------------
(* The sum counts the coins                                                *)

(* What the recursive definition under SumFunction asks of its function.   *)
SumsUp(g, f) ==
  g = [s \in SUBSET DOMAIN f |->
         IF s = {} THEN 0
         ELSE LET x == CHOOSE x \in s : TRUE IN f[x] + g[s \ {x}]]

LEMMA CoinsSumUp ==
  ASSUME NEW f, IsFiniteSet(DOMAIN f), \A x \in DOMAIN f : f[x] \in Nat
  PROVE  SumsUp([T \in SUBSET DOMAIN f |-> Cardinality(Coins(f, T))], f)
<1> DEFINE S == DOMAIN f
<1> DEFINE h == [T \in SUBSET S |-> Cardinality(Coins(f, T))]
<1>1. ASSUME NEW T \in SUBSET S, T # {}
      PROVE  LET x == CHOOSE x \in T : TRUE IN h[T] = f[x] + h[T \ {x}]
  <2> DEFINE x == CHOOSE x \in T : TRUE
  <2>1. x \in T /\ T \ {x} \in SUBSET S
    BY <1>1
  <2>2. IsFiniteSet(T)
    BY FS_Subset
  <2> HIDE DEF x
  <2>3. Cardinality(Coins(f, T)) = f[x] + Cardinality(Coins(f, T \ {x}))
    BY <2>1, <2>2, CoinsSplit
  <2>4. h[T] = f[x] + h[T \ {x}]
    BY <2>1, <2>3
  <2> QED
    BY <2>4 DEF x
<1>2. h[{}] = 0
  <2>1. Coins(f, {}) = {}
    BY DEF Coins
  <2> QED
    BY <2>1, FS_EmptySet
<1>3. \A T \in SUBSET S :
        h[T] = IF T = {} THEN 0
               ELSE LET x == CHOOSE x \in T : TRUE IN f[x] + h[T \ {x}]
  BY <1>1, <1>2
<1>4. h = [T \in SUBSET S |-> h[T]]
  OBVIOUS
<1> HIDE DEF h
<1>5. h = [T \in SUBSET S |->
             IF T = {} THEN 0
             ELSE LET x == CHOOSE x \in T : TRUE IN f[x] + h[T \ {x}]]
  BY <1>3, <1>4
<1> QED
  BY <1>5 DEF SumsUp, h

LEMMA OneSumsUp ==
  ASSUME NEW f, IsFiniteSet(DOMAIN f), NEW g, NEW h, SumsUp(g, f), SumsUp(h, f)
  PROVE  g[DOMAIN f] = h[DOMAIN f]
<1> DEFINE S == DOMAIN f
<1> DEFINE R == StrictSubsetOrdering(S)
<1> DEFINE Bad == {T \in SUBSET S : g[T] # h[T]}
<1>1. SUFFICES ASSUME Bad # {} PROVE FALSE
  BY <1>1
<1>2. FiniteSubsetsOf(S) = SUBSET S
  BY FS_FiniteSubsetsOfFinite
<1>3. IsWellFoundedOn(R, SUBSET S)
  BY <1>2, FS_StrictSubsetOrderingWellFounded
<1>4. PICK T \in Bad : \A U \in Bad : ~ (<<U, T>> \in R)
  <2> HIDE DEF R
  <2>1. Bad \subseteq SUBSET S
    OBVIOUS
  <2> HIDE DEF Bad
  <2> QED
    BY <1>1, <1>3, <2>1, WFMin
<1>5. ASSUME NEW e, SumsUp(e, f)
      PROVE  /\ e[{}] = 0
             /\ T # {} => LET x == CHOOSE x \in T : TRUE IN e[T] = f[x] + e[T \ {x}]
  <2>1. /\ T \in SUBSET DOMAIN f /\ {} \in SUBSET DOMAIN f
        /\ e = [s \in SUBSET DOMAIN f |->
                  IF s = {} THEN 0
                  ELSE LET x == CHOOSE x \in s : TRUE IN f[x] + e[s \ {x}]]
    BY <1>4, <1>5 DEF SumsUp
  <2> QED
    BY <2>1, Zenon
<1>6. T # {}
  BY <1>4, <1>5
<1> DEFINE x == CHOOSE x \in T : TRUE
<1>7. x \in T
  BY <1>6
<1>8. <<T \ {x}, T>> \in R
  BY <1>4, <1>7 DEF StrictSubsetOrdering
<1>9. T \ {x} \notin Bad
  BY <1>4, <1>8
<1>10. g[T \ {x}] = h[T \ {x}]
  BY <1>4, <1>9
<1>11. g[T] = h[T]
  BY <1>5, <1>6, <1>10
<1> QED
  BY <1>4, <1>11

(* Whatever the order the elements are taken in.                           *)
LEMMA SumCounts ==
  ASSUME NEW f, IsFiniteSet(DOMAIN f), \A x \in DOMAIN f : f[x] \in Nat
  PROVE  SumFunction(f) = Cardinality(Coins(f, DOMAIN f))
<1> DEFINE g == CHOOSE g : SumsUp(g, f)
<1> DEFINE h == [T \in SUBSET DOMAIN f |-> Cardinality(Coins(f, T))]
<1>1. SumFunction(f) = g[DOMAIN f]
  BY Zenon DEF SumFunction, SumFunctionOnSet, FoldFunctionOnSet, MapThenFoldSet, SumsUp
<1>2. SumsUp(h, f)
  BY CoinsSumUp
<1>3. SumsUp(g, f)
  BY <1>2
<1>4. DOMAIN f \in SUBSET DOMAIN f /\ h[DOMAIN f] = Cardinality(Coins(f, DOMAIN f))
  OBVIOUS
<1> HIDE DEF g, h
<1>5. g[DOMAIN f] = h[DOMAIN f]
  BY <1>2, <1>3, OneSumsUp
<1> QED
  BY <1>1, <1>4, <1>5

-----------------------------------------------------------------------------
(* What a sum is and how it changes                                        *)

LEMMA SumType ==
  ASSUME NEW S, IsFiniteSet(S), NEW f \in [S -> Nat]
  PROVE  SumFunction(f) \in Nat
<1>1. DOMAIN f = S /\ \A x \in S : f[x] \in Nat
  OBVIOUS
<1> QED
  BY <1>1, SumCounts, CoinsFinite

LEMMA SumNone ==
  ASSUME NEW f, DOMAIN f = {}
  PROVE  SumFunction(f) = 0
<1>1. Coins(f, {}) = {}
  BY DEF Coins
<1>2. IsFiniteSet({}) /\ Cardinality({}) = 0
  BY FS_EmptySet
<1> QED
  BY <1>1, <1>2, SumCounts

(* One element set apart.                                                  *)
LEMMA SumSplit ==
  ASSUME NEW S, IsFiniteSet(S), NEW f \in [S -> Nat], NEW x \in S,
         NEW g \in [S \ {x} -> Nat], \A y \in S \ {x} : g[y] = f[y]
  PROVE  SumFunction(f) = f[x] + SumFunction(g)
<1>1. IsFiniteSet(S \ {x})
  BY FS_Difference
<1>2. /\ DOMAIN f = S /\ \A y \in S : f[y] \in Nat
      /\ DOMAIN g = S \ {x} /\ \A y \in S \ {x} : g[y] \in Nat
  OBVIOUS
<1>3. Coins(g, S \ {x}) = Coins(f, S \ {x})
  <2>1. \A y \in S \ {x} : CoinsAt(g, y) = CoinsAt(f, y)
    BY DEF CoinsAt
  <2> QED
    BY <2>1 DEF Coins
<1>4. SumFunction(f) = Cardinality(Coins(f, S))
  BY <1>2, SumCounts
<1>5. SumFunction(g) = Cardinality(Coins(f, S \ {x}))
  BY <1>1, <1>2, <1>3, SumCounts
<1>6. Cardinality(Coins(f, S)) = f[x] + Cardinality(Coins(f, S \ {x}))
  BY <1>2, CoinsSplit
<1> QED
  BY <1>4, <1>5, <1>6

(* One value changes.                                                      *)
SameBut(f, g, S, x) ==
  /\ IsFiniteSet(S) /\ f \in [S -> Nat] /\ g \in [S -> Nat]
  /\ x \in S /\ \A y \in S \ {x} : g[y] = f[y]

LEMMA SumUpdate ==
  ASSUME NEW S, NEW f, NEW g, NEW x, SameBut(f, g, S, x)
  PROVE  SumFunction(g) + f[x] = SumFunction(f) + g[x]
<1>1. /\ IsFiniteSet(S) /\ f \in [S -> Nat] /\ g \in [S -> Nat]
      /\ x \in S /\ \A y \in S \ {x} : g[y] = f[y]
  BY DEF SameBut
<1> DEFINE r == [y \in S \ {x} |-> f[y]]
<1>2. r \in [S \ {x} -> Nat] /\ \A y \in S \ {x} : r[y] = f[y] /\ r[y] = g[y]
  BY <1>1
<1>3. IsFiniteSet(S \ {x})
  BY <1>1, FS_Difference
<1> HIDE DEF r
<1>4. SumFunction(f) = f[x] + SumFunction(r) /\ SumFunction(g) = g[x] + SumFunction(r)
  BY <1>1, <1>2, SumSplit
<1>5. SumFunction(r) \in Nat /\ f[x] \in Nat /\ g[x] \in Nat
  BY <1>1, <1>2, <1>3, SumType
<1> QED
  BY <1>4, <1>5

(* One element more.                                                       *)
LEMMA SumExtend ==
  ASSUME NEW S, IsFiniteSet(S), NEW f \in [S -> Nat], NEW x, x \notin S,
         NEW g \in [S \cup {x} -> Nat], \A y \in S : g[y] = f[y]
  PROVE  SumFunction(g) = SumFunction(f) + g[x]
<1>1. IsFiniteSet(S \cup {x}) /\ (S \cup {x}) \ {x} = S /\ x \in S \cup {x}
  BY FS_AddElement
<1>2. SumFunction(g) = g[x] + SumFunction(f)
  <2> DEFINE U == S \cup {x}
  <2>1. /\ IsFiniteSet(U) /\ g \in [U -> Nat] /\ x \in U
        /\ f \in [U \ {x} -> Nat] /\ \A y \in U \ {x} : f[y] = g[y]
    BY <1>1
  <2> HIDE DEF U
  <2> QED
    BY <2>1, SumSplit
<1>3. SumFunction(f) \in Nat /\ g[x] \in Nat
  BY SumType
<1> QED
  BY <1>2, <1>3

LEMMA SumConstant ==
  ASSUME NEW S, IsFiniteSet(S), NEW n \in Nat
  PROVE  SumFunction([x \in S |-> n]) = Cardinality(S) * n
<1> DEFINE f == [x \in S |-> n]
<1>1. Coins(f, S) = S \X (1 .. n)
  BY DEF Coins, CoinsAt
<1>2. DOMAIN f = S /\ \A x \in S : f[x] \in Nat
  OBVIOUS
<1>3. IsFiniteSet(1 .. n) /\ Cardinality(1 .. n) = n
  BY FS_Interval
<1>4. Cardinality(S \X (1 .. n)) = Cardinality(S) * n
  BY <1>3, FS_Product
<1> HIDE DEF f
<1>5. SumFunction(f) = Cardinality(Coins(f, S))
  BY <1>2, SumCounts
<1> QED
  BY <1>1, <1>4, <1>5 DEF f

==============================================================================
