-------------------------------- MODULE Sums --------------------------------
(***************************************************************************)
(* Lemmas about SumFunction, with which the models add up the items of an  *)
(* order and the counts of a summary: that it is well defined on a finite  *)
(* domain, how it moves with its terms, and that the sizes of disjoint     *)
(* parts add up to the size of the whole.                                  *)
(*                                                                         *)
(* The proofs are by induction over subsets of the domain.  It comes from  *)
(* the theorem that a well-founded set has a minimal element (WFMin),      *)
(* taken of the counterexamples: sets C of which the induction shows that  *)
(* everything is in them stand for predicates.                             *)
(***************************************************************************)
EXTENDS FiniteSetTheorems, TLAPS

-----------------------------------------------------------------------------
(* Induction.                                                              *)

LEMMA NumberInduction ==
  ASSUME NEW C, 0 \in C, \A n \in Nat : n \in C => n + 1 \in C
  PROVE  Nat \subseteq C
<1> DEFINE D == Nat \ C
<1>1. SUFFICES ASSUME D # {}
               PROVE  FALSE
  OBVIOUS
<1>2. PICK n \in D : \A m \in D : <<m, n>> \notin OpToRel(<, Nat)
  <2>1. D \subseteq Nat
    OBVIOUS
  <2>2. QED
    BY <1>1, <2>1, NatLessThanWellFounded, WFMin
<1>3. \A m \in D : ~(m < n)
  BY <1>2 DEF OpToRel
<1>4. n # 0 /\ n \in Nat
  OBVIOUS
<1>5. n - 1 \in C
  BY <1>3, <1>4
<1>6. QED
  BY <1>4, <1>5

\* What holds of a set as soon as it holds without any one element holds of the set.
LEMMA SubsetInduction ==
  ASSUME NEW S, IsFiniteSet(S), NEW C,
         \A T \in SUBSET S : (\A x \in T : T \ {x} \in C) => T \in C
  PROVE  SUBSET S \subseteq C
<1> DEFINE D == (SUBSET S) \ C
<1>1. IsWellFoundedOn(StrictSubsetOrdering(S), SUBSET S)
  BY FS_StrictSubsetOrderingWellFounded, FS_FiniteSubsetsOfFinite
<1>2. SUFFICES ASSUME D # {}
               PROVE  FALSE
  OBVIOUS
<1>3. PICK T \in D : \A U \in D : <<U, T>> \notin StrictSubsetOrdering(S)
  <2>1. D \subseteq SUBSET S /\ D # {}
    BY <1>2
  <2>2. QED
    BY <1>1, <2>1, WFMin
<1>4. ASSUME NEW x \in T
      PROVE  T \ {x} \in C
  <2>1. <<T \ {x}, T>> \in StrictSubsetOrdering(S)
    BY <1>4 DEF StrictSubsetOrdering
  <2>2. QED
    BY <1>3, <2>1
<1>5. QED
  BY <1>3, <1>4

-----------------------------------------------------------------------------
(* SumFunction adds up what it should.                                     *)

Picked(T) == CHOOSE x \in T : TRUE

LEMMA PickedIsIn ==
  ASSUME NEW T, T # {}
  PROVE  Picked(T) \in T
  BY DEF Picked

\* The recursion of SumFunction, on those subsets of its domain that Ts holds.
SumsUp(sum, v, Ts) ==
    sum = [T \in Ts |-> IF T = {} THEN 0 ELSE v[Picked(T)] + sum[T \ {Picked(T)}]]

LEMMA SumsExist ==
  ASSUME NEW S, IsFiniteSet(S), NEW v \in [S -> Int]
  PROVE  \E sum \in [SUBSET S -> Int] : SumsUp(sum, v, SUBSET S)
<1> DEFINE Small(n) == {T \in SUBSET S : Cardinality(T) <= n}
           C == {n \in Nat : \E f \in [Small(n) -> Int] : SumsUp(f, v, Small(n))}
<1>1. 0 \in C
  <2> DEFINE sum == [T \in Small(0) |-> 0]
  <2>1. \A T \in Small(0) : T = {}
    BY FS_EmptySet, FS_Subset, FS_CardinalityType
  <2>2. sum = [T \in Small(0) |-> IF T = {} THEN 0 ELSE v[Picked(T)] + sum[T \ {Picked(T)}]]
    BY <2>1
  <2>3. sum \in [Small(0) -> Int]
    OBVIOUS
  <2>4. QED
    BY <2>2, <2>3 DEF SumsUp
<1>2. ASSUME NEW n \in Nat, n \in C
      PROVE  n + 1 \in C
  <2>1. PICK less \in [Small(n) -> Int] : SumsUp(less, v, Small(n))
    BY <1>2
  <2> DEFINE sum == [T \in Small(n + 1) |->
                       IF T = {} THEN 0 ELSE v[Picked(T)] + less[T \ {Picked(T)}]]
  <2>2. ASSUME NEW T \in Small(n + 1), T # {}
        PROVE  /\ T \ {Picked(T)} \in Small(n)
               /\ v[Picked(T)] \in Int
    BY <2>2, PickedIsIn, FS_RemoveElement, FS_Subset, FS_CardinalityType
  <2>3. \A U \in Small(n) : U \in Small(n + 1) /\ sum[U] = less[U]
    <3>1. Small(n) \subseteq Small(n + 1)
      BY FS_Subset, FS_CardinalityType
    <3>2. QED
      BY <2>1, <3>1 DEF SumsUp
  <2>4. sum \in [Small(n + 1) -> Int]
    BY <2>2
  <2>5. SumsUp(sum, v, Small(n + 1))
    BY <2>2, <2>3 DEF SumsUp
  <2>6. \E f \in [Small(n + 1) -> Int] : SumsUp(f, v, Small(n + 1))
    BY <2>4, <2>5
  <2> HIDE DEF Small
  <2>7. QED
    BY <2>6
<1>3. Cardinality(S) \in C
  <2>1. Nat \subseteq C
    BY <1>1, <1>2, NumberInduction
  <2>2. QED
    BY <2>1, FS_CardinalityType
<1>4. Small(Cardinality(S)) = SUBSET S
  BY FS_Subset
<1>5. QED
  BY <1>3, <1>4

\* The sum over nothing is 0, and the sum over a set is a term and the sum of the rest.
Adds(sum, S, v) ==
    /\ sum \in [SUBSET S -> Int]
    /\ sum[{}] = 0
    /\ \A T \in SUBSET S : T # {} => sum[T] = v[Picked(T)] + sum[T \ {Picked(T)}]

LEMMA SumUnfolds ==
  ASSUME NEW S, IsFiniteSet(S), NEW v \in [S -> Int]
  PROVE  \E sum : Adds(sum, S, v) /\ SumFunction(v) = sum[S]
<1> DEFINE sum == CHOOSE f : SumsUp(f, v, SUBSET S)
<1>1. SumFunction(v) = sum[S]
  <2>1. DOMAIN v = S
    OBVIOUS
  <2>2. QED
    BY <2>1 DEF SumFunction, SumFunctionOnSet, FoldFunctionOnSet, MapThenFoldSet, SumsUp, Picked
<1>2. SumsUp(sum, v, SUBSET S)
  BY SumsExist
<1> HIDE DEF sum
<1>3. \A T \in SUBSET S : sum[T] = IF T = {} THEN 0 ELSE v[Picked(T)] + sum[T \ {Picked(T)}]
  BY <1>2 DEF SumsUp
<1>4. SUBSET S \subseteq {T \in SUBSET S : sum[T] \in Int}
  <2> DEFINE C == {T \in SUBSET S : sum[T] \in Int}
  <2>1. ASSUME NEW T \in SUBSET S, \A x \in T : T \ {x} \in C
        PROVE  T \in C
    <3>1. CASE T = {}
      <4>1. sum[T] = 0
        BY <1>3, <3>1
      <4>2. QED
        BY <4>1
    <3>2. CASE T # {}
      <4> DEFINE x == Picked(T)
      <4>1. x \in T
        BY <3>2, PickedIsIn
      <4>2. sum[T] = v[x] + sum[T \ {x}]
        BY <1>3, <3>2
      <4>3. v[x] \in Int /\ sum[T \ {x}] \in Int
        BY <2>1, <4>1
      <4> HIDE DEF x
      <4>4. QED
        BY <4>2, <4>3
    <3>3. QED
      BY <3>1, <3>2
  <2> HIDE DEF C
  <2>2. SUBSET S \subseteq C
    BY <2>1, SubsetInduction
  <2>3. QED
    BY <2>2 DEF C
<1>5. sum \in [SUBSET S -> Int]
  BY <1>2, <1>4 DEF SumsUp
<1>6. QED
  BY <1>1, <1>3, <1>5 DEF Adds

LEMMA SumIsInt ==
  ASSUME NEW S, IsFiniteSet(S), NEW v \in [S -> Int]
  PROVE  SumFunction(v) \in Int
<1>1. PICK sum : Adds(sum, S, v) /\ SumFunction(v) = sum[S]
  BY SumUnfolds
<1>2. S \in SUBSET S
  OBVIOUS
<1>3. QED
  BY <1>1, <1>2 DEF Adds

-----------------------------------------------------------------------------
(* How sums move with their terms.                                         *)

LEMMA SumMonotonic ==
  ASSUME NEW S, IsFiniteSet(S), NEW v \in [S -> Int], NEW w \in [S -> Int],
         \A x \in S : v[x] <= w[x]
  PROVE  SumFunction(v) <= SumFunction(w)
<1>1. PICK f : Adds(f, S, v) /\ SumFunction(v) = f[S]
  BY SumUnfolds
<1>2. PICK g : Adds(g, S, w) /\ SumFunction(w) = g[S]
  BY SumUnfolds
<1> DEFINE C == {T \in SUBSET S : f[T] <= g[T]}
<1>3. ASSUME NEW T \in SUBSET S, \A x \in T : T \ {x} \in C
      PROVE  T \in C
  <2>1. CASE T = {}
    BY <1>1, <1>2, <2>1 DEF Adds
  <2>2. CASE T # {}
    <3> DEFINE x == Picked(T)
    <3>1. x \in T
      BY <2>2, PickedIsIn
    <3>2. /\ f[T] = v[x] + f[T \ {x}]
          /\ g[T] = w[x] + g[T \ {x}]
      BY <1>1, <1>2, <2>2 DEF Adds
    <3>3. /\ v[x] \in Int /\ f[T \ {x}] \in Int
          /\ w[x] \in Int /\ g[T \ {x}] \in Int
      BY <1>1, <1>2, <3>1 DEF Adds
    <3>4. v[x] <= w[x] /\ f[T \ {x}] <= g[T \ {x}]
      BY <1>3, <3>1
    <3> HIDE DEF x
    <3>5. QED
      BY <3>2, <3>3, <3>4
  <2>3. QED
    BY <2>1, <2>2
<1> HIDE DEF C
<1>4. SUBSET S \subseteq C
  BY <1>3, SubsetInduction
<1>5. QED
  BY <1>1, <1>2, <1>4 DEF C

LEMMA SumOfSums ==
  ASSUME NEW S, IsFiniteSet(S), NEW u \in [S -> Int], NEW v \in [S -> Int],
         NEW w \in [S -> Int], \A x \in S : w[x] = u[x] + v[x]
  PROVE  SumFunction(w) = SumFunction(u) + SumFunction(v)
<1>1. PICK f : Adds(f, S, u) /\ SumFunction(u) = f[S]
  BY SumUnfolds
<1>2. PICK g : Adds(g, S, v) /\ SumFunction(v) = g[S]
  BY SumUnfolds
<1>3. PICK h : Adds(h, S, w) /\ SumFunction(w) = h[S]
  BY SumUnfolds
<1> DEFINE C == {T \in SUBSET S : h[T] = f[T] + g[T]}
<1>4. ASSUME NEW T \in SUBSET S, \A x \in T : T \ {x} \in C
      PROVE  T \in C
  <2>1. CASE T = {}
    BY <1>1, <1>2, <1>3, <2>1 DEF Adds
  <2>2. CASE T # {}
    <3> DEFINE x == Picked(T)
    <3>1. x \in T
      BY <2>2, PickedIsIn
    <3>2. /\ f[T] = u[x] + f[T \ {x}]
          /\ g[T] = v[x] + g[T \ {x}]
          /\ h[T] = w[x] + h[T \ {x}]
      BY <1>1, <1>2, <1>3, <2>2 DEF Adds
    <3>3. /\ u[x] \in Int /\ f[T \ {x}] \in Int
          /\ v[x] \in Int /\ g[T \ {x}] \in Int
      BY <1>1, <1>2, <1>3, <3>1 DEF Adds
    <3>4. w[x] = u[x] + v[x] /\ h[T \ {x}] = f[T \ {x}] + g[T \ {x}]
      BY <1>4, <3>1
    <3> HIDE DEF x
    <3>5. QED
      BY <3>2, <3>3, <3>4
  <2>3. QED
    BY <2>1, <2>2
<1> HIDE DEF C
<1>5. SUBSET S \subseteq C
  BY <1>4, SubsetInduction
<1>6. QED
  BY <1>1, <1>2, <1>3, <1>5 DEF C

LEMMA SumScaled ==
  ASSUME NEW S, IsFiniteSet(S), NEW k \in Int, NEW v \in [S -> Int], NEW w \in [S -> Int],
         \A x \in S : w[x] = k * v[x]
  PROVE  SumFunction(w) = k * SumFunction(v)
<1>1. PICK f : Adds(f, S, v) /\ SumFunction(v) = f[S]
  BY SumUnfolds
<1>2. PICK g : Adds(g, S, w) /\ SumFunction(w) = g[S]
  BY SumUnfolds
<1> DEFINE C == {T \in SUBSET S : g[T] = k * f[T]}
<1>3. ASSUME NEW T \in SUBSET S, \A x \in T : T \ {x} \in C
      PROVE  T \in C
  <2>1. CASE T = {}
    BY <1>1, <1>2, <2>1 DEF Adds
  <2>2. CASE T # {}
    <3> DEFINE x == Picked(T)
    <3>1. x \in T
      BY <2>2, PickedIsIn
    <3>2. /\ f[T] = v[x] + f[T \ {x}]
          /\ g[T] = w[x] + g[T \ {x}]
      BY <1>1, <1>2, <2>2 DEF Adds
    <3>3. /\ v[x] \in Int /\ f[T \ {x}] \in Int
      BY <1>1, <1>2, <3>1 DEF Adds
    <3>4. w[x] = k * v[x] /\ g[T \ {x}] = k * f[T \ {x}]
      BY <1>3, <3>1
    <3> HIDE DEF x
    <3>5. \A a, b \in Int : k * (a + b) = k * a + k * b
      OBVIOUS
    <3>6. k * (v[x] + f[T \ {x}]) = k * v[x] + k * f[T \ {x}]
      BY <3>3, <3>5
    <3>7. QED
      BY <3>2, <3>4, <3>6
  <2>3. QED
    BY <2>1, <2>2
<1> HIDE DEF C
<1>4. SUBSET S \subseteq C
  BY <1>3, SubsetInduction
<1>5. QED
  BY <1>1, <1>2, <1>4 DEF C

\* A bound on each term, linear in other terms, is one on the sum.
LEMMA SumLinear ==
  ASSUME NEW S, IsFiniteSet(S), NEW u \in [S -> Int], NEW v \in [S -> Int],
         NEW w \in [S -> Int], NEW a \in Int, NEW b \in Int, NEW c \in Int,
         \A x \in S : a * u[x] <= b * v[x] + c * w[x]
  PROVE  a * SumFunction(u) <= b * SumFunction(v) + c * SumFunction(w)
<1> DEFINE au == [x \in S |-> a * u[x]]
           bv == [x \in S |-> b * v[x]]
           cw == [x \in S |-> c * w[x]]
           r  == [x \in S |-> bv[x] + cw[x]]
<1>1. /\ au \in [S -> Int] /\ \A x \in S : au[x] = a * u[x]
      /\ bv \in [S -> Int] /\ \A x \in S : bv[x] = b * v[x]
      /\ cw \in [S -> Int] /\ \A x \in S : cw[x] = c * w[x]
  <2>1. \A i, j \in Int : i * j \in Int
    OBVIOUS
  <2>2. QED
    BY <2>1
<1>2. r \in [S -> Int] /\ \A x \in S : r[x] = bv[x] + cw[x]
  BY <1>1
<1> HIDE DEF au, bv, cw, r
<1>3. \A x \in S : au[x] <= r[x]
  BY <1>1, <1>2
<1>4. /\ SumFunction(au) = a * SumFunction(u)
      /\ SumFunction(bv) = b * SumFunction(v)
      /\ SumFunction(cw) = c * SumFunction(w)
  BY <1>1, SumScaled
<1>5. SumFunction(r) = SumFunction(bv) + SumFunction(cw)
  <2>1. /\ bv \in [S -> Int] /\ cw \in [S -> Int] /\ r \in [S -> Int]
        /\ \A x \in S : r[x] = bv[x] + cw[x]
    BY <1>1, <1>2
  <2>2. QED
    BY <2>1, SumOfSums
<1>6. SumFunction(au) <= SumFunction(r)
  BY <1>1, <1>2, <1>3, SumMonotonic
<1>7. QED
  BY <1>4, <1>5, <1>6

LEMMA SumIsNat ==
  ASSUME NEW S, IsFiniteSet(S), NEW v \in [S -> Nat]
  PROVE  SumFunction(v) \in Nat
<1> DEFINE zero == [x \in S |-> 0]
<1>1. v \in [S -> Int] /\ zero \in [S -> Int]
  OBVIOUS
<1>2. \A x \in S : zero[x] <= v[x] /\ zero[x] = 0 * v[x]
  OBVIOUS
<1> HIDE DEF zero
<1>3. SumFunction(v) \in Int
  BY <1>1, SumIsInt
<1>4. SumFunction(zero) = 0 * SumFunction(v)
  BY <1>1, <1>2, SumScaled
<1>5. SumFunction(zero) <= SumFunction(v)
  BY <1>1, <1>2, SumMonotonic
<1>6. QED
  BY <1>3, <1>4, <1>5

\* A sum of terms that are at most b each.
LEMMA SumBounded ==
  ASSUME NEW S, IsFiniteSet(S), NEW b \in Int, NEW v \in [S -> Int],
         \A x \in S : v[x] <= b
  PROVE  SumFunction(v) <= b * Cardinality(S)
<1>1. PICK f : Adds(f, S, v) /\ SumFunction(v) = f[S]
  BY SumUnfolds
<1> DEFINE C == {T \in SUBSET S : f[T] <= b * Cardinality(T)}
<1>2. ASSUME NEW T \in SUBSET S, \A x \in T : T \ {x} \in C
      PROVE  T \in C
  <2>1. IsFiniteSet(T) /\ Cardinality(T) \in Nat
    BY FS_Subset, FS_CardinalityType
  <2>2. CASE T = {}
    BY <1>1, <2>2, FS_EmptySet DEF Adds
  <2>3. CASE T # {}
    <3> DEFINE x == Picked(T)
    <3>1. x \in T
      BY <2>3, PickedIsIn
    <3>2. Cardinality(T \ {x}) = Cardinality(T) - 1
      BY <2>1, <3>1, FS_RemoveElement
    <3>3. f[T] = v[x] + f[T \ {x}] /\ f[T \ {x}] <= b * Cardinality(T \ {x})
      BY <1>1, <1>2, <2>3, <3>1 DEF Adds
    <3>4. v[x] \in Int /\ f[T \ {x}] \in Int /\ v[x] <= b
      BY <1>1, <3>1 DEF Adds
    <3> HIDE DEF x
    <3>5. f[T] <= b + b * (Cardinality(T) - 1)
      BY <2>1, <3>2, <3>3, <3>4
    <3>6. b + b * (Cardinality(T) - 1) = b * Cardinality(T)
      BY <2>1
    <3>7. QED
      BY <3>5, <3>6
  <2>4. QED
    BY <2>2, <2>3
<1> HIDE DEF C
<1>3. SUBSET S \subseteq C
  BY <1>2, SubsetInduction
<1>4. QED
  BY <1>1, <1>3 DEF C

\* Terms of which m together are at most b, and a sum of no more than m of them.
LEMMA SumFits ==
  ASSUME NEW S, IsFiniteSet(S), NEW v \in [S -> Int], NEW k \in Nat, NEW b \in Nat,
         NEW m \in Nat \ {0}, Cardinality(S) <= m, \A x \in S : m * (k * v[x]) <= b
  PROVE  k * SumFunction(v) <= b
<1> DEFINE l == m * k
           w == [x \in S |-> l * v[x]]
           N == SumFunction(v)
<1>1. Cardinality(S) \in Nat /\ N \in Int /\ l \in Int
  BY FS_CardinalityType, SumIsInt
<1>2. \A a \in Int : l * a = m * (k * a) /\ l * a \in Int
  OBVIOUS
<1> HIDE DEF l, N
<1>3. w \in [S -> Int] /\ \A x \in S : w[x] = l * v[x] /\ w[x] <= b
  BY <1>2
<1> HIDE DEF w
<1>4. SumFunction(w) = l * N
  BY <1>1, <1>3, SumScaled DEF N
<1>5. SumFunction(w) <= b * Cardinality(S)
  BY <1>3, SumBounded
<1>6. b * Cardinality(S) <= b * m
  <2>1. \A i, j, h \in Nat : i <= j => h * i <= h * j
    OBVIOUS
  <2>2. QED
    BY <1>1, <2>1
<1>7. m * (k * N) <= m * b
  <2>1. l * N = m * (k * N) /\ l * N \in Int
    BY <1>1, <1>2
  <2>2. b * m = m * b /\ b * m \in Int /\ b * Cardinality(S) \in Int
    BY <1>1
  <2> DEFINE d == b * Cardinality(S)
             e == l * N
             f == m * b
             g == b * m
             h == m * (k * N)
  <2>3. e <= d /\ d <= g /\ e = h /\ g = f /\ d \in Int /\ e \in Int /\ g \in Int
    BY <1>4, <1>5, <1>6, <2>1, <2>2
  <2> HIDE DEF d, e, f, g, h
  <2>4. h <= f
    BY <2>3
  <2>5. QED
    BY <2>4 DEF h, f
<1>8. \A i, j \in Int, h \in Nat \ {0} : h * i <= h * j => i <= j
  <2> SUFFICES ASSUME NEW i \in Int, NEW j \in Int, NEW h \in Nat \ {0}, i > j
               PROVE  h * i > h * j
    OBVIOUS
  <2>1. h * (i - j) >= 1 /\ h * i = h * j + h * (i - j)
    OBVIOUS
  <2>2. h * j \in Int /\ h * (i - j) \in Int
    OBVIOUS
  <2>3. QED
    BY <2>1, <2>2
<1>9. k * N \in Int
  BY <1>1
<1>10. QED
  BY <1>7, <1>8, <1>9 DEF N

-----------------------------------------------------------------------------
(* Counting.                                                               *)

\* The numbers of elements by class add up to the number of all elements.
LEMMA SumOfClasses ==
  ASSUME NEW E, IsFiniteSet(E), NEW S, IsFiniteSet(S), NEW class \in [E -> S]
  PROVE  SumFunction([s \in S |-> Cardinality({e \in E : class[e] = s})]) = Cardinality(E)
<1> DEFINE v == [s \in S |-> Cardinality({e \in E : class[e] = s})]
           In(T) == {e \in E : class[e] \in T}
<1>0. v \in [S -> Int]
  BY FS_Subset, FS_CardinalityType
<1> HIDE DEF v
<1>1. PICK f : Adds(f, S, v) /\ SumFunction(v) = f[S]
  BY <1>0, SumUnfolds
<1> DEFINE C == {T \in SUBSET S : f[T] = Cardinality(In(T))}
<1>2. ASSUME NEW T \in SUBSET S, \A x \in T : T \ {x} \in C
      PROVE  T \in C
  <2>1. CASE T = {}
    <3>1. In(T) = {}
      BY <2>1
    <3>2. QED
      BY <1>1, <2>1, <3>1, FS_EmptySet DEF Adds
  <2>2. CASE T # {}
    <3> DEFINE x == Picked(T)
    <3>1. x \in T
      BY <2>2, PickedIsIn
    <3>2. f[T] = v[x] + f[T \ {x}] /\ f[T \ {x}] = Cardinality(In(T \ {x}))
      BY <1>1, <1>2, <2>2, <3>1 DEF Adds
    <3>3. v[x] = Cardinality({e \in E : class[e] = x})
      BY <3>1 DEF v
    <3> HIDE DEF x
    <3>4. /\ In(T) = {e \in E : class[e] = x} \cup In(T \ {x})
          /\ {e \in E : class[e] = x} \cap In(T \ {x}) = {}
      BY <3>1
    <3>5. /\ IsFiniteSet({e \in E : class[e] = x})
          /\ IsFiniteSet(In(T \ {x}))
      BY FS_Subset
    <3>6. Cardinality(In(T)) = Cardinality({e \in E : class[e] = x}) + Cardinality(In(T \ {x}))
      <4> DEFINE A == {e \in E : class[e] = x}
                 B == In(T \ {x})
      <4> HIDE DEF A, B
      <4>1. Cardinality(A \cup B) = Cardinality(A) + Cardinality(B) - Cardinality(A \cap B)
        BY <3>5, FS_Union DEF A, B
      <4>2. Cardinality(A) \in Nat /\ Cardinality(B) \in Nat
        BY <3>5, FS_CardinalityType DEF A, B
      <4>3. A \cap B = {} /\ In(T) = A \cup B
        BY <3>4 DEF A, B
      <4>4. Cardinality(A \cup B) = Cardinality(A) + Cardinality(B)
        BY <4>1, <4>2, <4>3, FS_EmptySet
      <4>5. QED
        BY <4>3, <4>4 DEF A, B
    <3>7. QED
      BY <3>2, <3>3, <3>6
  <2>3. QED
    BY <2>1, <2>2
<1> HIDE DEF C
<1>3. SUBSET S \subseteq C
  BY <1>2, SubsetInduction
<1>4. In(S) = E
  OBVIOUS
<1>5. f[S] = Cardinality(In(S))
  BY <1>3 DEF C
<1>6. QED
  BY <1>1, <1>4, <1>5 DEF v
=============================================================================
