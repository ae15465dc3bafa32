---------------------------- MODULE DataInduction ----------------------------
(***************************************************************************)
(* Induction over numbers and over the subsets of a finite set, stated     *)
(* with sets in place of predicates, and what it gives about sums: that    *)
(* SumFunction, which folds a function over its domain in an order it      *)
(* chooses, adds up every value once, whatever the order.                  *)
(***************************************************************************)
EXTENDS Functions, FiniteSetTheorems, TLAPS

-----------------------------------------------------------------------------
(* Induction *)

\* A set of numbers has a least one.
LEMMA LeastNatural ==
  ASSUME NEW S \in SUBSET Nat, S # {}
  PROVE  \E n \in S : \A m \in S : n <= m
<1> DEFINE R == OpToRel(<, Nat)
<1>1. IsWellFoundedOn(R, Nat)
  BY NatLessThanWellFounded
<1> HIDE DEF R
<1>2. PICK n \in S : \A m \in S : ~(<<m, n>> \in R)
  BY <1>1, WFMin
<1>3. \A m \in S : ~(m < n)
  BY <1>2 DEF R, OpToRel
<1>4. QED
  BY <1>3

\* Induction over the numbers, for a set of them.
LEMMA NatSetInduction ==
  ASSUME NEW T, 0 \in T, \A n \in Nat : n \in T => n + 1 \in T
  PROVE  Nat \subseteq T
<1> DEFINE S == Nat \ T
<1>1. ASSUME S # {} PROVE FALSE
  <2>1. PICK n \in S : \A m \in S : n <= m
    BY <1>1, LeastNatural
  <2>2. n # 0 /\ n - 1 \in Nat /\ n - 1 \notin S
    BY <2>1
  <2>3. n - 1 + 1 \in T
    BY <2>2
  <2>4. QED
    BY <2>1, <2>3
<1>2. QED
  BY <1>1

\* Induction along a sequence of n places, up from the first and down from the last.
LEMMA UpwardInduction ==
  ASSUME NEW n \in Nat, NEW T, 1 \in T, \A i \in 1 .. n : i \in T /\ i < n => i + 1 \in T
  PROVE  1 .. n \subseteq T
<1> DEFINE S == {k \in Nat : k + 1 <= n => k + 1 \in T}
<1>1. 0 \in S
  OBVIOUS
<1>2. ASSUME NEW k \in Nat, k \in S PROVE k + 1 \in S
  BY <1>2
<1> HIDE DEF S
<1>3. Nat \subseteq S
  BY <1>1, <1>2, NatSetInduction
<1>4. QED
  <2>1. SUFFICES ASSUME NEW i \in 1 .. n PROVE i \in T
    OBVIOUS
  <2>2. i - 1 \in Nat /\ i - 1 + 1 = i /\ i <= n
    OBVIOUS
  <2>3. QED
    BY <1>3, <2>2 DEF S

LEMMA DownwardInduction ==
  ASSUME NEW n \in Nat, NEW T, n \in T, \A i \in 1 .. n : i + 1 \in T /\ i < n => i \in T
  PROVE  1 .. n \subseteq T
<1> DEFINE S == {k \in Nat : k < n => n - k \in T}
<1>1. 0 \in S
  OBVIOUS
<1>2. ASSUME NEW k \in Nat, k \in S PROVE k + 1 \in S
  <2>1. SUFFICES ASSUME k + 1 < n PROVE n - (k + 1) \in T
    OBVIOUS
  <2>2. n - (k + 1) \in 1 .. n /\ n - (k + 1) < n /\ n - (k + 1) + 1 = n - k /\ k < n
    BY <2>1
  <2>3. QED
    BY <1>2, <2>2
<1> HIDE DEF S
<1>3. Nat \subseteq S
  BY <1>1, <1>2, NatSetInduction
<1>4. QED
  <2>1. SUFFICES ASSUME NEW i \in 1 .. n PROVE i \in T
    OBVIOUS
  <2>2. n - i \in Nat /\ n - i < n /\ n - (n - i) = i
    OBVIOUS
  <2>3. QED
    BY <1>3, <2>2 DEF S

\* Induction over the subsets of a finite set, for a set of them.
LEMMA SubsetInduction ==
  ASSUME NEW D, IsFiniteSet(D), NEW T,
         \A s \in SUBSET D : (\A u \in SUBSET s : u # s => u \in T) => s \in T
  PROVE  \A s \in SUBSET D : s \in T
<1> DEFINE R == StrictSubsetOrdering(D)
           S == (SUBSET D) \ T
<1>1. IsWellFoundedOn(R, SUBSET D)
  BY FS_StrictSubsetOrderingWellFounded, FS_FiniteSubsetsOfFinite
<1>2. S \subseteq SUBSET D
  OBVIOUS
<1> HIDE DEF R, S
<1>3. ASSUME S # {} PROVE FALSE
  <2>1. PICK s \in S : \A u \in S : ~(<<u, s>> \in R)
    BY <1>1, <1>2, <1>3, WFMin
  <2>2. s \in SUBSET D /\ s \notin T
    BY <2>1 DEF S
  <2>3. ASSUME NEW u \in SUBSET s, u # s PROVE u \in T
    <3>1. u \in SUBSET D /\ <<u, s>> \in R
      BY <2>2, <2>3 DEF R, StrictSubsetOrdering
    <3>2. QED
      BY <2>1, <3>1 DEF S
  <2>4. QED
    BY <2>2, <2>3
<1>4. QED
  BY <1>3 DEF S

-----------------------------------------------------------------------------
(* Sums *)

\* One step of a sum over s: g adds up what is left.
OneOf(s) == CHOOSE x \in s : TRUE
SumStep(f, g, s) == IF s = {} THEN 0 ELSE f[OneOf(s)] + g[s \ {OneOf(s)}]
SumRecursion(f, D, g) == g = [s \in SUBSET D |-> SumStep(f, g, s)]

\* What SumFunction abbreviates.
LEMMA SumIsRecursive ==
  ASSUME NEW D, NEW f, DOMAIN f = D
  PROVE  SumFunction(f) = (CHOOSE g : SumRecursion(f, D, g))[D]
BY DEF SumFunction, SumFunctionOnSet, FoldFunctionOnSet, MapThenFoldSet, SumRecursion, SumStep,
       OneOf

\* There is such a function: for sets of at most n elements, by induction over n.
LEMMA RecursionExists ==
  ASSUME NEW D, IsFiniteSet(D), NEW f \in [D -> Int]
  PROVE  \E g : SumRecursion(f, D, g)
<1> DEFINE Small(n) == {s \in SUBSET D : Cardinality(s) <= n}
           Reached(n) == \E g \in [Small(n) -> Int] : \A s \in Small(n) : g[s] = SumStep(f, g, s)
<1>1. \A s \in SUBSET D : IsFiniteSet(s) /\ Cardinality(s) \in Nat
  BY FS_Subset, FS_CardinalityType
<1>2. Reached(0)
  <2>1. \A s \in Small(0) : s = {}
    BY <1>1, FS_EmptySet
  <2>2. [s \in Small(0) |-> 0] \in [Small(0) -> Int]
    OBVIOUS
  <2>3. \A s \in Small(0) : SumStep(f, [u \in Small(0) |-> 0], s) = 0
    BY <2>1 DEF SumStep
  <2>4. QED
    BY <2>2, <2>3
<1>3. ASSUME NEW n \in Nat, Reached(n) PROVE Reached(n + 1)
  <2>1. PICK g \in [Small(n) -> Int] : \A s \in Small(n) : g[s] = SumStep(f, g, s)
    BY <1>3
  <2> DEFINE h == [s \in Small(n + 1) |-> SumStep(f, g, s)]
  <2>2. \A s \in Small(n + 1) : s # {} => OneOf(s) \in D /\ s \ {OneOf(s)} \in Small(n)
    <3> SUFFICES ASSUME NEW s \in Small(n + 1), s # {}
                 PROVE  OneOf(s) \in D /\ s \ {OneOf(s)} \in Small(n)
      OBVIOUS
    <3>1. OneOf(s) \in s
      BY DEF OneOf
    <3>2. Cardinality(s \ {OneOf(s)}) = Cardinality(s) - 1
      BY <1>1, <3>1, FS_RemoveElement
    <3>3. QED
      BY <1>1, <3>1, <3>2
  <2>3. Small(n) \subseteq Small(n + 1)
    BY <1>1
  <2> HIDE DEF Small
  <2>4. h \in [Small(n + 1) -> Int]
    BY <2>2 DEF SumStep
  <2>5. \A s \in Small(n) : h[s] = g[s]
    BY <2>1, <2>3
  <2>6. \A s \in Small(n + 1) : h[s] = SumStep(f, h, s)
    BY <2>2, <2>5 DEF SumStep
  <2>7. QED
    BY <2>4, <2>6
<1>4. \A n \in Nat : Reached(n)
  <2> DEFINE T == {n \in Nat : Reached(n)}
  <2> HIDE DEF Reached
  <2>1. 0 \in T /\ \A n \in Nat : n \in T => n + 1 \in T
    BY <1>2, <1>3
  <2> HIDE DEF T
  <2>2. Nat \subseteq T
    BY <2>1, NatSetInduction
  <2>3. QED
    BY <2>2 DEF T
<1>5. Small(Cardinality(D)) = SUBSET D /\ Cardinality(D) \in Nat
  BY FS_Subset, FS_CardinalityType
<1>6. PICK g \in [SUBSET D -> Int] : \A s \in SUBSET D : g[s] = SumStep(f, g, s)
  <2>1. Reached(Cardinality(D))
    BY <1>4, <1>5
  <2> HIDE DEF Small
  <2>2. QED
    BY <1>5, <2>1
<1>7. SumRecursion(f, D, g)
  BY <1>6 DEF SumRecursion
<1>8. QED
  BY <1>7

\* g is the sum of f over every subset of its domain, and any element may come first.
Sums(f, D, g) ==
  /\ g \in [SUBSET D -> Int] /\ g[D] = SumFunction(f) /\ g[{}] = 0
  /\ \A s \in SUBSET D : \A x \in s : g[s] = f[x] + g[s \ {x}]

\* The order that the fold chooses does not matter.
LEMMA SumsExist ==
  ASSUME NEW D, IsFiniteSet(D), NEW f \in [D -> Int]
  PROVE  \E g : Sums(f, D, g)
<1> DEFINE g == CHOOSE g : SumRecursion(f, D, g)
<1>1. g = [s \in SUBSET D |-> SumStep(f, g, s)]
  <2>1. SumRecursion(f, D, g)
    BY RecursionExists, Zenon
  <2>2. QED
    BY <2>1 DEF SumRecursion
<1>2. g[D] = SumFunction(f)
  <2>1. DOMAIN f = D
    OBVIOUS
  <2>2. QED
    BY <2>1, SumIsRecursive, Zenon
<1> HIDE DEF g
<1>3. \A s \in SUBSET D :
        g[s] = IF s = {} THEN 0 ELSE f[OneOf(s)] + g[s \ {OneOf(s)}]
  BY <1>1 DEF SumStep
<1>4. \A s \in SUBSET D : s # {} => OneOf(s) \in s
  BY DEF OneOf
<1>5. \A s \in SUBSET D : g[s] \in Int
  <2> DEFINE T == {u \in SUBSET D : g[u] \in Int}
  <2>1. ASSUME NEW s \in SUBSET D, \A u \in SUBSET s : u # s => u \in T PROVE s \in T
    <3>1. CASE s = {}
      <4>1. g[s] = 0
        BY <1>3, <3>1, Zenon
      <4>2. QED
        BY <4>1
    <3>2. CASE s # {}
      <4>1. OneOf(s) \in s /\ s \ {OneOf(s)} \in T
        BY <1>4, <2>1, <3>2
      <4>2. g[s] = f[OneOf(s)] + g[s \ {OneOf(s)}]
        BY <1>3, <3>2
      <4>3. f[OneOf(s)] \in Int /\ g[s \ {OneOf(s)}] \in Int
        BY <4>1
      <4>4. QED
        BY <4>2, <4>3
    <3>3. QED
      BY <3>1, <3>2
  <2> HIDE DEF T
  <2>2. \A s \in SUBSET D : s \in T
    BY <2>1, SubsetInduction
  <2>3. QED
    BY <2>2 DEF T
<1>6. \A s \in SUBSET D : \A x \in s : g[s] = f[x] + g[s \ {x}]
  <2> DEFINE T == {u \in SUBSET D : \A x \in u : g[u] = f[x] + g[u \ {x}]}
  <2>1. ASSUME NEW s \in SUBSET D, \A u \in SUBSET s : u # s => u \in T PROVE s \in T
    <3> SUFFICES ASSUME NEW x \in s PROVE g[s] = f[x] + g[s \ {x}]
      OBVIOUS
    <3>1. PICK y \in s : g[s] = f[y] + g[s \ {y}]
      BY <1>3, <1>4
    <3>2. CASE x = y
      BY <3>1, <3>2
    <3>3. CASE x # y
      <4>1. s \ {y} \in T /\ s \ {x} \in T /\ x \in s \ {y} /\ y \in s \ {x}
        BY <2>1, <3>3
      <4>2. /\ g[s \ {y}] = f[x] + g[(s \ {y}) \ {x}]
            /\ g[s \ {x}] = f[y] + g[(s \ {x}) \ {y}]
        BY <4>1
      <4>3. (s \ {y}) \ {x} = (s \ {x}) \ {y} /\ (s \ {x}) \ {y} \in SUBSET D
        OBVIOUS
      <4>4. PICK p \in Int, q \in Int, r \in Int :
              p = f[x] /\ q = f[y] /\ r = g[(s \ {x}) \ {y}]
        BY <1>5, <4>3
      <4>5. g[s] = q + (p + r) /\ g[s \ {x}] = q + r
        BY <3>1, <4>2, <4>3, <4>4
      <4>6. QED
        BY <4>4, <4>5
    <3>4. QED
      BY <3>2, <3>3
  <2> HIDE DEF T
  <2>2. \A s \in SUBSET D : s \in T
    BY <2>1, SubsetInduction
  <2>3. QED
    BY <2>2 DEF T
<1>7. g \in [SUBSET D -> Int] /\ g[{}] = 0
  BY <1>1, <1>3, <1>5
<1>8. QED
  BY <1>2, <1>6, <1>7 DEF Sums

\* A sum of integers is one.
LEMMA SumIsInteger ==
  ASSUME NEW D, IsFiniteSet(D), NEW f \in [D -> Int]
  PROVE  SumFunction(f) \in Int
<1>1. PICK g : Sums(f, D, g)
  BY SumsExist
<1>2. D \in SUBSET D
  OBVIOUS
<1>3. QED
  BY <1>1, <1>2 DEF Sums

\* A sum of natural numbers is one.
LEMMA SumIsNatural ==
  ASSUME NEW D, IsFiniteSet(D), NEW f \in [D -> Nat]
  PROVE  SumFunction(f) \in Nat
<1>1. f \in [D -> Int]
  OBVIOUS
<1>2. PICK g : Sums(f, D, g)
  BY <1>1, SumsExist
<1> DEFINE T == {u \in SUBSET D : g[u] \in Nat}
<1>3. ASSUME NEW s \in SUBSET D, \A u \in SUBSET s : u # s => u \in T PROVE s \in T
  <2>1. CASE s = {}
    BY <1>2, <2>1 DEF Sums
  <2>2. ASSUME NEW x \in s PROVE s \in T
    <3>1. g[s] = f[x] + g[s \ {x}] /\ f[x] \in Nat /\ s \ {x} \in T
      BY <1>2, <1>3, <2>2 DEF Sums
    <3>2. QED
      BY <3>1
  <2>3. QED
    BY <2>1, <2>2
<1> HIDE DEF T
<1>4. D \in T
  BY <1>3, SubsetInduction
<1>5. QED
  BY <1>2, <1>4 DEF Sums, T

\* A sum over one element more.
LEMMA SumOfExtension ==
  ASSUME NEW D, IsFiniteSet(D), NEW f \in [D -> Int], NEW k, k \notin D,
         NEW h \in [D \cup {k} -> Int], \A x \in D : h[x] = f[x]
  PROVE  SumFunction(h) = h[k] + SumFunction(f)
<1> DEFINE E == D \cup {k}
<1>1. PICK g : Sums(f, D, g)
  BY SumsExist
<1>2. IsFiniteSet(E)
  BY FS_AddElement
<1>3. PICK e : Sums(h, E, e)
  BY <1>2, SumsExist
<1>4. \A s \in SUBSET D : e[s] = g[s]
  <2> DEFINE T == {u \in SUBSET D : e[u] = g[u]}
  <2>1. ASSUME NEW s \in SUBSET D, \A u \in SUBSET s : u # s => u \in T PROVE s \in T
    <3>1. CASE s = {}
      BY <1>1, <1>3, <3>1 DEF Sums
    <3>2. ASSUME NEW x \in s PROVE s \in T
      <4>1. e[s] = h[x] + e[s \ {x}] /\ g[s] = f[x] + g[s \ {x}]
        BY <1>1, <1>3, <3>2 DEF Sums
      <4>2. s \ {x} \in T /\ h[x] = f[x]
        BY <2>1, <3>2
      <4>3. QED
        BY <4>1, <4>2
    <3>3. QED
      BY <3>1, <3>2
  <2> HIDE DEF T
  <2>2. \A s \in SUBSET D : s \in T
    BY <2>1, SubsetInduction
  <2>3. QED
    BY <2>2 DEF T
<1>5. E \ {k} = D /\ k \in E
  OBVIOUS
<1>6. e[E] = h[k] + e[D]
  BY <1>3, <1>5 DEF Sums
<1>7. QED
  BY <1>1, <1>3, <1>4, <1>6 DEF Sums

\* Table h is table f of n rows and one row more.
OneMoreRow(h, f, n) ==
  /\ f \in [1 .. n -> Nat] /\ h \in [1 .. (n + 1) -> Nat]
  /\ \A i \in 1 .. n : h[i] = f[i]

LEMMA SumOfOneMore ==
  ASSUME NEW n \in Nat, NEW f, NEW h, OneMoreRow(h, f, n)
  PROVE  SumFunction(h) = h[n + 1] + SumFunction(f) /\ SumFunction(f) \in Nat
<1>1. PICK D : D = 1 .. n
  OBVIOUS
<1>2. PICK k : k = n + 1
  OBVIOUS
<1>3. D \cup {k} = 1 .. (n + 1)
  BY <1>1, <1>2
<1>4. IsFiniteSet(D) /\ k \notin D
  BY <1>1, <1>2, FS_Interval
<1>5. f \in [D -> Nat] /\ h \in [D \cup {k} -> Nat] /\ \A x \in D : h[x] = f[x]
  BY <1>1, <1>3 DEF OneMoreRow
<1>6. SumFunction(h) = h[k] + SumFunction(f)
  BY <1>4, <1>5, SumOfExtension, SMT
<1>7. SumFunction(f) \in Nat
  BY <1>4, <1>5, SumIsNatural
<1>8. QED
  BY <1>2, <1>6, <1>7

\* A table whose entry for k changes.
LEMMA SumOfOneChange ==
  ASSUME NEW D, IsFiniteSet(D), NEW f \in [D -> Nat], NEW k \in D, NEW b \in Nat
  PROVE  /\ SumFunction(f) \in Nat /\ f[k] <= SumFunction(f)
         /\ SumFunction([f EXCEPT ![k] = b]) = SumFunction(f) - f[k] + b
<1> DEFINE rest == [x \in D \ {k} |-> f[x]]
           h == [f EXCEPT ![k] = b]
<1>1. IsFiniteSet(D \ {k}) /\ rest \in [D \ {k} -> Nat] /\ (D \ {k}) \cup {k} = D
  BY FS_RemoveElement
<1>2. h \in [D -> Nat] /\ h[k] = b /\ \A x \in D \ {k} : h[x] = rest[x]
  OBVIOUS
<1>3. SumFunction(f) = f[k] + SumFunction(rest)
  BY <1>1, SumOfExtension
<1> HIDE DEF h, rest
<1>4. SumFunction(h) = h[k] + SumFunction(rest)
  <2>1. k \notin D \ {k} /\ h \in [(D \ {k}) \cup {k} -> Nat]
    BY <1>1, <1>2
  <2>2. QED
    BY <1>1, <1>2, <2>1, SumOfExtension
<1>5. SumFunction(rest) \in Nat
  BY <1>1, SumIsNatural
<1>6. QED
  BY <1>2, <1>3, <1>4, <1>5 DEF h

\* A table of zeros.
LEMMA SumOfZeros ==
  ASSUME NEW D, IsFiniteSet(D)
  PROVE  SumFunction([x \in D |-> 0]) = 0
<1> DEFINE f == [x \in D |-> 0]
<1>1. PICK g : Sums(f, D, g)
  BY SumsExist
<1> DEFINE T == {u \in SUBSET D : g[u] = 0}
<1>2. ASSUME NEW s \in SUBSET D, \A u \in SUBSET s : u # s => u \in T PROVE s \in T
  <2>1. CASE s = {}
    BY <1>1, <2>1 DEF Sums
  <2>2. ASSUME NEW x \in s PROVE s \in T
    <3>1. g[s] = 0 + g[s \ {x}] /\ s \ {x} \in T
      BY <1>1, <1>2, <2>2 DEF Sums
    <3>2. QED
      BY <3>1
  <2>3. QED
    BY <2>1, <2>2
<1> HIDE DEF T
<1>3. D \in T
  BY <1>2, SubsetInduction
<1>4. QED
  BY <1>1, <1>3 DEF Sums, T

\* Table h has the values of f times alpha, numbered from 0.
Scaled(h, f, alpha, n) ==
  /\ f \in [1 .. n -> Int] /\ h \in [0 .. n - 1 -> Int]
  /\ \A i \in 1 .. n : h[i - 1] = alpha * f[i]

LEMMA SumOfScaled ==
  ASSUME NEW n \in Nat, NEW alpha \in Int, NEW f, NEW h, Scaled(h, f, alpha, n)
  PROVE  SumFunction(f) \in Int /\ SumFunction(h) = alpha * SumFunction(f)
<1>1. PICK D, E : D = 1 .. n /\ E = 0 .. n - 1 /\ IsFiniteSet(D) /\ IsFiniteSet(E)
  BY FS_Interval
<1>2. f \in [D -> Int] /\ h \in [E -> Int]
  BY <1>1 DEF Scaled
<1>3. PICK g : Sums(f, D, g)
  BY <1>1, <1>2, SumsExist
<1>4. PICK e : Sums(h, E, e)
  BY <1>1, <1>2, SumsExist
<1> DEFINE T == {i \in 0 .. n : e[0 .. i - 1] = alpha * g[1 .. i]}
<1>5. 0 \in T
  <2>1. 0 .. 0 - 1 = {} /\ 1 .. 0 = {}
    OBVIOUS
  <2>2. e[{}] = 0 /\ g[{}] = 0
    BY <1>3, <1>4 DEF Sums
  <2>3. QED
    BY <2>1, <2>2
<1>6. ASSUME NEW i \in 0 .. n - 1, i \in T PROVE i + 1 \in T
  <2>1. PICK low, up : low = 1 .. i /\ up = 1 .. (i + 1)
    OBVIOUS
  <2>2. PICK below, upto : below = 0 .. i - 1 /\ upto = 0 .. i
    OBVIOUS
  <2>3. up \ {i + 1} = low /\ upto \ {i} = below
    BY <2>1, <2>2
  <2>4. low \in SUBSET D /\ up \in SUBSET D /\ upto \in SUBSET E /\ i + 1 \in up /\ i \in upto
    BY <1>1, <2>1, <2>2
  <2>5. g[up] = f[i + 1] + g[low] /\ e[upto] = h[i] + e[below]
    BY <1>3, <1>4, <2>3, <2>4 DEF Sums
  <2>6. h[i] = alpha * f[i + 1]
    <3>1. h[(i + 1) - 1] = alpha * f[i + 1]
      BY DEF Scaled
    <3>2. QED
      BY <3>1
  <2>7. e[below] = alpha * g[low]
    BY <1>6, <2>1, <2>2
  <2>8. PICK p \in Int, q \in Int : p = f[i + 1] /\ q = g[low]
    BY <1>1, <1>2, <1>3, <2>4 DEF Sums
  <2>9. e[upto] = alpha * p + alpha * q /\ g[up] = p + q
    BY <2>5, <2>6, <2>7, <2>8
  <2>10. alpha * p + alpha * q = alpha * (p + q)
    OBVIOUS
  <2>11. (i + 1) - 1 = i
    OBVIOUS
  <2>12. QED
    BY <2>1, <2>2, <2>9, <2>10, <2>11
<1> HIDE DEF T
<1>7. n \in T
  BY <1>5, <1>6, UpwardInduction
<1>8. e[E] = alpha * g[D]
  BY <1>1, <1>7 DEF T
<1>9. D \in SUBSET D
  OBVIOUS
<1>10. QED
  BY <1>3, <1>4, <1>8, <1>9 DEF Sums

=============================================================================
