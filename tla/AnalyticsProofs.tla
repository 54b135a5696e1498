--------------------------- MODULE AnalyticsProofs ---------------------------
(***************************************************************************)
(* Analytics for any orders, categories, names and days: its properties,   *)
(* and the sums over finite sets that they are about.                      *)
(***************************************************************************)
EXTENDS Analytics, FiniteSetTheorems, WellFoundedInduction, TLAPS

-----------------------------------------------------------------------------
(* Sums over finite sets                                                    *)

\* The least-counterexample principle on subsets of a finite set.
LEMMA SubsetInduction ==
  ASSUME NEW S, IsFiniteSet(S), NEW G,
         \A T \in SUBSET S : (\A x \in T : T \ {x} \in G) => T \in G
  PROVE  \A T \in SUBSET S : T \in G
<1> DEFINE R == OpToRel(<, Nat)
           Bad == {T \in SUBSET S : T \notin G}
           Sizes == {Cardinality(T) : T \in Bad}
<1> SUFFICES ASSUME Bad # {}
             PROVE  FALSE
  OBVIOUS
<1>1. \A T \in SUBSET S : IsFiniteSet(T) /\ Cardinality(T) \in Nat
  BY FS_Subset, FS_CardinalityType
<1>2. Sizes \subseteq Nat /\ Sizes # {}
  BY <1>1
<1>3. IsWellFoundedOn(R, Nat)
  BY NatLessThanWellFounded
<1>4. ASSUME NEW m \in Nat, NEW n \in Nat, n < m
      PROVE  <<n, m>> \in R
  BY <1>4 DEF OpToRel
<1> HIDE DEF R, Sizes
<1>5. PICK m \in Sizes : \A n \in Sizes : ~(<<n, m>> \in R)
  BY <1>2, <1>3, WFMin
<1>6. PICK T \in Bad : m = Cardinality(T)
  BY <1>5 DEF Sizes
<1>7. PICK x \in T : T \ {x} \notin G
  BY <1>6
<1>8. T \ {x} \in Bad /\ Cardinality(T \ {x}) \in Sizes
  <2>1. T \ {x} \in SUBSET S
    BY <1>6
  <2>2. T \ {x} \in Bad
    BY <1>7, <2>1
  <2>. HIDE DEF Bad
  <2>. QED
    BY <2>2 DEF Sizes
<1>9. Cardinality(T \ {x}) = Cardinality(T) - 1
  BY <1>1, <1>6, <1>7, FS_RemoveElement
<1>10. Cardinality(T \ {x}) < m /\ m \in Nat /\ Cardinality(T \ {x}) \in Nat
  BY <1>1, <1>6, <1>8, <1>9
<1>. QED
  BY <1>4, <1>5, <1>8, <1>10

First(s) == CHOOSE x \in s : TRUE

\* A set that has members has a first.
LEMMA FirstIsMember == \A s : s # {} => First(s) \in s
BY DEF First

\* g is the sum of w so far, along the subsets of S.
Adds(g, w, S) ==
  g = [s \in SUBSET S |-> IF s = {} THEN 0 ELSE w[First(s)] + g[s \ {First(s)}]]

\* The sum of w over S.
Sum(w, S) == (CHOOSE g : Adds(g, w, S))[S]

\* What g says of each subset.
LEMMA AddsAt ==
  ASSUME NEW S, NEW g, NEW w, Adds(g, w, S)
  PROVE  \A T \in SUBSET S :
           g[T] = IF T = {} THEN 0 ELSE w[First(T)] + g[T \ {First(T)}]
BY DEF Adds

\* There is such a g: h is one as far as sets of n elements.
LEMMA AddsExists ==
  ASSUME NEW S, IsFiniteSet(S), NEW w
  PROVE  \E g : Adds(g, w, S)
<1> DEFINE Next1(h, T) == IF T = {} THEN 0 ELSE w[First(T)] + h[T \ {First(T)}]
           Upto(n) == \E h : \A T \in SUBSET S : Cardinality(T) <= n => h[T] = Next1(h, T)
           R == OpToRel(<, Nat)
           Bad == {n \in Nat : ~Upto(n)}
<1>1. \A T \in SUBSET S : IsFiniteSet(T) /\ Cardinality(T) \in Nat
                          /\ (Cardinality(T) = 0 <=> T = {})
  BY FS_Subset, FS_CardinalityType, FS_EmptySet
<1>2. Upto(0)
  <2> DEFINE h == [T \in SUBSET S |-> 0]
  <2>1. \A T \in SUBSET S : Cardinality(T) <= 0 => h[T] = Next1(h, T)
    BY <1>1
  <2>. QED
    BY <2>1
<1>3. ASSUME NEW n \in Nat, Upto(n)
      PROVE  Upto(n + 1)
  <2>1. PICK h : \A T \in SUBSET S : Cardinality(T) <= n => h[T] = Next1(h, T)
    BY <1>3
  <2> DEFINE k == [T \in SUBSET S |-> IF Cardinality(T) <= n THEN h[T] ELSE Next1(h, T)]
  <2>2. ASSUME NEW T \in SUBSET S, Cardinality(T) <= n + 1, T # {}
        PROVE  /\ T \ {First(T)} \in SUBSET S
               /\ k[T \ {First(T)}] = h[T \ {First(T)}]
    <3>1. First(T) \in T
      BY <2>2, FirstIsMember
    <3>2. Cardinality(T \ {First(T)}) = Cardinality(T) - 1
      BY <1>1, <3>1, FS_RemoveElement
    <3>3. Cardinality(T \ {First(T)}) <= n
      BY <1>1, <2>2, <3>2
    <3>. QED
      BY <3>3
  <2>3. ASSUME NEW T \in SUBSET S, Cardinality(T) <= n + 1
        PROVE  k[T] = Next1(k, T)
    <3>1. k[T] = Next1(h, T)
      BY <2>1
    <3>. QED
      BY <2>2, <2>3, <3>1
  <2> HIDE DEF k
  <2>. QED
    BY <2>3
<1> HIDE DEF Upto, R
<1>4. \A n \in Nat : Upto(n)
  <2> SUFFICES ASSUME Bad # {}
               PROVE  FALSE
    OBVIOUS
  <2>1. IsWellFoundedOn(R, Nat)
    BY NatLessThanWellFounded DEF R
  <2>2. ASSUME NEW m \in Nat, NEW n \in Nat, n < m
        PROVE  <<n, m>> \in R
    BY <2>2 DEF R, OpToRel
  <2>3. PICK m \in Bad : \A n \in Bad : ~(<<n, m>> \in R)
    <3> HIDE DEF Bad
    <3>1. Bad \subseteq Nat
      BY DEF Bad
    <3>. QED
      BY <2>1, <3>1, WFMin
  <2>4. m \in Nat /\ m # 0
    BY <1>2, <2>3
  <2>5. m - 1 \in Nat /\ m - 1 < m /\ (m - 1) + 1 = m
    BY <2>4
  <2>6. Upto(m - 1)
    BY <2>2, <2>3, <2>4, <2>5
  <2>7. Upto(m)
    BY <1>3, <2>5, <2>6
  <2>. QED
    BY <2>3, <2>7
<1>5. Cardinality(S) \in Nat
  BY <1>1
<1>6. PICK h : \A T \in SUBSET S : Cardinality(T) <= Cardinality(S) => h[T] = Next1(h, T)
  BY <1>4, <1>5 DEF Upto
<1>7. \A T \in SUBSET S : Cardinality(T) <= Cardinality(S)
  BY FS_Subset
<1> DEFINE g == [T \in SUBSET S |-> h[T]]
<1>8. ASSUME NEW T \in SUBSET S
      PROVE  g[T] = IF T = {} THEN 0 ELSE w[First(T)] + g[T \ {First(T)}]
  <2>1. g[T] = Next1(h, T)
    BY <1>6, <1>7
  <2>2. T \ {First(T)} \in SUBSET S
    OBVIOUS
  <2>. QED
    BY <2>1, <2>2
<1>9. g = [T \in SUBSET S |-> g[T]]
  OBVIOUS
<1> HIDE DEF g
<1>10. Adds(g, w, S)
  BY <1>8, <1>9 DEF Adds
<1>. QED
  BY <1>10

\* It has one value at each set, which depends on w inside of that set only.
LEMMA AddsUnique ==
  ASSUME NEW S, NEW T, NEW R, IsFiniteSet(R), R \subseteq S, R \subseteq T,
         NEW g, NEW h, NEW v, NEW w, Adds(g, v, S), Adds(h, w, T), \A x \in R : v[x] = w[x]
  PROVE  g[R] = h[R]
<1> DEFINE G == {U \in SUBSET R : g[U] = h[U]}
<1>1. ASSUME NEW U \in SUBSET R, \A x \in U : U \ {x} \in G
      PROVE  U \in G
  <2>1. U \in SUBSET S /\ U \in SUBSET T
    OBVIOUS
  <2>2. /\ g[U] = IF U = {} THEN 0 ELSE v[First(U)] + g[U \ {First(U)}]
        /\ h[U] = IF U = {} THEN 0 ELSE w[First(U)] + h[U \ {First(U)}]
    BY <2>1, AddsAt
  <2>3. U # {} => First(U) \in U
    BY FirstIsMember
  <2>4. U # {} => g[U \ {First(U)}] = h[U \ {First(U)}] /\ v[First(U)] = w[First(U)]
    BY <1>1, <2>3
  <2>. QED
    BY <2>2, <2>4
<1> HIDE DEF G
<1>2. \A U \in SUBSET R : U \in G
  BY <1>1, SubsetInduction
<1>. QED
  BY <1>2, R \in SUBSET R DEF G

\* Any function that adds up w on a larger set gives the sum on T.
LEMMA SumIs ==
  ASSUME NEW S, IsFiniteSet(S), NEW w, NEW T, T \subseteq S, NEW g, NEW v, Adds(g, v, S),
         \A x \in T : v[x] = w[x]
  PROVE  Sum(w, T) = g[T]
<1>1. IsFiniteSet(T)
  BY FS_Subset
<1> DEFINE h == CHOOSE k : Adds(k, w, T)
<1>2. Adds(h, w, T)
  BY <1>1, AddsExists
<1> HIDE DEF h
<1>3. Sum(w, T) = h[T]
  BY DEF Sum, h
<1>. QED
  BY <1>1, <1>2, <1>3, AddsUnique

\* Weights that agree have the same sum.
LEMMA SumSame ==
  ASSUME NEW S, IsFiniteSet(S), NEW v, NEW w, \A x \in S : v[x] = w[x]
  PROVE  Sum(v, S) = Sum(w, S)
<1>1. PICK g : Adds(g, v, S)
  BY AddsExists
<1>. QED
  BY <1>1, SumIs

\* Nothing adds up to 0.
LEMMA SumEmpty == \A w : Sum(w, {}) = 0
<1> SUFFICES ASSUME NEW w
             PROVE  Sum(w, {}) = 0
  OBVIOUS
<1>1. IsFiniteSet({})
  BY FS_EmptySet
<1>2. PICK g : Adds(g, w, {})
  BY <1>1, AddsExists
<1>3. g[{}] = 0
  BY <1>2, AddsAt
<1>. QED
  BY <1>1, <1>2, <1>3, SumIs

\* The sum of integers is one, whichever of them comes first.
LEMMA SumInt ==
  ASSUME NEW S, IsFiniteSet(S), NEW w, \A x \in S : w[x] \in Int
  PROVE  /\ Sum(w, S) \in Int
         /\ \A x \in S : Sum(w, S) = w[x] + Sum(w, S \ {x})
<1>1. PICK g : Adds(g, w, S)
  BY AddsExists
<1>2. \A T \in SUBSET S :
        g[T] = IF T = {} THEN 0 ELSE w[First(T)] + g[T \ {First(T)}]
  BY <1>1 DEF Adds
<1> DEFINE G == {T \in SUBSET S : g[T] \in Int}
<1>3. \A T \in SUBSET S : T \in G
  <2>1. ASSUME NEW T \in SUBSET S, \A x \in T : T \ {x} \in G
        PROVE  T \in G
    <3>1. g[T] = IF T = {} THEN 0 ELSE w[First(T)] + g[T \ {First(T)}]
      BY <1>2
    <3>2. T # {} => First(T) \in T
      BY FirstIsMember
    <3>3. T # {} => w[First(T)] \in Int /\ g[T \ {First(T)}] \in Int
      BY <2>1, <3>2
    <3>. QED
      BY <3>1, <3>3
  <2> HIDE DEF G
  <2>. QED
    BY <2>1, SubsetInduction
<1>4. \A T \in SUBSET S : g[T] \in Int
  BY <1>3
<1> HIDE DEF G
<1> DEFINE H == {T \in SUBSET S : \A x \in T : g[T] = w[x] + g[T \ {x}]}
<1>5. \A T \in SUBSET S : T \in H
  <2>1. ASSUME NEW T \in SUBSET S, \A x \in T : T \ {x} \in H
        PROVE  T \in H
    <3> SUFFICES ASSUME NEW x \in T
                 PROVE  g[T] = w[x] + g[T \ {x}]
      OBVIOUS
    <3> DEFINE c == First(T)
    <3>1. c \in T
      BY FirstIsMember
    <3> HIDE DEF c
    <3>2. g[T] = w[c] + g[T \ {c}]
      BY <1>1, AddsAt DEF c
    <3>3. CASE x = c
      BY <3>2, <3>3
    <3>4. CASE x # c
      <4>1. T \ {c} \in H /\ T \ {x} \in H /\ x \in T \ {c} /\ c \in T \ {x}
        BY <2>1, <3>1, <3>4
      <4>2. g[T \ {c}] = w[x] + g[(T \ {c}) \ {x}]
        BY <4>1
      <4>3. g[T \ {x}] = w[c] + g[(T \ {x}) \ {c}]
        BY <4>1
      <4>4. (T \ {c}) \ {x} = (T \ {x}) \ {c} /\ (T \ {x}) \ {c} \in SUBSET S
        OBVIOUS
      <4>5. /\ w[c] \in Int /\ w[x] \in Int
            /\ g[(T \ {x}) \ {c}] \in Int
        BY <1>4, <3>1
      <4> DEFINE a == g[(T \ {x}) \ {c}]
      <4>6. g[T] = w[c] + (w[x] + a) /\ g[T \ {x}] = w[c] + a
        BY <3>2, <4>2, <4>3, <4>4
      <4> HIDE DEF a
      <4>7. a \in Int
        BY <4>5 DEF a
      <4>. QED
        BY <4>5, <4>6, <4>7
    <3>. QED
      BY <3>3, <3>4
  <2> HIDE DEF H
  <2>. QED
    BY <2>1, SubsetInduction
<1>6. Sum(w, S) = g[S]
  BY <1>1, SumIs
<1>7. ASSUME NEW x \in S
      PROVE  Sum(w, S \ {x}) = g[S \ {x}]
  BY <1>1, SumIs
<1>. QED
  BY <1>4, <1>5, <1>6, <1>7, S \in SUBSET S

\* Numbers are at most their sum.
LEMMA SumNat ==
  ASSUME NEW S, IsFiniteSet(S), NEW w, \A x \in S : w[x] \in Nat
  PROVE  Sum(w, S) \in Nat /\ \A x \in S : w[x] <= Sum(w, S)
<1> DEFINE G == {T \in SUBSET S : Sum(w, T) \in Nat}
<1>1. \A T \in SUBSET S : T \in G
  <2>1. ASSUME NEW T \in SUBSET S, \A x \in T : T \ {x} \in G
        PROVE  T \in G
    <3>1. CASE T = {}
      BY <3>1, SumEmpty
    <3>2. ASSUME NEW x \in T
          PROVE  T \in G
      <4>1. IsFiniteSet(T) /\ \A y \in T : w[y] \in Int
        BY FS_Subset
      <4>2. Sum(w, T) = w[x] + Sum(w, T \ {x})
        BY <4>1, SumInt
      <4>3. Sum(w, T \ {x}) \in Nat /\ w[x] \in Nat
        BY <2>1
      <4>. QED
        BY <4>2, <4>3
    <3>. QED
      BY <3>1, <3>2
  <2> HIDE DEF G
  <2>. QED
    BY <2>1, SubsetInduction
<1>2. ASSUME NEW x \in S
      PROVE  w[x] <= Sum(w, S)
  <2>1. Sum(w, S) = w[x] + Sum(w, S \ {x})
    BY SumInt
  <2>2. Sum(w, S \ {x}) \in Nat
    BY <1>1
  <2>. QED
    BY <2>1, <2>2
<1>. QED
  BY <1>1, <1>2

\* Finitely many things have finitely many images.
LEMMA ImageFinite ==
  ASSUME NEW K, IsFiniteSet(K), NEW f
  PROVE  IsFiniteSet({f[k] : k \in K})
<1> DEFINE g == [k \in K |-> f[k]]
           Im == {f[k] : k \in K}
<1>1. g \in Surjection(K, Im)
  BY DEF Surjection
<1> HIDE DEF g, Im
<1>2. IsFiniteSet(Im)
  BY <1>1, FS_Surjection
<1>. QED
  BY <1>2 DEF Im

\* A sum over things that are numbered one to one is the sum over the numbers.
LEMMA SumReindexed ==
  ASSUME NEW K, IsFiniteSet(K), NEW f, NEW w,
         \A k \in K : w[f[k]] \in Int,
         \A k, l \in K : f[k] = f[l] => k = l
  PROVE  /\ IsFiniteSet({f[k] : k \in K})
         /\ Sum(w, {f[k] : k \in K}) = Sum([k \in K |-> w[f[k]]], K)
<1> DEFINE Im(T) == {f[k] : k \in T}
           v == [k \in K |-> w[f[k]]]
           G == {T \in SUBSET K : Sum(w, Im(T)) = Sum(v, T)}
<1>1. ASSUME NEW T \in SUBSET K
      PROVE  IsFiniteSet(T) /\ IsFiniteSet(Im(T))
  BY FS_Subset, ImageFinite
<1>2. ASSUME NEW T \in SUBSET K, \A x \in T : T \ {x} \in G
      PROVE  T \in G
  <2>1. CASE T = {}
    <3>1. Im(T) = {}
      BY <2>1
    <3>. QED
      BY <2>1, <3>1, SumEmpty
  <2>2. ASSUME NEW x \in T
        PROVE  T \in G
    <3>1. f[x] \in Im(T) /\ Im(T) \ {f[x]} = Im(T \ {x})
      OBVIOUS
    <3>2. \A y \in Im(T) : w[y] \in Int
      OBVIOUS
    <3>3. \A y \in T : v[y] \in Int
      OBVIOUS
    <3>4. v[x] = w[f[x]]
      OBVIOUS
    <3>5. Sum(w, Im(T \ {x})) = Sum(v, T \ {x})
      BY <1>2
    <3> HIDE DEF Im, v, G
    <3>6. Sum(w, Im(T)) = w[f[x]] + Sum(w, Im(T) \ {f[x]})
      BY <1>1, <3>1, <3>2, SumInt
    <3>7. Sum(v, T) = v[x] + Sum(v, T \ {x})
      BY <1>1, <3>3, SumInt
    <3>. QED
      BY <3>1, <3>4, <3>5, <3>6, <3>7 DEF G
  <2>. QED
    BY <2>1, <2>2
<1>3. \A T \in SUBSET K : T \in G
  <2> HIDE DEF G
  <2>. QED
    BY <1>2, SubsetInduction
<1>4. K \in G
  BY <1>3, K \in SUBSET K
<1>. QED
  BY <1>1, <1>4, K \in SUBSET K

\* Sums by key add up to the sum.
LEMMA SumByKey ==
  ASSUME NEW S, IsFiniteSet(S), NEW K, IsFiniteSet(K), NEW key, NEW w,
         \A x \in S : key[x] \in K /\ w[x] \in Int
  PROVE  Sum(w, S) = Sum([k \in K |-> Sum(w, {x \in S : key[x] = k})], K)
<1> DEFINE Of(T, k) == {x \in T : key[x] = k}
           by(T) == [k \in K |-> Sum(w, Of(T, k))]
           G == {T \in SUBSET S : Sum(w, T) = Sum(by(T), K)}
<1>1. ASSUME NEW T \in SUBSET S
      PROVE  /\ IsFiniteSet(T)
             /\ \A k \in K : IsFiniteSet(Of(T, k)) /\ Sum(w, Of(T, k)) \in Int
  <2>1. IsFiniteSet(T)
    BY FS_Subset
  <2>2. ASSUME NEW k \in K
        PROVE  IsFiniteSet(Of(T, k)) /\ \A x \in Of(T, k) : w[x] \in Int
    BY <2>1, FS_Subset
  <2> HIDE DEF Of
  <2>. QED
    BY <2>1, <2>2, SumInt
<1>2. ASSUME NEW T \in SUBSET S, \A x \in T : T \ {x} \in G
      PROVE  T \in G
  <2>1. CASE T = {}
    <3> DEFINE v == by(T)
    <3>1. \A k \in K : Of(T, k) = {}
      BY <2>1
    <3>2. \A k \in K : v[k] = 0
      BY <3>1, SumEmpty
    <3> DEFINE Z == {L \in SUBSET K : Sum(v, L) = 0}
    <3>3. ASSUME NEW L \in SUBSET K, \A k \in L : L \ {k} \in Z
          PROVE  L \in Z
      <4>1. CASE L = {}
        BY <4>1, SumEmpty
      <4>2. ASSUME NEW k \in L
            PROVE  L \in Z
        <5>1. Sum(v, L \ {k}) = 0 /\ v[k] = 0 /\ \A l \in L : v[l] \in Int
          BY <3>2, <3>3
        <5> HIDE DEF v
        <5>2. Sum(v, L) = v[k] + Sum(v, L \ {k})
          BY <5>1, FS_Subset, SumInt
        <5>. QED
          BY <5>1, <5>2
      <4>. QED
        BY <4>1, <4>2
    <3>4. \A L \in SUBSET K : L \in Z
      <4> HIDE DEF Z
      <4>. QED
        BY <3>3, SubsetInduction
    <3>5. K \in Z
      BY <3>4, K \in SUBSET K
    <3>6. Sum(by(T), K) = 0
      BY <3>5
    <3>. QED
      BY <2>1, <3>6, SumEmpty
  <2>2. ASSUME NEW x \in T
        PROVE  T \in G
    <3> DEFINE U == T \ {x}
               k == key[x]
    <3>1. k \in K /\ x \in S /\ w[x] \in Int /\ U \in SUBSET S
      OBVIOUS
    <3>2. /\ x \in Of(T, k) /\ Of(T, k) \ {x} = Of(U, k)
          /\ \A l \in K : l # k => Of(T, l) = Of(U, l)
          /\ \A y \in Of(T, k) : w[y] \in Int
      OBVIOUS
    <3>3. Sum(w, U) = Sum(by(U), K)
      BY <1>2
    <3> HIDE DEF Of, U, G
    <3>4. Sum(w, T) = w[x] + Sum(w, U)
      <4>1. IsFiniteSet(T) /\ \A y \in T : w[y] \in Int
        BY <1>1
      <4>. QED
        BY <4>1, SumInt DEF U
    <3>5. Sum(w, Of(T, k)) = w[x] + Sum(w, Of(U, k))
      <4>1. IsFiniteSet(Of(T, k))
        BY <1>1, <3>1
      <4>2. Sum(w, Of(T, k)) = w[x] + Sum(w, Of(T, k) \ {x})
        BY <3>2, <4>1, SumInt
      <4>. QED
        BY <3>2, <4>2
    <3>6. \A l \in K : by(T)[l] \in Int /\ by(U)[l] \in Int
      BY <1>1, <3>1
    <3>7. /\ by(T)[k] = w[x] + by(U)[k]
          /\ \A l \in K \ {k} : by(T)[l] = by(U)[l]
      BY <3>1, <3>2, <3>5
    <3> HIDE DEF by, k
    <3>8. /\ Sum(by(T), K) = by(T)[k] + Sum(by(T), K \ {k})
          /\ Sum(by(U), K) = by(U)[k] + Sum(by(U), K \ {k})
      BY <3>1, <3>6, SumInt
    <3>9. Sum(by(T), K \ {k}) = Sum(by(U), K \ {k}) /\ Sum(by(U), K \ {k}) \in Int
      <4>1. IsFiniteSet(K \ {k}) /\ \A l \in K \ {k} : by(U)[l] \in Int
        BY <3>6, FS_Subset
      <4>. QED
        BY <3>7, <4>1, SumSame, SumInt
    <3>10. Sum(by(T), K) = w[x] + Sum(by(U), K)
      BY <3>1, <3>6, <3>7, <3>8, <3>9
    <3>. QED
      BY <3>3, <3>4, <3>10 DEF G
  <2>. QED
    BY <2>1, <2>2
<1>3. \A T \in SUBSET S : T \in G
  <2> HIDE DEF G
  <2>. QED
    BY <1>2, SubsetInduction
<1>4. S \in G
  BY <1>3, S \in SUBSET S
<1>. QED
  BY <1>4

\* The sum of ones is the number of elements.
LEMMA SumOnes ==
  ASSUME NEW S, IsFiniteSet(S)
  PROVE  Sum([x \in S |-> 1], S) = Cardinality(S)
<1> DEFINE w == [x \in S |-> 1]
           G == {T \in SUBSET S : Sum(w, T) = Cardinality(T)}
<1>1. ASSUME NEW T \in SUBSET S, \A x \in T : T \ {x} \in G
      PROVE  T \in G
  <2>1. CASE T = {}
    BY <2>1, SumEmpty, FS_EmptySet
  <2>2. ASSUME NEW x \in T
        PROVE  T \in G
    <3>1. IsFiniteSet(T) /\ w[x] = 1 /\ \A y \in T : w[y] \in Int
      BY FS_Subset
    <3>2. Sum(w, T \ {x}) = Cardinality(T \ {x})
      BY <1>1
    <3>3. Cardinality(T \ {x}) = Cardinality(T) - 1 /\ Cardinality(T) \in Nat
      BY <3>1, FS_RemoveElement, FS_CardinalityType
    <3> HIDE DEF w
    <3>4. Sum(w, T) = w[x] + Sum(w, T \ {x})
      BY <3>1, SumInt
    <3>. QED
      BY <3>1, <3>2, <3>3, <3>4
  <2>. QED
    BY <2>1, <2>2
<1>2. \A T \in SUBSET S : T \in G
  <2> HIDE DEF G
  <2>. QED
    BY <1>1, SubsetInduction
<1>. QED
  BY <1>2, S \in SUBSET S

\* Elements counted by key are all counted.
LEMMA CountByKey ==
  ASSUME NEW S, IsFiniteSet(S), NEW K, IsFiniteSet(K), NEW key, \A x \in S : key[x] \in K
  PROVE  Sum([k \in K |-> Cardinality({x \in S : key[x] = k})], K) = Cardinality(S)
<1> DEFINE w == [x \in S |-> 1]
           Of(k) == {x \in S : key[x] = k}
           v == [k \in K |-> Sum(w, Of(k))]
           n == [k \in K |-> Cardinality(Of(k))]
<1>1. Sum(w, S) = Sum(v, K)
  BY SumByKey
<1>2. ASSUME NEW k \in K
      PROVE  v[k] = n[k]
  <2> DEFINE u == [x \in Of(k) |-> 1]
  <2>1. IsFiniteSet(Of(k))
    BY FS_Subset
  <2>2. \A x \in Of(k) : w[x] = u[x]
    OBVIOUS
  <2>3. Sum(u, Of(k)) = Cardinality(Of(k))
    BY <2>1, SumOnes
  <2> HIDE DEF Of, w, u
  <2>4. Sum(w, Of(k)) = Cardinality(Of(k))
    BY <2>1, <2>2, <2>3, SumSame
  <2>. QED
    BY <2>4
<1>3. Sum(w, S) = Cardinality(S)
  BY SumOnes
<1>4. Sum(v, K) = Sum(n, K)
  <2> HIDE DEF v, n
  <2>. QED
    BY <1>2, SumSame
<1>. QED
  BY <1>1, <1>3, <1>4

\* A sum grows with what is added up.
LEMMA SumMonotone ==
  ASSUME NEW S, IsFiniteSet(S), NEW v, NEW w, \A x \in S : v[x] \in Int /\ w[x] \in Int /\ v[x] <= w[x]
  PROVE  Sum(v, S) <= Sum(w, S)
<1> DEFINE G == {T \in SUBSET S : Sum(v, T) <= Sum(w, T)}
<1>1. ASSUME NEW T \in SUBSET S, \A x \in T : T \ {x} \in G
      PROVE  T \in G
  <2>1. CASE T = {}
    BY <2>1, SumEmpty
  <2>2. ASSUME NEW x \in T
        PROVE  T \in G
    <3>1. IsFiniteSet(T) /\ IsFiniteSet(T \ {x}) /\ x \in S
          /\ (\A y \in T : v[y] \in Int) /\ (\A y \in T : w[y] \in Int)
          /\ (\A y \in T \ {x} : v[y] \in Int) /\ (\A y \in T \ {x} : w[y] \in Int)
      BY FS_Subset
    <3>2. Sum(v, T) = v[x] + Sum(v, T \ {x}) /\ Sum(w, T) = w[x] + Sum(w, T \ {x})
      BY <3>1, SumInt
    <3>3. Sum(v, T \ {x}) \in Int /\ Sum(w, T \ {x}) \in Int
      BY <3>1, SumInt
    <3>4. Sum(v, T \ {x}) <= Sum(w, T \ {x})
      BY <1>1
    <3>5. v[x] \in Int /\ w[x] \in Int /\ v[x] <= w[x]
      BY <3>1
    <3>6. Sum(v, T) <= Sum(w, T)
      BY <3>2, <3>3, <3>4, <3>5
    <3>. QED
      BY <3>6
  <2>. QED
    BY <2>1, <2>2
<1>2. \A T \in SUBSET S : T \in G
  <2> HIDE DEF G
  <2>. QED
    BY <1>1, SubsetInduction
<1>. QED
  BY <1>2, S \in SUBSET S

\* MapThenSumSet over rows, and over groups, is such a sum.
LEMMA SumOfIsSum ==
  ASSUME NEW S, IsFiniteSet(S), NEW col
  PROVE  SumOf(S, col) = Sum([r \in S |-> r[col]], S)
<1> DEFINE w == [r \in S |-> r[col]]
           Iter(g) == g = [s \in SUBSET S |->
                             IF s = {} THEN 0
                             ELSE (CHOOSE x \in s : TRUE)[col]
                                    + g[s \ {CHOOSE x \in s : TRUE}]]
           h == CHOOSE g : Iter(g)
<1>1. SumOf(S, col) = h[S]
  BY DEF SumOf, MapThenSumSet, MapThenFoldSet
<1>2. PICK g : Adds(g, w, S)
  BY AddsExists
<1>3. \A s \in SUBSET S : s # {} => w[First(s)] = (CHOOSE x \in s : TRUE)[col]
  <2>1. \A s \in SUBSET S : s # {} => First(s) \in S
    BY FirstIsMember
  <2>. QED
    BY <2>1 DEF First
<1>4. \A k : Adds(k, w, S) <=> Iter(k)
  BY <1>3 DEF Adds, First
<1> HIDE DEF Iter
<1>5. Iter(h)
  BY <1>2, <1>4
<1> HIDE DEF h, w
<1>6. Adds(h, w, S)
  BY <1>4, <1>5
<1>7. Sum(w, S) = h[S]
  BY <1>6, SumIs
<1>. QED
  BY <1>1, <1>7 DEF w

\* So is the sum over the groups of periods.
LEMMA GroupSumIsSum ==
  ASSUME NEW S, IsFiniteSet(S), NEW col
  PROVE  MapThenSumSet(LAMBDA g : g.sums[col], S) = Sum([r \in S |-> r.sums[col]], S)
<1> DEFINE w == [r \in S |-> r.sums[col]]
           Iter(g) == g = [s \in SUBSET S |->
                             IF s = {} THEN 0
                             ELSE (CHOOSE x \in s : TRUE).sums[col]
                                    + g[s \ {CHOOSE x \in s : TRUE}]]
           h == CHOOSE g : Iter(g)
<1>1. MapThenSumSet(LAMBDA g : g.sums[col], S) = h[S]
  BY DEF MapThenSumSet, MapThenFoldSet
<1>2. PICK g : Adds(g, w, S)
  BY AddsExists
<1>3. \A s \in SUBSET S : s # {} => w[First(s)] = (CHOOSE x \in s : TRUE).sums[col]
  <2>1. \A s \in SUBSET S : s # {} => First(s) \in S
    BY FirstIsMember
  <2>. QED
    BY <2>1 DEF First
<1>4. \A k : Adds(k, w, S) <=> Iter(k)
  BY <1>3 DEF Adds, First
<1> HIDE DEF Iter
<1>5. Iter(h)
  BY <1>2, <1>4
<1> HIDE DEF h, w
<1>6. Adds(h, w, S)
  BY <1>4, <1>5
<1>7. Sum(w, S) = h[S]
  BY <1>6, SumIs
<1>. QED
  BY <1>1, <1>7 DEF w

-----------------------------------------------------------------------------
(* The inductive invariant                                                  *)

\* A day on which no order is placed, changed or, if placed on it, paid any more.
Over(d) == d < day /\ (night => d < day - 1)

\* Only days that are over are counted, and each of them once.
OnTime ==
  /\ night => FirstDay < day
  /\ \A o \in Placed : orders[o].created <= day
  /\ \A h \in history : h.day <= day
  /\ \A d \in counted : Over(d)
  /\ job # NoJob => Over(job.date) /\ job.date \notin counted

\* An order that was cancelled stays so, one that was paid is CREATED no more.
Recorded ==
  \A h \in history :
    /\ h.status = "CANCELLED" => orders[h.order].status = "CANCELLED"
    /\ h.status = "PAID" => orders[h.order].status # "CREATED"

\* What has offers exists, and what is ordered has offers; a renaming has a name.
Stocked ==
  /\ stocked \subseteq Existing
  /\ \A o \in Placed : orders[o].cat \in stocked
  /\ admin # NoJob /\ admin.step = "save" => admin.name \in Names

PlacedOn(d) == {o \in Placed : orders[o].created = d}

PaidOn(d) == {o \in PlacedOn(d) : \E h \in history : h.order = o /\ h.status = "PAID"}

\* A row counts what happened to category c on day d, whenever it was counted.
Counts(row, c, d) ==
  /\ row.date = d
  /\ row.completed = Cardinality({h \in Changed(c, d) : h.status = "COMPLETED"})
  /\ row.cancelled = Cardinality({h \in Changed(c, d) : h.status = "CANCELLED"})
  /\ row.expired = Cardinality({h \in Changed(c, d) : h.status = "CANCELLED" /\ orders[h.order].late})
  /\ Cardinality({o \in PaidOn(d) : orders[o].cat = c}) <= row.bookings
  /\ row.bookings <= Cardinality({o \in PlacedOn(d) : orders[o].cat = c})

\* Rows, by category, account for day d, and leave no category out.
Accounts(rows, d) ==
  /\ \A c \in DOMAIN rows : Counts(rows[c], c, d)
  /\ \A h \in history : h.day = d => orders[h.order].cat \in DOMAIN rows
  /\ \A o \in PaidOn(d) : orders[o].cat \in DOMAIN rows

ResultSound ==
  job # NoJob /\ job.step = "save" =>
    \A rows \in {job.rows}, d \in {job.date} : Accounts(rows, d)

\* The rows of a day that was counted account for it, one for each category.
StatsSound ==
  \A d \in counted : \E C \in SUBSET Categories : \E rows \in [C -> {s \in stats : s.date = d}] :
    /\ {s \in stats : s.date = d} = {rows[c] : c \in C}
    /\ \A c, e \in C : rows[c].name = rows[e].name => c = e
    /\ Accounts(rows, d)

TablesFinite == IsFiniteSet(history) /\ IsFiniteSet(stats)

AInv ==
  /\ TypeOK
  /\ OnTime
  /\ Recorded
  /\ Stocked
  /\ ResultSound
  /\ StatsSound
  /\ TablesFinite

-----------------------------------------------------------------------------

\* Days are numbers.
LEMMA DayNumbers ==
  /\ FirstDay \in Nat /\ LastDay \in Nat /\ FirstDay <= LastDay
  /\ \A d \in Days : d \in Nat /\ FirstDay <= d /\ d <= LastDay
  /\ \A d \in Int : FirstDay <= d /\ d <= LastDay => d \in Days
BY AnalyticsAssumption DEF Days

\* What a placed order, and a row of its history, looks like.
LEMMA PlacedOrder ==
  ASSUME TypeOK
  PROVE  /\ Placed \subseteq Orders
         /\ \A o \in Placed : orders[o] \in Order /\ orders[o] # NoRow
         /\ \A h \in history : h.order \in Placed /\ h.day \in Days /\ h.status \in Status
BY DEF TypeOK, Placed

\* What each step of an order does, and when.
LEMMA SellChanges ==
  ASSUME TypeOK, OnTime, Stocked, NEW o \in Orders, Sell(o)
  PROVE  \E row \in Order, s \in Status :
           /\ orders' = [orders EXCEPT ![o] = row]
           /\ history' = history \cup {[order |-> o, status |-> s, day |-> day]}
           /\ UNCHANGED <<day, night, names, stocked, stats, job, admin, counted>>
           /\ row.status = s
           /\ o \in Placed => /\ row.cat = orders[o].cat /\ row.created = orders[o].created
                              /\ orders[o].status # "CANCELLED" /\ s # "CREATED"
                              /\ s = "PAID" => ~Over(row.created)
           /\ o \notin Placed => row.cat \in stocked /\ row.created = day /\ s = "CREATED"
<1> DEFINE P(row, s) ==
             /\ orders' = [orders EXCEPT ![o] = row]
             /\ history' = history \cup {[order |-> o, status |-> s, day |-> day]}
             /\ UNCHANGED <<day, night, names, stocked, stats, job, admin, counted>>
             /\ row.status = s
             /\ o \in Placed => /\ row.cat = orders[o].cat /\ row.created = orders[o].created
                                /\ orders[o].status # "CANCELLED" /\ s # "CREATED"
                                /\ s = "PAID" => ~Over(row.created)
             /\ o \notin Placed => row.cat \in stocked /\ row.created = day /\ s = "CREATED"
<1>0. SUFFICES \E row \in Order, s \in Status : P(row, s)
  OBVIOUS
<1>1. Status = {"CREATED", "PAID", "COMPLETED", "CANCELLED"}
  BY DEF Status
<1>2. ASSUME NEW c \in Categories, CreateOrder(o, c)
      PROVE  \E row \in Order, s \in Status : P(row, s)
  <2> DEFINE row == [cat |-> c, created |-> day, status |-> "CREATED", late |-> FALSE]
  <2>1. row \in Order
    BY <1>1 DEF TypeOK, Order
  <2>2. P(row, "CREATED")
    BY <1>2 DEF CreateOrder, Record, categories, worker
  <2>. QED
    BY <1>1, <2>1, <2>2
<1>3. ASSUME o \in Placed
      PROVE  /\ orders[o] = [cat |-> orders[o].cat, created |-> orders[o].created,
                             late |-> orders[o].late, status |-> orders[o].status]
             /\ orders[o].cat \in Categories /\ orders[o].created \in Days
             /\ orders[o].late \in BOOLEAN /\ orders[o].status \in Status
  <2>1. orders[o] \in Order
    BY <1>3, PlacedOrder
  <2>. QED
    BY <2>1 DEF Order
<1>4. CASE PayOrder(o)
  <2> DEFINE row == [orders[o] EXCEPT !.status = "PAID"]
  <2>0. o \in Placed
    BY <1>4 DEF PayOrder
  <2>1. row \in Order /\ row.status = "PAID" /\ row.cat = orders[o].cat
        /\ row.created = orders[o].created
    BY <1>1, <1>3, <2>0 DEF Order
  <2>2. ~Over(orders[o].created)
    <3>1. day \in Nat
      BY DayNumbers DEF TypeOK
    <3>. QED
      BY <1>4, <3>1 DEF PayOrder, Yesterday, Over
  <2>3. P(row, "PAID")
    BY <1>1, <1>4, <2>0, <2>1, <2>2 DEF PayOrder, Record, categories, worker
  <2>. QED
    BY <1>1, <2>1, <2>3
<1>5. CASE CompleteOrder(o)
  <2> DEFINE row == [orders[o] EXCEPT !.status = "COMPLETED"]
  <2>0. o \in Placed
    BY <1>5 DEF CompleteOrder
  <2>1. row \in Order /\ row.status = "COMPLETED" /\ row.cat = orders[o].cat
        /\ row.created = orders[o].created
    BY <1>1, <1>3, <2>0 DEF Order
  <2>2. P(row, "COMPLETED")
    BY <1>1, <1>5, <2>0, <2>1 DEF CompleteOrder, Record, categories, worker
  <2>. QED
    BY <1>1, <2>1, <2>2
<1>6. CASE CancelOrder(o)
  <2>0. o \in Placed
    BY <1>6 DEF CancelOrder
  <2> DEFINE cancelled == [orders[o] EXCEPT !.status = "CANCELLED"]
             expired == [cancelled EXCEPT !.late = TRUE]
  <2>1. cancelled \in Order /\ cancelled.status = "CANCELLED"
        /\ cancelled.cat = orders[o].cat /\ cancelled.created = orders[o].created
    BY <1>1, <1>3, <2>0 DEF Order
  <2>2. expired \in Order /\ expired.status = "CANCELLED"
        /\ expired.cat = orders[o].cat /\ expired.created = orders[o].created
    <3> HIDE DEF cancelled
    <3>1. \A late \in BOOLEAN :
            LET r == [cancelled EXCEPT !.late = late] IN
              r \in Order /\ r.status = cancelled.status /\ r.cat = cancelled.cat
              /\ r.created = cancelled.created
      BY <2>1 DEF Order
    <3>. QED
      BY <2>1, <3>1
  <2>3. \/ orders' = [orders EXCEPT ![o] = cancelled]
        \/ orders' = [orders EXCEPT ![o] = expired]
    <3>1. orders \in [Orders -> Order \cup {NoRow}]
      BY DEF TypeOK
    <3>. QED
      BY <1>6, <3>1 DEF CancelOrder
  <2> HIDE DEF cancelled, expired
  <2>4. PICK row \in Order :
          /\ orders' = [orders EXCEPT ![o] = row]
          /\ row.status = "CANCELLED" /\ row.cat = orders[o].cat
          /\ row.created = orders[o].created
    BY <2>1, <2>2, <2>3
  <2>5. P(row, "CANCELLED")
    BY <1>1, <1>6, <2>0, <2>4 DEF CancelOrder, Record, categories, worker
  <2>. QED
    BY <1>1, <2>4, <2>5
<1>. QED
  BY <1>2, <1>4, <1>5, <1>6 DEF Sell

\* All other steps leave the orders alone.
LEMMA OtherSteps ==
  ASSUME [Next]_vars
  PROVE  (\E o \in Orders : Sell(o)) \/ UNCHANGED <<orders, history>>
<1>1. CASE Administer
  BY <1>1 DEF Administer, CreateCategory, UpdateCategory, CreateOffer, DeleteCategory,
              SaveCategory, RemoveCategory, sales
<1>2. CASE Midnight \/ StartAnalyticsWorker \/ MissRun \/ ReadDay \/ SaveStats
  BY <1>2 DEF Midnight, StartAnalyticsWorker, MissRun, ReadDay, SaveStats, sales
<1>3. CASE Fail \/ Restart
  BY <1>3 DEF Fail, Restart, sales
<1>4. CASE UNCHANGED vars
  BY <1>4 DEF vars
<1>. QED
  BY <1>1, <1>2, <1>3, <1>4 DEF Next

\* The clock moves at midnight and at 02:00.
LEMMA OtherTimes ==
  ASSUME TypeOK, OnTime, Stocked, [Next]_vars
  PROVE  \/ Midnight \/ StartAnalyticsWorker \/ MissRun
         \/ UNCHANGED <<day, night>>
<1>1. ASSUME NEW o \in Orders, Sell(o)
      PROVE  UNCHANGED <<day, night>>
  BY <1>1, SellChanges
<1>2. CASE Administer
  BY <1>2 DEF Administer, CreateCategory, UpdateCategory, CreateOffer, DeleteCategory,
              SaveCategory, RemoveCategory
<1>3. CASE ReadDay \/ SaveStats \/ Fail \/ Restart \/ UNCHANGED vars
  BY <1>3 DEF ReadDay, SaveStats, Fail, Restart, vars
<1>. QED
  BY <1>1, <1>2, <1>3 DEF Next

\* A day that is over is so for good.
LEMMA OverStays ==
  ASSUME TypeOK, OnTime, Stocked, [Next]_vars, NEW d \in Days, Over(d)
  PROVE  Over(d)'
<1>1. day \in Nat /\ d \in Nat
  BY DayNumbers DEF TypeOK
<1>2. CASE Midnight
  BY <1>1, <1>2 DEF Midnight, Over
<1>3. CASE StartAnalyticsWorker \/ MissRun
  BY <1>1, <1>3 DEF StartAnalyticsWorker, MissRun, Over
<1>4. CASE UNCHANGED <<day, night>>
  BY <1>4 DEF Over
<1>. QED
  BY <1>2, <1>3, <1>4, OtherTimes

\* What is known of a day that is over does not change.
LEMMA PastKept ==
  ASSUME TypeOK, OnTime, Recorded, Stocked, [Next]_vars, NEW d \in Days, Over(d)
  PROVE  /\ \A h : h \in history' /\ h.day = d <=> h \in history /\ h.day = d
         /\ \A h \in history : h.day = d =>
              /\ orders'[h.order].cat = orders[h.order].cat
              /\ h.status = "CANCELLED" => orders'[h.order].late = orders[h.order].late
         /\ PlacedOn(d)' = PlacedOn(d)
         /\ PaidOn(d)' = PaidOn(d)
         /\ \A o \in PlacedOn(d) : orders'[o].cat = orders[o].cat
<1>1. CASE UNCHANGED <<orders, history>>
  BY <1>1 DEF PlacedOn, PaidOn, Placed
<1>2. ASSUME NEW o \in Orders, Sell(o)
      PROVE  /\ \A h : h \in history' /\ h.day = d <=> h \in history /\ h.day = d
             /\ \A h \in history : h.day = d =>
                  /\ orders'[h.order].cat = orders[h.order].cat
                  /\ h.status = "CANCELLED" => orders'[h.order].late = orders[h.order].late
             /\ PlacedOn(d)' = PlacedOn(d)
             /\ PaidOn(d)' = PaidOn(d)
             /\ \A q \in PlacedOn(d) : orders'[q].cat = orders[q].cat
  <2>1. PICK row \in Order, s \in Status :
           /\ orders' = [orders EXCEPT ![o] = row]
           /\ history' = history \cup {[order |-> o, status |-> s, day |-> day]}
           /\ row.status = s
           /\ o \in Placed => /\ row.cat = orders[o].cat /\ row.created = orders[o].created
                              /\ orders[o].status # "CANCELLED" /\ s # "CREATED"
                              /\ s = "PAID" => ~Over(row.created)
           /\ o \notin Placed => row.cat \in stocked /\ row.created = day /\ s = "CREATED"
    BY <1>2, SellChanges
  <2>2. d # day /\ d < day /\ day \in Nat /\ d \in Nat
    BY DayNumbers DEF Over, TypeOK
  <2>3. /\ orders'[o] = row /\ row # NoRow
        /\ \A q \in Orders : q # o => orders'[q] = orders[q]
    BY <2>1, AnalyticsAssumption DEF TypeOK
  <2>4. \A h : h \in history' /\ h.day = d <=> h \in history /\ h.day = d
    BY <2>1, <2>2
  <2>5. \A h \in history : h.day = d =>
          /\ orders'[h.order].cat = orders[h.order].cat
          /\ h.status = "CANCELLED" => orders'[h.order].late = orders[h.order].late
    <3>1. \A h \in history : h.order \in Placed /\ h.order \in Orders
      BY PlacedOrder
    <3>2. \A h \in history : h.status = "CANCELLED" => orders[h.order].status = "CANCELLED"
      BY DEF Recorded
    <3>. QED
      BY <2>1, <2>3, <3>1, <3>2
  <2>6. \A q \in Orders : q \in Placed' <=> q \in Placed \/ q = o
    BY <2>3 DEF Placed
  <2>7. PlacedOn(d)' = PlacedOn(d)
    <3>1. \A q \in Orders : q \in PlacedOn(d)' <=> q \in PlacedOn(d)
      BY <2>1, <2>2, <2>3, <2>6 DEF PlacedOn
    <3>2. PlacedOn(d) \subseteq Orders /\ PlacedOn(d)' \subseteq Orders
      BY DEF PlacedOn, Placed
    <3>. QED
      BY <3>1, <3>2
  <2>8. \A q \in PlacedOn(d) : orders'[q].cat = orders[q].cat
    BY <2>1, <2>3 DEF PlacedOn, Placed
  <2>9. PaidOn(d)' = PaidOn(d)
    <3> DEFINE paid(q) == \E h \in history : h.order = q /\ h.status = "PAID"
    <3>1. ASSUME NEW q \in PlacedOn(d), s = "PAID", q = o
          PROVE  FALSE
      BY <2>1, <3>1 DEF PlacedOn
    <3>2. ASSUME NEW q \in PlacedOn(d)
          PROVE  (\E h \in history' : h.order = q /\ h.status = "PAID") <=> paid(q)
      BY <2>1, <3>1
    <3>. QED
      BY <2>7, <3>2 DEF PaidOn
  <2>. QED
    BY <2>4, <2>5, <2>7, <2>8, <2>9
<1>. QED
  BY <1>1, <1>2, OtherSteps

\* So rows that account for it go on doing so.
LEMMA AccountsKept ==
  ASSUME TypeOK, OnTime, Recorded, Stocked, [Next]_vars, NEW d \in Days, Over(d),
         NEW rows, Accounts(rows, d)
  PROVE  Accounts(rows, d)'
<1>1. /\ \A h : h \in history' /\ h.day = d <=> h \in history /\ h.day = d
      /\ \A h \in history : h.day = d =>
           /\ orders'[h.order].cat = orders[h.order].cat
           /\ h.status = "CANCELLED" => orders'[h.order].late = orders[h.order].late
      /\ PlacedOn(d)' = PlacedOn(d)
      /\ PaidOn(d)' = PaidOn(d)
      /\ \A o \in PlacedOn(d) : orders'[o].cat = orders[o].cat
  BY PastKept
<1>2. \A c : Changed(c, d)' = Changed(c, d)
  BY <1>1 DEF Changed
<1>3. PaidOn(d) \subseteq PlacedOn(d)
  BY DEF PaidOn
<1>4. ASSUME NEW c
      PROVE  /\ {o \in PaidOn(d)' : orders'[o].cat = c} = {o \in PaidOn(d) : orders[o].cat = c}
             /\ {o \in PlacedOn(d)' : orders'[o].cat = c} = {o \in PlacedOn(d) : orders[o].cat = c}
  BY <1>1, <1>3
<1>5. ASSUME NEW c
      PROVE  {h \in Changed(c, d)' : h.status = "CANCELLED" /\ orders'[h.order].late} =
               {h \in Changed(c, d) : h.status = "CANCELLED" /\ orders[h.order].late}
  <2>1. \A h \in Changed(c, d) : h \in history /\ h.day = d
    BY DEF Changed
  <2>. QED
    BY <1>1, <1>2, <2>1
<1>6. ASSUME NEW c \in DOMAIN rows
      PROVE  Counts(rows[c], c, d)'
  <2>1. Counts(rows[c], c, d)
    BY DEF Accounts
  <2>2. Changed(c, d)' = Changed(c, d)
    BY <1>2
  <2>3. /\ rows[c].date = d
        /\ rows[c].completed = Cardinality({h \in Changed(c, d)' : h.status = "COMPLETED"})
        /\ rows[c].cancelled = Cardinality({h \in Changed(c, d)' : h.status = "CANCELLED"})
    BY <2>1, <2>2 DEF Counts
  <2>4. rows[c].expired =
          Cardinality({h \in Changed(c, d)' : h.status = "CANCELLED" /\ orders'[h.order].late})
    <3>1. rows[c].expired =
            Cardinality({h \in Changed(c, d) : h.status = "CANCELLED" /\ orders[h.order].late})
      BY <2>1 DEF Counts
    <3>. QED
      BY <1>5, <3>1
  <2>5. /\ Cardinality({o \in PaidOn(d)' : orders'[o].cat = c}) <= rows[c].bookings
        /\ rows[c].bookings <= Cardinality({o \in PlacedOn(d)' : orders'[o].cat = c})
    <3>1. /\ Cardinality({o \in PaidOn(d) : orders[o].cat = c}) <= rows[c].bookings
          /\ rows[c].bookings <= Cardinality({o \in PlacedOn(d) : orders[o].cat = c})
      BY <2>1 DEF Counts
    <3>. QED
      BY <1>4, <3>1
  <2>. QED
    BY <2>3, <2>4, <2>5 DEF Counts
<1>7. \A h \in history' : h.day = d => orders'[h.order].cat \in DOMAIN rows
  BY <1>1 DEF Accounts
<1>8. \A o \in PaidOn(d)' : orders'[o].cat \in DOMAIN rows
  BY <1>1, <1>3 DEF Accounts
<1>. QED
  BY <1>6, <1>7, <1>8 DEF Accounts

\* The query of a day that is over accounts for it: an order that was paid is CREATED no
\* more, and a category with an order is among the rows of categories.
LEMMA ReadAccounts ==
  ASSUME TypeOK, OnTime, Recorded, Stocked, TablesFinite, NEW d \in Days
  PROVE  LET rows == AggregateDailyStats(d) IN
           /\ DOMAIN rows \subseteq Categories
           /\ rows \in [DOMAIN rows -> Stat]
           /\ Accounts(rows, d)
<1> DEFINE rows == AggregateDailyStats(d)
           D == Sides(d) \cap Existing
<1>1. /\ DOMAIN rows = D
      /\ \A c \in D : rows[c] = Row(c, d)
  BY DEF AggregateDailyStats
<1> HIDE DEF rows
<1>2. D \subseteq Categories
  BY DEF Existing
<1>3. Placed \subseteq Orders /\ IsFiniteSet(Placed) /\ IsFiniteSet(history)
  BY PlacedOrder, AnalyticsAssumption, FS_Subset DEF TablesFinite
<1>4. ASSUME NEW S \in SUBSET Placed
      PROVE  IsFiniteSet(S) /\ Cardinality(S) \in Nat
             /\ \A T \in SUBSET S : Cardinality(T) <= Cardinality(S)
  BY <1>3, FS_Subset, FS_CardinalityType
<1>5. ASSUME NEW S \in SUBSET history
      PROVE  IsFiniteSet(S) /\ Cardinality(S) \in Nat
  BY <1>3, FS_Subset, FS_CardinalityType
<1>6. ASSUME NEW c \in D
      PROVE  Row(c, d) \in Stat /\ Counts(Row(c, d), c, d)
  <2> DEFINE with(S) == {h \in Changed(c, d) : h.status \in S}
             late == {h \in Changed(c, d) : h.status = "CANCELLED" /\ orders[h.order].late}
             paid == {o \in PaidOn(d) : orders[o].cat = c}
             placed == {o \in PlacedOn(d) : orders[o].cat = c}
  <2>1. /\ with({"COMPLETED"}) \in SUBSET history /\ with({"CANCELLED"}) \in SUBSET history
        /\ late \in SUBSET history
    BY DEF Changed
  <2>2. /\ placed \in SUBSET Placed /\ Booked(c, d) \in SUBSET Placed
        /\ Booked(c, d) \in SUBSET placed
    BY DEF Booked, PlacedOn
  <2>3. paid \in SUBSET Booked(c, d)
    <3>1. \A o \in PaidOn(d) : orders[o].status # "CREATED"
      BY DEF PaidOn, Recorded
    <3>. QED
      BY <3>1 DEF PaidOn, PlacedOn, Booked
  <2>4. /\ with({"COMPLETED"}) = {h \in Changed(c, d) : h.status = "COMPLETED"}
        /\ with({"CANCELLED"}) = {h \in Changed(c, d) : h.status = "CANCELLED"}
    OBVIOUS
  <2>5. Row(c, d) = [date |-> d, name |-> names[c], bookings |-> Cardinality(Booked(c, d)),
                     completed |-> Cardinality(with({"COMPLETED"})),
                     cancelled |-> Cardinality(with({"CANCELLED"})),
                     expired |-> Cardinality(late)]
    BY DEF Row
  <2>6. names[c] \in Names
    BY <1>2 DEF TypeOK, Existing
  <2>7. /\ Cardinality(with({"COMPLETED"})) \in Nat /\ Cardinality(with({"CANCELLED"})) \in Nat
        /\ Cardinality(late) \in Nat /\ Cardinality(Booked(c, d)) \in Nat
    <3> HIDE DEF with, late
    <3>. QED
      BY <1>4, <1>5, <2>1, <2>2
  <2>8. Cardinality(paid) <= Cardinality(Booked(c, d))
        /\ Cardinality(Booked(c, d)) <= Cardinality(placed)
    <3> HIDE DEF paid, placed
    <3>. QED
      BY <1>4, <2>2, <2>3
  <2>9. Row(c, d) \in Stat
    <3> HIDE DEF with, late
    <3>. QED
      BY <2>5, <2>6, <2>7 DEF Stat
  <2>10. /\ Row(c, d).date = d
         /\ Row(c, d).completed = Cardinality({h \in Changed(c, d) : h.status = "COMPLETED"})
         /\ Row(c, d).cancelled = Cardinality({h \in Changed(c, d) : h.status = "CANCELLED"})
         /\ Row(c, d).expired = Cardinality(late)
         /\ Cardinality(paid) <= Row(c, d).bookings
         /\ Row(c, d).bookings <= Cardinality(placed)
    <3> DEFINE completed == {h \in Changed(c, d) : h.status = "COMPLETED"}
               cancelled == {h \in Changed(c, d) : h.status = "CANCELLED"}
    <3>1. with({"COMPLETED"}) = completed /\ with({"CANCELLED"}) = cancelled
      BY <2>4
    <3> HIDE DEF with, late, completed, cancelled, paid, placed
    <3>2. /\ Row(c, d).date = d
          /\ Row(c, d).completed = Cardinality(completed)
          /\ Row(c, d).cancelled = Cardinality(cancelled)
          /\ Row(c, d).expired = Cardinality(late)
          /\ Cardinality(paid) <= Row(c, d).bookings
          /\ Row(c, d).bookings <= Cardinality(placed)
      BY <2>5, <2>8, <3>1
    <3>. QED
      BY <3>2 DEF completed, cancelled
  <2>. QED
    BY <2>9, <2>10 DEF Counts
<1>7. \A o \in Placed : orders[o].cat \in Existing
  BY DEF Stocked
<1>8. ASSUME NEW h \in history, h.day = d
      PROVE  orders[h.order].cat \in D
  <2>1. h.order \in Placed
    BY PlacedOrder
  <2>2. h \in Changed(orders[h.order].cat, d)
    BY <1>8 DEF Changed
  <2>. QED
    BY <1>7, <2>1, <2>2 DEF Sides, Existing
<1>9. ASSUME NEW o \in PaidOn(d)
      PROVE  orders[o].cat \in D
  <2>1. o \in Placed /\ orders[o].status # "CREATED" /\ orders[o].created = d
    BY DEF PaidOn, PlacedOn, Recorded
  <2>2. o \in Booked(orders[o].cat, d)
    BY <2>1 DEF Booked
  <2>. QED
    BY <1>7, <2>1, <2>2 DEF Sides, Existing
<1>10. rows \in [DOMAIN rows -> Stat]
  <2>1. rows = [c \in D |-> rows[c]]
    BY <1>1 DEF rows, AggregateDailyStats
  <2>. QED
    BY <1>1, <1>6, <2>1
<1>11. Accounts(rows, d)
  BY <1>1, <1>6, <1>8, <1>9 DEF Accounts
<1>. QED
  BY <1>1, <1>2, <1>10, <1>11 DEF rows

\* What SaveStats does: no row of the day is there before.
LEMMA SaveAdds ==
  ASSUME TypeOK, OnTime, ResultSound, SaveStats
  PROVE  LET new == {job.rows[c] : c \in DOMAIN job.rows} IN
           /\ job # NoJob /\ job.date \in Days /\ Over(job.date) /\ job.date \notin counted
           /\ DOMAIN job.rows \subseteq Categories
           /\ Accounts(job.rows, job.date)
           /\ \A r \in new : r \in Stat /\ r.date = job.date
           /\ \A s \in stats : s.date # job.date
           /\ \/ UNCHANGED <<stats, counted>>
              \/ /\ stats' = stats \cup new
                 /\ counted' = counted \cup {job.date}
                 /\ \A c, e \in DOMAIN job.rows : job.rows[c].name = job.rows[e].name => c = e
           /\ job' = NoJob
           /\ UNCHANGED <<day, night, orders, history, names, stocked, admin>>
<1> DEFINE new == {job.rows[c] : c \in DOMAIN job.rows}
<1>1. job # NoJob /\ job.step = "save"
  BY DEF SaveStats
<1>2. /\ job \in [step : {"read", "save"}, date : Days, rows : {job.rows}]
      /\ DOMAIN job.rows \subseteq Categories
      /\ job.rows \in [DOMAIN job.rows -> Stat]
  BY <1>1 DEF TypeOK
<1>3. job.date \in Days /\ Over(job.date) /\ job.date \notin counted
  BY <1>1, <1>2 DEF OnTime
<1>4. Accounts(job.rows, job.date)
  BY <1>1 DEF ResultSound
<1>5. \A r \in new : r \in Stat /\ r.date = job.date
  <2>1. ASSUME NEW c \in DOMAIN job.rows
        PROVE  job.rows[c] \in Stat /\ job.rows[c].date = job.date
    BY <1>2, <1>4 DEF Accounts, Counts
  <2>. QED
    BY <2>1
<1>6. \A s \in stats : s.date # job.date
  BY <1>3 DEF TypeOK
<1>7. \/ UNCHANGED <<stats, counted>>
      \/ /\ stats' = stats \cup new
         /\ counted' = counted \cup {job.date}
         /\ \A c, e \in DOMAIN job.rows : job.rows[c].name = job.rows[e].name => c = e
  <2> DEFINE kept == {s \in stats : \A r \in new : <<s.date, s.name>> # <<r.date, r.name>>}
  <2>1. kept = stats
    BY <1>5, <1>6
  <2>2. \/ UNCHANGED <<stats, counted>>
        \/ /\ stats' = kept \cup new
           /\ counted' = counted \cup {job.date}
           /\ \A c, e \in DOMAIN job.rows : job.rows[c].name = job.rows[e].name => c = e
    BY DEF SaveStats
  <2> HIDE DEF kept, new
  <2>. QED
    BY <2>1, <2>2
<1>8. job' = NoJob /\ UNCHANGED <<day, night, orders, history, names, stocked, admin>>
  BY DEF SaveStats, sales, categories
<1> HIDE DEF new
<1>. QED
  BY <1>1, <1>2, <1>3, <1>4, <1>5, <1>6, <1>7, <1>8 DEF new

\* What ReadDay does.
LEMMA ReadFinds ==
  ASSUME TypeOK, OnTime, Recorded, Stocked, TablesFinite, ReadDay
  PROVE  LET rows == AggregateDailyStats(job.date) IN
           /\ job # NoJob /\ job.date \in Days /\ Over(job.date) /\ job.date \notin counted
           /\ DOMAIN rows \subseteq Categories
           /\ rows \in [DOMAIN rows -> Stat]
           /\ Accounts(rows, job.date)
           /\ \/ DOMAIN rows = {} /\ job' = NoJob /\ counted' = counted \cup {job.date}
              \/ job' = [step |-> "save", date |-> job.date, rows |-> rows] /\ counted' = counted
           /\ UNCHANGED <<day, night, orders, history, names, stocked, stats, admin>>
<1>1. job # NoJob /\ job.step = "read"
  BY DEF ReadDay
<1>2. job \in [step : {"read", "save"}, date : Days, rows : {job.rows}]
  BY <1>1 DEF TypeOK
<1>3. job.date \in Days /\ Over(job.date) /\ job.date \notin counted
  BY <1>1, <1>2 DEF OnTime
<1> DEFINE rows == AggregateDailyStats(job.date)
<1>4. /\ DOMAIN rows \subseteq Categories
      /\ rows \in [DOMAIN rows -> Stat]
      /\ Accounts(rows, job.date)
  BY <1>3, ReadAccounts
<1>5. \/ DOMAIN rows = {} /\ job' = NoJob /\ counted' = counted \cup {job.date}
      \/ job' = [job EXCEPT !.step = "save", !.rows = rows] /\ counted' = counted
  BY DEF ReadDay
<1>6. UNCHANGED <<day, night, orders, history, names, stocked, stats, admin>>
  BY DEF ReadDay, sales, categories
<1> HIDE DEF rows
<1>7. [job EXCEPT !.step = "save", !.rows = rows] = [step |-> "save", date |-> job.date, rows |-> rows]
  <2> DEFINE saving == [job EXCEPT !.step = "save"]
  <2>1. saving \in [step : {"save"}, date : {job.date}, rows : {job.rows}]
    BY <1>2
  <2>2. [job EXCEPT !.step = "save", !.rows = rows] = [saving EXCEPT !.rows = rows]
    OBVIOUS
  <2> HIDE DEF saving
  <2>3. [saving EXCEPT !.rows = rows] \in [step : {"save"}, date : {job.date}, rows : {rows}]
    BY <2>1
  <2>. QED
    BY <2>2, <2>3
<1>. QED
  BY <1>1, <1>3, <1>4, <1>5, <1>6, <1>7 DEF rows

-----------------------------------------------------------------------------
(* Every step preserves it                                                  *)

\* Types, and rows that are one per day and name.
LEMMA TypeStep ==
  ASSUME TypeOK, OnTime, Recorded, Stocked, ResultSound, TablesFinite, [Next]_vars
  PROVE  TypeOK'
<1>1. ASSUME NEW o \in Orders, Sell(o)
      PROVE  TypeOK'
  <2>1. PICK row \in Order, s \in Status :
           /\ orders' = [orders EXCEPT ![o] = row]
           /\ history' = history \cup {[order |-> o, status |-> s, day |-> day]}
           /\ UNCHANGED <<day, night, names, stocked, stats, job, admin, counted>>
    BY <1>1, SellChanges
  <2>2. orders' \in [Orders -> Order \cup {NoRow}]
    BY <2>1 DEF TypeOK
  <2>3. o \in Placed' /\ Placed \subseteq Placed'
    BY <2>1, AnalyticsAssumption DEF TypeOK, Placed
  <2>4. history' \subseteq [order : Placed', day : Days, status : Status]
    BY <2>1, <2>3 DEF TypeOK
  <2>. QED
    BY <2>1, <2>2, <2>4 DEF TypeOK
<1>2. ASSUME UNCHANGED <<orders, history>>
      PROVE  /\ orders' \in [Orders -> Order \cup {NoRow}]
             /\ history' \subseteq [order : Placed', day : Days, status : Status]
  BY <1>2 DEF TypeOK, Placed
<1>3. CASE Administer
  <2>1. UNCHANGED <<day, night, orders, history, stats, job, counted>>
    BY <1>3 DEF Administer, CreateCategory, UpdateCategory, CreateOffer, DeleteCategory,
                SaveCategory, RemoveCategory, sales, worker
  <2>2. /\ names' \in [Categories -> Names \cup {NoRow}]
        /\ stocked' \subseteq Categories
        /\ admin' \in Request \cup {NoJob}
    <3>1. ASSUME NEW c \in Categories, NEW n \in Names, CreateCategory(c, n)
          PROVE  <2>2!1 /\ <2>2!2 /\ <2>2!3
      BY <3>1 DEF CreateCategory, TypeOK
    <3>2. ASSUME NEW c \in Categories, NEW n \in Names, UpdateCategory(c, n)
          PROVE  <2>2!1 /\ <2>2!2 /\ <2>2!3
      BY <3>2 DEF UpdateCategory, TypeOK, categories, Request
    <3>3. ASSUME NEW c \in Categories, CreateOffer(c)
          PROVE  <2>2!1 /\ <2>2!2 /\ <2>2!3
      BY <3>3 DEF CreateOffer, TypeOK
    <3>4. ASSUME NEW c \in Categories, DeleteCategory(c)
          PROVE  <2>2!1 /\ <2>2!2 /\ <2>2!3
      BY <3>4 DEF DeleteCategory, TypeOK, categories, Request
    <3>5. ASSUME admin # NoJob
          PROVE  admin.cat \in Categories /\ admin.name \in Names \cup {NoRow}
      BY <3>5 DEF TypeOK, Request
    <3>6. CASE SaveCategory
      BY <3>5, <3>6 DEF SaveCategory, TypeOK
    <3>7. CASE RemoveCategory
      BY <3>5, <3>7 DEF RemoveCategory, TypeOK
    <3>. QED
      BY <1>3, <3>1, <3>2, <3>3, <3>4, <3>6, <3>7 DEF Administer
  <2>. QED
    BY <1>2, <2>1, <2>2 DEF TypeOK
<1>4. CASE Midnight
  <2>1. day' \in Days
    BY <1>4, DayNumbers DEF Midnight, TypeOK
  <2>. QED
    BY <1>2, <1>4, <2>1 DEF Midnight, sales, categories, worker, TypeOK
<1>5. CASE StartAnalyticsWorker
  <2>1. Yesterday \in Days
    BY <1>5, DayNumbers DEF StartAnalyticsWorker, OnTime, TypeOK, Yesterday
  <2>2. /\ job' \in [step : {"read", "save"}, date : Days, rows : {<<>>}]
        /\ job'.rows = <<>>
    BY <1>5, <2>1 DEF StartAnalyticsWorker
  <2>3. DOMAIN <<>> = {} /\ <<>> \in [{} -> Stat]
    OBVIOUS
  <2>. QED
    BY <1>2, <1>5, <2>2, <2>3 DEF StartAnalyticsWorker, sales, categories, TypeOK
<1>6. CASE MissRun
  BY <1>2, <1>6 DEF MissRun, sales, categories, worker, TypeOK
<1>7. CASE ReadDay
  <2> DEFINE rows == AggregateDailyStats(job.date)
  <2>1. /\ job # NoJob /\ job.date \in Days
        /\ DOMAIN rows \subseteq Categories
        /\ rows \in [DOMAIN rows -> Stat]
        /\ \/ DOMAIN rows = {} /\ job' = NoJob /\ counted' = counted \cup {job.date}
           \/ job' = [step |-> "save", date |-> job.date, rows |-> rows] /\ counted' = counted
        /\ UNCHANGED <<day, night, orders, history, names, stocked, stats, admin>>
    BY <1>7, ReadFinds
  <2> HIDE DEF rows
  <2>. QED
    BY <1>2, <2>1 DEF TypeOK
<1>8. CASE SaveStats
  <2> DEFINE new == {job.rows[c] : c \in DOMAIN job.rows}
  <2>1. /\ job.date \in Days
        /\ \A r \in new : r \in Stat /\ r.date = job.date
        /\ \A s \in stats : s.date # job.date
        /\ \/ UNCHANGED <<stats, counted>>
           \/ /\ stats' = stats \cup new
              /\ counted' = counted \cup {job.date}
              /\ \A c, e \in DOMAIN job.rows : job.rows[c].name = job.rows[e].name => c = e
        /\ job' = NoJob
        /\ UNCHANGED <<day, night, orders, history, names, stocked, admin>>
    BY <1>8, SaveAdds
  <2>2. /\ stats' \subseteq Stat /\ counted' \subseteq Days
        /\ {s.date : s \in stats'} \subseteq counted'
    BY <2>1 DEF TypeOK
  <2>3. \A s, t \in stats' : <<s.date, s.name>> = <<t.date, t.name>> => s = t
    <3>1. CASE stats' = stats
      BY <3>1 DEF TypeOK
    <3>2. CASE /\ stats' = stats \cup new
               /\ \A c, e \in DOMAIN job.rows : job.rows[c].name = job.rows[e].name => c = e
      <4>1. \A s, t \in new : s.name = t.name => s = t
        BY <3>2
      <4>2. \A s, t \in stats : <<s.date, s.name>> = <<t.date, t.name>> => s = t
        BY DEF TypeOK
      <4> HIDE DEF new
      <4>. QED
        BY <2>1, <3>2, <4>1, <4>2
    <3>. QED
      BY <2>1, <3>1, <3>2
  <2>. QED
    BY <1>2, <2>1, <2>2, <2>3 DEF TypeOK
<1>9. CASE Fail \/ Restart
  <2>1. UNCHANGED <<day, night, orders, history, names, stocked, stats, counted>>
        /\ job' \in {job, NoJob} /\ admin' \in {admin, NoJob}
    BY <1>9 DEF Fail, Restart, sales, categories
  <2>. QED
    BY <1>2, <2>1 DEF TypeOK
<1>10. CASE UNCHANGED vars
  BY <1>2, <1>10 DEF vars, TypeOK
<1>. QED
  BY <1>1, <1>3, <1>4, <1>5, <1>6, <1>7, <1>8, <1>9, <1>10 DEF Next

\* The cron job takes up no day before it is over, and none twice.
LEMMA OnTimeStep ==
  ASSUME TypeOK, OnTime, Recorded, Stocked, ResultSound, TablesFinite, [Next]_vars
  PROVE  OnTime'
<1>0. /\ day \in Nat /\ FirstDay \in Nat /\ FirstDay <= day
      /\ \A d \in Days : d \in Nat
      /\ \A d \in counted : d \in Days
  BY DayNumbers DEF TypeOK
<1>1. ASSUME NEW o \in Orders, Sell(o)
      PROVE  OnTime'
  <2>1. PICK row \in Order, s \in Status :
           /\ orders' = [orders EXCEPT ![o] = row]
           /\ history' = history \cup {[order |-> o, status |-> s, day |-> day]}
           /\ UNCHANGED <<day, night, job, counted>>
           /\ o \in Placed => row.created = orders[o].created
           /\ o \notin Placed => row.created = day
    BY <1>1, SellChanges
  <2>2. \A q \in Placed' : orders'[q].created <= day
    <3>1. ASSUME NEW q \in Placed', q # o
          PROVE  q \in Placed /\ orders'[q] = orders[q]
      BY <2>1, <3>1 DEF TypeOK, Placed
    <3>2. orders'[o] = row /\ row.created <= day
      BY <1>0, <2>1 DEF TypeOK, OnTime
    <3>. QED
      BY <3>1, <3>2 DEF OnTime
  <2>3. \A h \in history' : h.day <= day
    BY <1>0, <2>1 DEF OnTime
  <2>. QED
    BY <2>1, <2>2, <2>3 DEF OnTime, Over
<1>2. ASSUME NEW d \in counted
      PROVE  Over(d)'
  BY <1>0, OverStays DEF OnTime
<1>3. /\ \A o \in Placed : orders[o].created \in Nat
      /\ \A h \in history : h.day \in Nat
  <2>1. \A o \in Placed : orders[o].created \in Days
    BY PlacedOrder DEF Order
  <2>. QED
    BY <1>0, <2>1, PlacedOrder
<1>4. CASE Midnight
  <2>1. UNCHANGED <<orders, history, job, counted>> /\ day' = day + 1 /\ night' /\ job = NoJob
    BY <1>4 DEF Midnight, sales, worker
  <2>. QED
    BY <1>0, <1>2, <1>3, <2>1 DEF OnTime, Placed
<1>5. CASE StartAnalyticsWorker
  <2>1. /\ UNCHANGED <<orders, history, counted, day>> /\ night /\ night' = FALSE
        /\ job'.date = day - 1
    BY <1>5 DEF StartAnalyticsWorker, sales, Yesterday
  <2>2. day - 1 \notin counted
    BY <1>0, <2>1 DEF OnTime, Over
  <2>. QED
    BY <1>0, <1>2, <2>1, <2>2 DEF OnTime, Over, Placed
<1>6. CASE MissRun
  BY <1>2, <1>6 DEF MissRun, sales, worker, OnTime, Placed
<1>7. CASE ReadDay
  <2>1. /\ job # NoJob /\ Over(job.date) /\ job.date \notin counted
        /\ \/ job' = NoJob /\ counted' = counted \cup {job.date}
           \/ job'.date = job.date /\ counted' = counted
        /\ UNCHANGED <<day, night, orders, history>>
    BY <1>7, ReadFinds
  <2>. QED
    BY <2>1 DEF OnTime, Over, Placed
<1>8. CASE SaveStats
  <2>1. /\ Over(job.date)
        /\ counted' = counted \/ counted' = counted \cup {job.date}
        /\ job' = NoJob
        /\ UNCHANGED <<day, night, orders, history>>
    BY <1>8, SaveAdds
  <2>. QED
    BY <2>1 DEF OnTime, Over, Placed
<1>9. CASE Administer \/ Fail \/ Restart \/ UNCHANGED vars
  <2>1. UNCHANGED <<day, night, orders, history, counted>> /\ job' \in {job, NoJob}
    BY <1>9 DEF Administer, CreateCategory, UpdateCategory, CreateOffer, DeleteCategory,
                SaveCategory, RemoveCategory, Fail, Restart, vars, sales, worker, categories
  <2>. QED
    BY <2>1 DEF OnTime, Over, Placed
<1>. QED
  BY <1>1, <1>4, <1>5, <1>6, <1>7, <1>8, <1>9 DEF Next

\* Cancelled orders are not touched again, and none goes back to CREATED.
LEMMA RecordedStep ==
  ASSUME TypeOK, OnTime, Recorded, Stocked, [Next]_vars
  PROVE  Recorded'
<1>1. ASSUME NEW o \in Orders, Sell(o)
      PROVE  Recorded'
  <2>1. PICK row \in Order, s \in Status :
           /\ orders' = [orders EXCEPT ![o] = row]
           /\ history' = history \cup {[order |-> o, status |-> s, day |-> day]}
           /\ row.status = s
           /\ o \in Placed => orders[o].status # "CANCELLED" /\ s # "CREATED"
    BY <1>1, SellChanges
  <2>2. orders'[o] = row /\ \A q \in Orders : q # o => orders'[q] = orders[q]
    BY <2>1 DEF TypeOK
  <2>3. \A h \in history : h.order \in Placed /\ h.order \in Orders
    BY PlacedOrder
  <2>4. ASSUME NEW h \in history
        PROVE  /\ h.status = "CANCELLED" => orders'[h.order].status = "CANCELLED"
               /\ h.status = "PAID" => orders'[h.order].status # "CREATED"
    BY <2>1, <2>2, <2>3 DEF Recorded
  <2>. QED
    BY <2>1, <2>2, <2>4 DEF Recorded
<1>2. CASE UNCHANGED <<orders, history>>
  BY <1>2 DEF Recorded
<1>. QED
  BY <1>1, <1>2, OtherSteps

\* The foreign key: a category with offers is not dropped.
LEMMA StockedStep ==
  ASSUME TypeOK, OnTime, Stocked, [Next]_vars
  PROVE  Stocked'
<1>1. ASSUME NEW o \in Orders, Sell(o)
      PROVE  Stocked'
  <2>1. PICK row \in Order, s \in Status :
           /\ orders' = [orders EXCEPT ![o] = row]
           /\ UNCHANGED <<names, stocked, admin>>
           /\ o \in Placed => row.cat = orders[o].cat
           /\ o \notin Placed => row.cat \in stocked
    BY <1>1, SellChanges
  <2>2. orders'[o] = row /\ \A q \in Orders : q # o => orders'[q] = orders[q]
    BY <2>1 DEF TypeOK
  <2>3. \A q \in Placed' : q \in Orders /\ (q # o => q \in Placed)
    BY <2>2 DEF Placed
  <2>4. \A q \in Placed' : orders'[q].cat \in stocked'
    BY <2>1, <2>2, <2>3 DEF Stocked
  <2>. QED
    BY <2>1, <2>4 DEF Stocked, Existing
<1>2. ASSUME UNCHANGED orders, stocked \subseteq stocked', stocked' \subseteq Existing',
             admin' # NoJob /\ admin'.step = "save" => admin'.name \in Names
      PROVE  Stocked'
  BY <1>2 DEF Stocked, Placed
<1>3. NoRow \notin Names
  BY AnalyticsAssumption
<1>4. ASSUME NEW c \in Categories, NEW n \in Names, CreateCategory(c, n)
      PROVE  Stocked'
  BY <1>2, <1>3, <1>4 DEF CreateCategory, Stocked, Existing, TypeOK, sales
<1>5. ASSUME NEW c \in Categories, NEW n \in Names, UpdateCategory(c, n)
      PROVE  Stocked'
  BY <1>2, <1>5 DEF UpdateCategory, Stocked, Existing, sales, categories
<1>6. ASSUME NEW c \in Categories, CreateOffer(c)
      PROVE  Stocked'
  BY <1>2, <1>6 DEF CreateOffer, Stocked, Existing, sales
<1>7. ASSUME NEW c \in Categories, DeleteCategory(c)
      PROVE  Stocked'
  BY <1>2, <1>7 DEF DeleteCategory, Stocked, Existing, sales, categories
<1>8. CASE SaveCategory
  BY <1>2, <1>3, <1>8 DEF SaveCategory, Stocked, Existing, TypeOK, sales
<1>9. CASE RemoveCategory
  BY <1>2, <1>9 DEF RemoveCategory, Stocked, Existing, TypeOK, sales
<1>10. CASE \/ Midnight \/ StartAnalyticsWorker \/ MissRun \/ ReadDay \/ SaveStats
            \/ Fail \/ Restart \/ UNCHANGED vars
  <2>1. UNCHANGED <<orders, names, stocked>> /\ admin' \in {admin, NoJob}
    BY <1>10 DEF Midnight, StartAnalyticsWorker, MissRun, ReadDay, SaveStats, Fail, Restart,
                 vars, sales, categories
  <2>. QED
    BY <1>2, <2>1 DEF Stocked, Existing
<1>. QED
  BY <1>1, <1>4, <1>5, <1>6, <1>7, <1>8, <1>9, <1>10 DEF Next, Administer

\* What was read stays true while it waits to be saved.
LEMMA ResultSoundStep ==
  ASSUME TypeOK, OnTime, Recorded, Stocked, ResultSound, TablesFinite, [Next]_vars
  PROVE  ResultSound'
<1>1. CASE UNCHANGED job
  <2> SUFFICES ASSUME job # NoJob, job.step = "save", NEW rows \in {job.rows}, NEW d \in {job.date}
               PROVE  Accounts(rows, d)'
    BY <1>1 DEF ResultSound
  <2>1. d \in Days /\ Over(d) /\ Accounts(rows, d)
    BY DEF TypeOK, OnTime, ResultSound
  <2>. QED
    BY <2>1, AccountsKept
<1>2. CASE ReadDay
  <2> SUFFICES ASSUME job' # NoJob, NEW rows \in {job'.rows}, NEW d \in {job'.date}
               PROVE  Accounts(rows, d)'
    BY DEF ResultSound
  <2>1. /\ Accounts(AggregateDailyStats(job.date), job.date)
        /\ \/ job' = NoJob
           \/ job' = [step |-> "save", date |-> job.date, rows |-> AggregateDailyStats(job.date)]
        /\ UNCHANGED <<orders, history>>
    BY <1>2, ReadFinds
  <2>2. rows = AggregateDailyStats(job.date) /\ d = job.date
    BY <2>1
  <2>3. d \in Days /\ Over(d)
    BY <1>2, <2>2, ReadFinds
  <2>. QED
    BY <2>1, <2>2, <2>3, AccountsKept
<1>3. job' \in {job, NoJob} \/ ReadDay \/ StartAnalyticsWorker
  <2>1. ASSUME NEW o \in Orders, Sell(o)
        PROVE  UNCHANGED job
    BY <2>1, SellChanges
  <2>2. CASE Administer
    BY <2>2 DEF Administer, CreateCategory, UpdateCategory, CreateOffer, DeleteCategory,
                SaveCategory, RemoveCategory, worker
  <2>3. CASE Midnight \/ MissRun \/ SaveStats \/ Fail \/ Restart \/ UNCHANGED vars
    BY <2>3 DEF Midnight, MissRun, SaveStats, Fail, Restart, vars, worker
  <2>. QED
    BY <2>1, <2>2, <2>3 DEF Next
<1>4. CASE StartAnalyticsWorker
  BY <1>4 DEF StartAnalyticsWorker, ResultSound
<1>5. CASE job' = NoJob
  BY <1>5 DEF ResultSound
<1>. QED
  BY <1>1, <1>2, <1>3, <1>4, <1>5

\* What was saved stays true, and no later insert writes over it.
LEMMA StatsSoundStep ==
  ASSUME TypeOK, OnTime, Recorded, Stocked, ResultSound, StatsSound, TablesFinite, [Next]_vars
  PROVE  StatsSound'
<1> DEFINE For(d, C, rows) ==
             /\ {s \in stats : s.date = d} = {rows[c] : c \in C}
             /\ \A c, e \in C : rows[c].name = rows[e].name => c = e
             /\ Accounts(rows, d)
           Kept(d) == {s \in stats : s.date = d}
<1>1. ASSUME NEW d \in counted, Kept(d)' = Kept(d)
      PROVE  \E C \in SUBSET Categories : \E rows \in [C -> Kept(d)'] : For(d, C, rows)'
  <2>1. d \in Days /\ Over(d)
    BY DEF TypeOK, OnTime
  <2>2. PICK C \in SUBSET Categories : \E rows \in [C -> Kept(d)] : For(d, C, rows)
    BY DEF StatsSound
  <2>3. PICK rows \in [C -> Kept(d)] : For(d, C, rows)
    BY <2>2
  <2>4. Accounts(rows, d)'
    BY <2>1, <2>3, AccountsKept
  <2>5. For(d, C, rows)' /\ rows \in [C -> Kept(d)']
    BY <1>1, <2>3, <2>4
  <2>. QED
    BY <2>5
<1>2. CASE UNCHANGED <<stats, counted>>
  BY <1>1, <1>2 DEF StatsSound
<1>3. CASE ReadDay
  <2>1. ASSUME NEW d \in Days, d = job.date, UNCHANGED stats,
               DOMAIN AggregateDailyStats(job.date) = {},
               Accounts(AggregateDailyStats(job.date), d), Over(d), d \notin counted
        PROVE  \E C \in SUBSET Categories : \E rows \in [C -> Kept(d)'] : For(d, C, rows)'
    <3> DEFINE rows == AggregateDailyStats(job.date)
    <3>1. \A s \in stats : s.date # d
      BY <2>1 DEF TypeOK
    <3>2. PICK r : r = rows
      OBVIOUS
    <3>3. Accounts(r, d)'
      BY <2>1, <3>2, AccountsKept
    <3>4. r \in [{} -> Kept(d)']
      BY <2>1, <3>2, <1>3, ReadFinds
    <3>5. For(d, {}, r)'
      BY <2>1, <3>1, <3>3
    <3>. QED
      BY <3>4, <3>5
  <2>2. /\ job.date \in Days /\ Over(job.date) /\ job.date \notin counted
        /\ Accounts(AggregateDailyStats(job.date), job.date)
        /\ \/ DOMAIN AggregateDailyStats(job.date) = {} /\ counted' = counted \cup {job.date}
           \/ counted' = counted
        /\ UNCHANGED stats
    BY <1>3, ReadFinds
  <2>3. ASSUME NEW d \in counted'
        PROVE  \E C \in SUBSET Categories : \E rows \in [C -> Kept(d)'] : For(d, C, rows)'
    <3>1. CASE d \in counted
      <4>1. Kept(d)' = Kept(d)
        BY <2>2
      <4>. QED
        BY <1>1, <3>1, <4>1
    <3>2. CASE d \notin counted
      <4>1. d = job.date /\ DOMAIN AggregateDailyStats(job.date) = {}
        BY <2>2, <3>2
      <4>2. d \in Days /\ UNCHANGED stats /\ Over(d)
            /\ Accounts(AggregateDailyStats(job.date), d)
        BY <2>2, <4>1
      <4>. QED
        BY <2>1, <3>2, <4>1, <4>2
    <3>. QED
      BY <3>1, <3>2
  <2>. QED
    BY <2>3 DEF StatsSound
<1>4. CASE SaveStats
  <2> DEFINE new == {job.rows[c] : c \in DOMAIN job.rows}
  <2>1. /\ job.date \in Days /\ Over(job.date) /\ job.date \notin counted
        /\ DOMAIN job.rows \subseteq Categories
        /\ Accounts(job.rows, job.date)
        /\ \A r \in new : r.date = job.date
        /\ \A s \in stats : s.date # job.date
        /\ \/ UNCHANGED <<stats, counted>>
           \/ /\ stats' = stats \cup new
              /\ counted' = counted \cup {job.date}
              /\ \A c, e \in DOMAIN job.rows : job.rows[c].name = job.rows[e].name => c = e
    BY <1>4, SaveAdds
  <2>2. CASE /\ stats' = stats \cup new
             /\ counted' = counted \cup {job.date}
             /\ \A c, e \in DOMAIN job.rows : job.rows[c].name = job.rows[e].name => c = e
    <3>1. ASSUME NEW d \in counted
          PROVE  Kept(d)' = Kept(d)
      BY <2>1, <2>2
    <3>2. ASSUME NEW d, d = job.date, NEW rows, rows = job.rows
          PROVE  \E C \in SUBSET Categories : \E q \in [C -> Kept(d)'] : For(d, C, q)'
      <4>1. Kept(d)' = {rows[c] : c \in DOMAIN rows}
        BY <2>1, <2>2, <3>2
      <4>2. Accounts(rows, d)'
        BY <2>1, <3>2, AccountsKept
      <4>3. rows \in [DOMAIN rows -> Kept(d)']
        <5>1. rows \in [DOMAIN rows -> Stat]
          BY <1>4, <3>2 DEF TypeOK, SaveStats
        <5>. QED
          BY <4>1, <5>1
      <4>4. For(d, DOMAIN rows, rows)'
        BY <2>2, <3>2, <4>1, <4>2
      <4>. QED
        BY <2>1, <3>2, <4>3, <4>4
    <3>3. ASSUME NEW d \in counted'
          PROVE  \E C \in SUBSET Categories : \E q \in [C -> Kept(d)'] : For(d, C, q)'
      BY <1>1, <2>2, <3>1, <3>2
    <3>. QED
      BY <3>3 DEF StatsSound
  <2>. QED
    BY <1>2, <2>1, <2>2
<1>5. UNCHANGED <<stats, counted>> \/ ReadDay \/ SaveStats
  <2>1. ASSUME NEW o \in Orders, Sell(o)
        PROVE  UNCHANGED <<stats, counted>>
    BY <2>1, SellChanges
  <2>2. CASE Administer
    BY <2>2 DEF Administer, CreateCategory, UpdateCategory, CreateOffer, DeleteCategory,
                SaveCategory, RemoveCategory, worker
  <2>3. CASE Midnight \/ StartAnalyticsWorker \/ MissRun \/ Fail \/ Restart \/ UNCHANGED vars
    BY <2>3 DEF Midnight, StartAnalyticsWorker, MissRun, Fail, Restart, vars, worker
  <2>. QED
    BY <2>1, <2>2, <2>3 DEF Next
<1>. QED
  BY <1>2, <1>3, <1>4, <1>5

\* A step adds finitely many rows.
LEMMA TablesFiniteStep ==
  ASSUME TypeOK, OnTime, Recorded, Stocked, ResultSound, TablesFinite, [Next]_vars
  PROVE  TablesFinite'
<1>1. IsFiniteSet(history')
  <2>1. ASSUME NEW o \in Orders, Sell(o)
        PROVE  \E h : history' = history \cup {h}
    BY <2>1, SellChanges
  <2>. QED
    BY <2>1, OtherSteps, FS_AddElement DEF TablesFinite
<1>2. CASE SaveStats
  <2> DEFINE new == {job.rows[c] : c \in DOMAIN job.rows}
  <2>1. DOMAIN job.rows \subseteq Categories /\ stats' \in {stats, stats \cup new}
    BY <1>2, SaveAdds
  <2>2. IsFiniteSet(new)
    <3>1. IsFiniteSet(DOMAIN job.rows)
      BY <2>1, AnalyticsAssumption, FS_Subset
    <3>. QED
      BY <3>1, ImageFinite
  <2>3. IsFiniteSet(stats \cup new)
    BY <2>2, FS_Union DEF TablesFinite
  <2>. QED
    BY <1>1, <2>1, <2>3 DEF TablesFinite
<1>3. UNCHANGED stats \/ SaveStats
  <2>1. ASSUME NEW o \in Orders, Sell(o)
        PROVE  UNCHANGED stats
    BY <2>1, SellChanges
  <2>2. CASE Administer
    BY <2>2 DEF Administer, CreateCategory, UpdateCategory, CreateOffer, DeleteCategory,
                SaveCategory, RemoveCategory, worker
  <2>3. CASE \/ Midnight \/ StartAnalyticsWorker \/ MissRun \/ ReadDay
             \/ Fail \/ Restart \/ UNCHANGED vars
    BY <2>3 DEF Midnight, StartAnalyticsWorker, MissRun, ReadDay, Fail, Restart, vars, worker
  <2>. QED
    BY <2>1, <2>2, <2>3 DEF Next
<1>. QED
  BY <1>1, <1>2, <1>3 DEF TablesFinite

\* The invariant holds at the start,
LEMMA AInvInit ==
  ASSUME Init
  PROVE  AInv
<1>1. Placed = {}
  BY DEF Init, Placed
<1>2. TypeOK
  <2>1. day \in Days /\ night \in BOOLEAN
    <3>1. FirstDay \in Days
      BY DayNumbers
    <3>. QED
      BY <3>1 DEF Init
  <2>2. /\ orders \in [Orders -> Order \cup {NoRow}]
        /\ names \in [Categories -> Names \cup {NoRow}]
        /\ history = {} /\ stocked = {} /\ stats = {} /\ counted = {}
        /\ admin = NoJob /\ job = NoJob
    BY DEF Init
  <2>3. {s.date : s \in stats} \subseteq counted
    BY <2>2
  <2>. QED
    BY <2>1, <2>2, <2>3 DEF TypeOK
<1>3. OnTime /\ Recorded /\ ResultSound /\ StatsSound
  BY <1>1 DEF Init, OnTime, Recorded, ResultSound, StatsSound
<1>4. Stocked
  BY <1>1 DEF Init, Stocked
<1>5. TablesFinite
  BY FS_EmptySet DEF Init, TablesFinite
<1>. QED
  BY <1>2, <1>3, <1>4, <1>5 DEF AInv

\* and each step keeps it.
LEMMA AInvStep ==
  ASSUME AInv, [Next]_vars
  PROVE  AInv'
BY TypeStep, OnTimeStep, RecordedStep, StockedStep, ResultSoundStep, StatsSoundStep,
   TablesFiniteStep DEF AInv

\* The invariant holds throughout.
THEOREM Invariance == Spec => []AInv
<1>1. Init => AInv
  BY AInvInit
<1>2. AInv /\ [Next]_vars => AInv'
  BY AInvStep
<1>. QED
  BY <1>1, <1>2, PTL DEF Spec

\* An order keeps its category, and so its place in the statistics, however the
\* administrator's two-step deletion races with offers and orders of the category.
THEOREM CategoriesKept == Spec => []OrdersKeepCategory
<1>1. AInv => OrdersKeepCategory
  BY DEF AInv, Stocked, OrdersKeepCategory
<1>. QED
  BY <1>1, Invariance, PTL

-----------------------------------------------------------------------------
(* What the rows of one day add up to                                       *)

\* The rows of day d, one for each category of C.
DayRows(d, C, rows) ==
  /\ rows \in [C -> {s \in stats : s.date = d}]
  /\ {s \in stats : s.date = d} = {rows[c] : c \in C}
  /\ \A c, e \in C : rows[c].name = rows[e].name => c = e

\* The summary of a day adds up its rows by category, since no name is there twice.
LEMMA DaySum ==
  ASSUME TypeOK, TablesFinite, NEW d \in counted, NEW C \in SUBSET Categories, NEW rows,
         DayRows(d, C, rows), NEW col \in Columns
  PROVE  /\ IsFiniteSet(C)
         /\ \A c \in C : rows[c][col] \in Nat
         /\ Summary(GetStats(d, d))[col] = Sum([c \in C |-> rows[c][col]], C)
<1> DEFINE S == {s \in stats : s.date = d}
           w == [r \in S |-> r[col]]
<1>1. IsFiniteSet(C) /\ IsFiniteSet(S)
  BY AnalyticsAssumption, FS_Subset DEF TablesFinite
<1>2. \A s \in stats : s.date \in Nat
  BY DayNumbers DEF TypeOK, Stat
<1>3. d \in Nat
  BY DayNumbers DEF TypeOK
<1>4. GetStats(d, d) = S
  BY <1>2, <1>3 DEF GetStats
<1>5. \A s \in S : s[col] \in Nat
  <2>1. \A s \in S : /\ s["bookings"] \in Nat /\ s["completed"] \in Nat
                     /\ s["cancelled"] \in Nat /\ s["expired"] \in Nat
    BY DEF TypeOK, Stat
  <2>. QED
    BY <2>1 DEF Columns
<1>6. /\ \A c \in C : rows[c] \in S
      /\ S = {rows[c] : c \in C}
      /\ \A c, e \in C : rows[c] = rows[e] => c = e
  BY DEF DayRows
<1> HIDE DEF S
<1>7. \A c \in C : w[rows[c]] = rows[c][col] /\ rows[c][col] \in Nat
  BY <1>5, <1>6
<1>8. Summary(GetStats(d, d))[col] = Sum(w, S)
  BY <1>1, <1>4, SumOfIsSum DEF Summary
<1>9. \A c \in C : w[rows[c]] \in Int
  BY <1>7
<1> HIDE DEF w
<1>10. Sum(w, {rows[c] : c \in C}) = Sum([c \in C |-> w[rows[c]]], C)
  BY <1>1, <1>6, <1>9, SumReindexed
<1>11. [c \in C |-> w[rows[c]]] = [c \in C |-> rows[c][col]]
  BY <1>7
<1>. QED
  BY <1>1, <1>6, <1>7, <1>8, <1>10, <1>11

\* The saved rows of a day add up to what happened on it, after any renamings, later
\* orders and missed or failed runs: AccountsKept, with DaySum and CountByKey.
THEOREM StatisticsExact == Spec => []DaysExact
<1>1. ASSUME AInv
      PROVE  DaysExact
  <2> SUFFICES ASSUME NEW d \in counted
               PROVE  LET of == Summary(GetStats(d, d))
                          on(status) == {h \in history : h.day = d /\ h.status = status}
                      IN  /\ of["completed"] = Cardinality(on("COMPLETED"))
                          /\ of["cancelled"] = Cardinality(on("CANCELLED"))
                          /\ of["expired"] = Cardinality({h \in on("CANCELLED") : orders[h.order].late})
    BY DEF DaysExact
  <2> DEFINE of == Summary(GetStats(d, d))
             on(status) == {h \in history : h.day = d /\ h.status = status}
             late == {h \in on("CANCELLED") : orders[h.order].late}
             key == [h \in history |-> orders[h.order].cat]
             in(S, c) == Cardinality({h \in S : orders[h.order].cat = c})
  <2>1. TypeOK /\ TablesFinite
    BY <1>1 DEF AInv
  <2>2. PICK C \in SUBSET Categories : \E rows : DayRows(d, C, rows) /\ Accounts(rows, d)
    BY <1>1 DEF AInv, StatsSound, DayRows
  <2>3. PICK rows : DayRows(d, C, rows) /\ Accounts(rows, d)
    BY <2>2
  <2>4. ASSUME NEW col \in Columns, NEW S \in SUBSET {h \in history : h.day = d},
               \A c \in C : rows[c][col] = in(S, c)
        PROVE  of[col] = Cardinality(S)
    <3>1. IsFiniteSet(S)
      BY <2>1, FS_Subset DEF TablesFinite
    <3>2. IsFiniteSet(C) /\ of[col] = Sum([c \in C |-> rows[c][col]], C)
      BY <2>1, <2>3, DaySum
    <3>3. DOMAIN rows = C
      BY <2>3 DEF DayRows
    <3>4. \A h \in S : key[h] \in C
      BY <2>3, <3>3 DEF Accounts
    <3> DEFINE n == [c \in C |-> Cardinality({h \in S : key[h] = c})]
    <3>5. ASSUME NEW c \in C
          PROVE  n[c] = rows[c][col]
      <4>1. {h \in S : key[h] = c} = {h \in S : orders[h.order].cat = c}
        OBVIOUS
      <4>. QED
        BY <2>4, <4>1
    <3>6. n = [c \in C |-> rows[c][col]]
      BY <3>5
    <3>7. Sum(n, C) = Cardinality(S)
      <4> HIDE DEF key
      <4>. QED
        BY <3>1, <3>2, <3>4, CountByKey
    <3> HIDE DEF n
    <3>. QED
      BY <3>2, <3>6, <3>7
  <2>5. ASSUME NEW c \in C
        PROVE  /\ rows[c]["completed"] = in(on("COMPLETED"), c)
               /\ rows[c]["cancelled"] = in(on("CANCELLED"), c)
               /\ rows[c]["expired"] = in(late, c)
    <3>1. Counts(rows[c], c, d)
      BY <2>3 DEF DayRows, Accounts
    <3>2. /\ {h \in Changed(c, d) : h.status = "COMPLETED"} =
               {h \in on("COMPLETED") : orders[h.order].cat = c}
          /\ {h \in Changed(c, d) : h.status = "CANCELLED"} =
               {h \in on("CANCELLED") : orders[h.order].cat = c}
          /\ {h \in Changed(c, d) : h.status = "CANCELLED" /\ orders[h.order].late} =
               {h \in late : orders[h.order].cat = c}
      BY DEF Changed
    <3>3. /\ rows[c].completed = Cardinality({h \in Changed(c, d) : h.status = "COMPLETED"})
          /\ rows[c].cancelled = Cardinality({h \in Changed(c, d) : h.status = "CANCELLED"})
          /\ rows[c].expired =
               Cardinality({h \in Changed(c, d) : h.status = "CANCELLED" /\ orders[h.order].late})
      BY <3>1 DEF Counts
    <3>. QED
      BY <3>2, <3>3, Zenon
  <2>6. /\ on("COMPLETED") \in SUBSET {h \in history : h.day = d}
        /\ on("CANCELLED") \in SUBSET {h \in history : h.day = d}
        /\ late \in SUBSET {h \in history : h.day = d}
    OBVIOUS
  <2>7. "completed" \in Columns /\ "cancelled" \in Columns /\ "expired" \in Columns
    BY DEF Columns
  <2> HIDE DEF late, on, of, in
  <2>8. of["completed"] = Cardinality(on("COMPLETED"))
    BY <2>4, <2>5, <2>6, <2>7
  <2>9. of["cancelled"] = Cardinality(on("CANCELLED"))
    BY <2>4, <2>5, <2>6, <2>7
  <2>10. of["expired"] = Cardinality(late)
    BY <2>4, <2>5, <2>6, <2>7
  <2>. QED
    BY <2>8, <2>9, <2>10 DEF of, on, late
<1>. QED
  BY <1>1, Invariance, PTL

\* The bookings of a day lie between the orders of it that were ever paid and all orders
\* of it: the bounds hold in each category, and add up.
THEOREM BookingsComplete == Spec => []SalesBooked
<1>1. ASSUME AInv
      PROVE  SalesBooked
  <2> SUFFICES ASSUME NEW d \in counted
               PROVE  Summary(GetStats(d, d))["bookings"]
                        \in Cardinality(PaidOn(d)) .. Cardinality(PlacedOn(d))
    BY DEF SalesBooked, PaidOn, PlacedOn
  <2> DEFINE of == Summary(GetStats(d, d))["bookings"]
             key == [o \in Placed |-> orders[o].cat]
  <2>1. TypeOK /\ TablesFinite
    BY <1>1 DEF AInv
  <2>2. PICK C \in SUBSET Categories : \E rows : DayRows(d, C, rows) /\ Accounts(rows, d)
    BY <1>1 DEF AInv, StatsSound, DayRows
  <2>3. PICK rows : DayRows(d, C, rows) /\ Accounts(rows, d)
    BY <2>2
  <2> DEFINE booked == [c \in C |-> rows[c]["bookings"]]
             placed == {o \in PlacedOn(d) : key[o] \in C}
             paidIn == [c \in C |-> Cardinality({o \in PaidOn(d) : key[o] = c})]
             placedIn == [c \in C |-> Cardinality({o \in placed : key[o] = c})]
  <2>4. /\ IsFiniteSet(C) /\ of = Sum(booked, C)
        /\ \A c \in C : booked[c] \in Nat
    <3>1. "bookings" \in Columns
      BY DEF Columns
    <3>. QED
      BY <2>1, <2>3, <3>1, DaySum
  <2>5. /\ PlacedOn(d) \subseteq Placed /\ PaidOn(d) \subseteq PlacedOn(d)
        /\ placed \subseteq PlacedOn(d)
        /\ IsFiniteSet(PlacedOn(d)) /\ IsFiniteSet(PaidOn(d)) /\ IsFiniteSet(placed)
        /\ Cardinality(placed) <= Cardinality(PlacedOn(d))
        /\ Cardinality(PlacedOn(d)) \in Nat /\ Cardinality(PaidOn(d)) \in Nat
        /\ Cardinality(placed) \in Nat
    <3>1. /\ PlacedOn(d) \subseteq Placed /\ PaidOn(d) \subseteq PlacedOn(d)
          /\ placed \subseteq PlacedOn(d) /\ Placed \subseteq Orders
      BY DEF PlacedOn, PaidOn, Placed
    <3> HIDE DEF placed
    <3>2. IsFiniteSet(PlacedOn(d))
      BY <3>1, AnalyticsAssumption, FS_Subset
    <3>. QED
      BY <3>1, <3>2, FS_Subset, FS_CardinalityType
  <2>6. DOMAIN rows = C /\ \A c \in C : Counts(rows[c], c, d)
    BY <2>3 DEF DayRows, Accounts
  <2>7. \A o \in PaidOn(d) : key[o] \in C
    BY <2>3, <2>5, <2>6 DEF Accounts
  <2>8. ASSUME NEW c \in C
        PROVE  /\ paidIn[c] \in Int /\ placedIn[c] \in Int /\ booked[c] \in Int
               /\ paidIn[c] <= booked[c] /\ booked[c] <= placedIn[c]
    <3>1. /\ {o \in PaidOn(d) : key[o] = c} = {o \in PaidOn(d) : orders[o].cat = c}
          /\ {o \in placed : key[o] = c} = {o \in PlacedOn(d) : orders[o].cat = c}
      BY <2>5
    <3>2. /\ Cardinality({o \in PaidOn(d) : orders[o].cat = c}) <= rows[c].bookings
          /\ rows[c].bookings <= Cardinality({o \in PlacedOn(d) : orders[o].cat = c})
      BY <2>6 DEF Counts
    <3> DEFINE P == {o \in PaidOn(d) : key[o] = c}
               Q == {o \in placed : key[o] = c}
    <3>3. paidIn[c] = Cardinality(P) /\ placedIn[c] = Cardinality(Q) /\ booked[c] = rows[c].bookings
      OBVIOUS
    <3>4. Cardinality(P) <= rows[c].bookings /\ rows[c].bookings <= Cardinality(Q)
      BY <3>1, <3>2, Zenon
    <3>5. P \subseteq PaidOn(d) /\ Q \subseteq placed
      OBVIOUS
    <3> HIDE DEF P, Q, placed, paidIn, placedIn, booked
    <3>6. Cardinality(P) \in Nat /\ Cardinality(Q) \in Nat
      BY <2>5, <3>5, FS_Subset, FS_CardinalityType
    <3>. QED
      BY <2>4, <3>3, <3>4, <3>6
  <2>9. Sum(paidIn, C) = Cardinality(PaidOn(d))
    <3> HIDE DEF key
    <3>. QED
      BY <2>4, <2>5, <2>7, CountByKey
  <2>10. Sum(placedIn, C) = Cardinality(placed)
    <3>1. \A o \in placed : key[o] \in C
      OBVIOUS
    <3> HIDE DEF key, placed
    <3>. QED
      BY <2>4, <2>5, <3>1, CountByKey
  <2> HIDE DEF paidIn, placedIn, booked, placed, key, of
  <2>11. Sum(paidIn, C) <= Sum(booked, C) /\ Sum(booked, C) <= Sum(placedIn, C)
    BY <2>4, <2>8, SumMonotone
  <2>12. Sum(booked, C) \in Nat
    BY <2>4, SumNat
  <2>. QED
    BY <2>4, <2>5, <2>9, <2>10, <2>11, <2>12 DEF of
<1>. QED
  BY <1>1, Invariance, PTL

-----------------------------------------------------------------------------
(* Weeks and months                                                         *)

\* A day's week begins on a Monday, no more than six days before it.
LEMMA WeekBegins ==
  ASSUME NEW d \in Nat
  PROVE  LET monday == PeriodKey(d, "week") IN
           monday \in Int /\ monday <= d /\ d <= monday + 6 /\ monday % 7 = 1
<1>1. (d % 7) \in 0 .. 6 /\ d = 7 * (d \div 7) + (d % 7) /\ (d \div 7) \in Int
  OBVIOUS
<1> DEFINE q == d \div 7
           r == d % 7
<1>2. q \in Int /\ r \in 0 .. 6 /\ d = 7 * q + r
  BY <1>1
<1>3. PeriodKey(d, "week") = IF r = 0 THEN d - 6 ELSE d - (r - 1)
  BY <1>2 DEF PeriodKey, Weekday
<1> HIDE DEF q, r
<1>4. \A n \in Int : (7 * n + 1) % 7 = 1
  OBVIOUS
<1>5. PeriodKey(d, "week") = 7 * (IF r = 0 THEN q - 1 ELSE q) + 1
  BY <1>2, <1>3
<1>6. PeriodKey(d, "week") % 7 = 1
  BY <1>2, <1>4, <1>5
<1>. QED
  BY <1>2, <1>3, <1>6

\* A day's month begins no later than the day.
LEMMA MonthBegins ==
  ASSUME NEW d \in Nat, 1 <= d
  PROVE  LET first == PeriodKey(d, "month") IN
           /\ first \in Int /\ first <= d /\ first \in {1, NewMonth}
           /\ d >= NewMonth <=> first = NewMonth
<1>1. NewMonth \in Int /\ 2 <= NewMonth
  BY AnalyticsAssumption
<1>. QED
  BY <1>1 DEF PeriodKey

\* Weeks and months neither lose nor double a row, whatever range of days is asked for:
\* a sum by keys (SumByKey) over groups that are numbered one to one (SumReindexed).
THEOREM PeriodsComplete == Spec => []PeriodsAddUp
<1>1. ASSUME AInv
      PROVE  PeriodsAddUp
  <2> SUFFICES ASSUME NEW start \in Days, NEW end \in Days, NEW interval \in {"week", "month"}
               PROVE  LET rows == GetStats(start, end)
                          groups == GroupStats(rows, interval)
                          total == Summary(rows)
                      IN  /\ \A col \in Grouped :
                               MapThenSumSet(LAMBDA g : g.sums[col], groups) = total[col]
                          /\ \A r \in rows : \E g \in groups :
                               /\ g.date <= r.date
                               /\ interval = "week" => g.date % 7 = 1 /\ r.date <= g.date + 6
                               /\ interval = "month" =>
                                    g.date \in {1, NewMonth} /\ (r.date >= NewMonth <=> g.date = NewMonth)
                               /\ \A col \in Grouped : r[col] <= g.sums[col]
    BY DEF PeriodsAddUp
  <2> DEFINE rows == GetStats(start, end)
             key == [r \in rows |-> PeriodKey(r.date, interval)]
             Keys == {key[r] : r \in rows}
             In(k) == {r \in rows : PeriodKey(r.date, interval) = k}
             sums(k) == [col \in Columns |-> IF col \in Grouped THEN SumOf(In(k), col) ELSE 0]
             group == [k \in Keys |-> [date |-> k, sums |-> sums(k)]]
             groups == {group[k] : k \in Keys}
  <2>1. IsFiniteSet(rows) /\ rows \subseteq stats
    <3>1. rows \subseteq stats
      BY DEF GetStats
    <3>. QED
      BY <1>1, <3>1, FS_Subset DEF AInv, TablesFinite
  <2>2. \A r \in rows : r.date \in Nat /\ 1 <= r.date /\ \A col \in Columns : r[col] \in Nat
    <3>1. \A r \in rows : r \in Stat
      BY <1>1, <2>1 DEF AInv, TypeOK
    <3>2. \A d \in Days : d \in Nat /\ 1 <= d
      BY AnalyticsAssumption DEF Days
    <3>3. \A r \in Stat : /\ r["bookings"] \in Nat /\ r["completed"] \in Nat
                          /\ r["cancelled"] \in Nat /\ r["expired"] \in Nat
                          /\ r.date \in Days
      BY DEF Stat
    <3>. QED
      BY <3>1, <3>2, <3>3 DEF Columns
  <2> HIDE DEF rows
  <2>3. IsFiniteSet(Keys)
    <3> HIDE DEF key
    <3>. QED
      BY <2>1, ImageFinite
  <2>4. GroupStats(rows, interval) = groups
    <3>1. Keys = {PeriodKey(r.date, interval) : r \in rows}
      OBVIOUS
    <3>2. GroupStats(rows, interval) =
            {[date |-> k, sums |-> sums(k)] : k \in {PeriodKey(r.date, interval) : r \in rows}}
      BY Zenon DEF GroupStats
    <3> HIDE DEF Keys, sums
    <3>3. groups = {[date |-> k, sums |-> sums(k)] : k \in Keys}
      OBVIOUS
    <3>. QED
      BY <3>1, <3>2, <3>3
  <2>5. Grouped \subseteq Columns
    BY DEF Grouped, Columns
  <2>6. ASSUME NEW k \in Keys
        PROVE  IsFiniteSet(In(k)) /\ In(k) \subseteq rows
    BY <2>1, FS_Subset
  <2>7. ASSUME NEW col \in Grouped, NEW k \in Keys
        PROVE  group[k].sums[col] = Sum([r \in In(k) |-> r[col]], In(k))
    <3>1. group[k].sums[col] = SumOf(In(k), col)
      BY <2>5
    <3> HIDE DEF In
    <3>. QED
      BY <2>6, <3>1, SumOfIsSum
  <2>8. ASSUME NEW col \in Grouped
        PROVE  MapThenSumSet(LAMBDA g : g.sums[col], groups) = Summary(rows)[col]
    <3> DEFINE w == [r \in rows |-> r[col]]
               v == [g \in groups |-> g.sums[col]]
               u == [k \in Keys |-> Sum(w, {r \in rows : key[r] = k})]
    <3>1. \A r \in rows : key[r] \in Keys /\ w[r] \in Int
      BY <2>2, <2>5
    <3>2. Sum(w, rows) = Sum(u, Keys)
      <4> HIDE DEF key, w, Keys
      <4>. QED
        BY <2>1, <2>3, <3>1, SumByKey
    <3>3. ASSUME NEW k \in Keys
          PROVE  v[group[k]] = u[k] /\ u[k] \in Int
      <4>1. In(k) = {r \in rows : key[r] = k}
        OBVIOUS
      <4>2. u[k] = Sum(w, In(k))
        BY <4>1
      <4>3. v[group[k]] = Sum([r \in In(k) |-> r[col]], In(k))
        <5>1. v[group[k]] = group[k].sums[col]
          OBVIOUS
        <5>. QED
          BY <2>7, <5>1
      <4>4. \A r \in In(k) : [q \in In(k) |-> q[col]][r] = w[r] /\ w[r] \in Int
        BY <2>6, <3>1
      <4> DEFINE x == [q \in In(k) |-> q[col]]
      <4>5. \A r \in In(k) : x[r] = w[r] /\ w[r] \in Int
        BY <4>4
      <4> HIDE DEF In, w, x, v, u
      <4>6. Sum(x, In(k)) = Sum(w, In(k)) /\ Sum(w, In(k)) \in Int
        BY <2>6, <4>5, SumSame, SumInt
      <4>. QED
        BY <4>2, <4>3, <4>6 DEF x
    <3>4. \A k, l \in Keys : group[k] = group[l] => k = l
      OBVIOUS
    <3>5. [k \in Keys |-> v[group[k]]] = u
      BY <3>3
    <3>6. \A k \in Keys : v[group[k]] \in Int
      BY <3>3
    <3> HIDE DEF v, u, w, group, Keys
    <3>7. IsFiniteSet({group[k] : k \in Keys})
          /\ Sum(v, {group[k] : k \in Keys}) = Sum([k \in Keys |-> v[group[k]]], Keys)
      BY <2>3, <3>4, <3>6, SumReindexed
    <3>8. Sum(v, groups) = Sum(w, rows)
      BY <3>2, <3>5, <3>7
    <3>9. MapThenSumSet(LAMBDA g : g.sums[col], groups) = Sum([g \in groups |-> g.sums[col]], groups)
      <4> HIDE DEF groups
      <4>1. IsFiniteSet(groups)
        BY <3>7 DEF groups
      <4>. QED
        BY <4>1, GroupSumIsSum
    <3>10. Summary(rows)[col] = Sum([r \in rows |-> r[col]], rows)
      BY <2>1, <2>5, SumOfIsSum DEF Summary
    <3>. QED
      BY <3>8, <3>9, <3>10 DEF v, w
  <2>9. ASSUME NEW r \in rows
        PROVE  \E g \in groups :
                 /\ g.date <= r.date
                 /\ interval = "week" => g.date % 7 = 1 /\ r.date <= g.date + 6
                 /\ interval = "month" =>
                      g.date \in {1, NewMonth} /\ (r.date >= NewMonth <=> g.date = NewMonth)
                 /\ \A col \in Grouped : r[col] <= g.sums[col]
    <3> DEFINE k == key[r]
               g == group[k]
    <3>1. k \in Keys /\ g \in groups /\ g.date = k /\ k = PeriodKey(r.date, interval) /\ r \in In(k)
      OBVIOUS
    <3>2. r.date \in Nat /\ 1 <= r.date
      BY <2>2
    <3>3. ASSUME NEW col \in Grouped
          PROVE  r[col] <= g.sums[col]
      <4> DEFINE w == [q \in In(k) |-> q[col]]
      <4>1. \A q \in In(k) : w[q] \in Nat
        BY <2>2, <2>5, <2>6, <3>1
      <4>2. g.sums[col] = Sum(w, In(k)) /\ w[r] = r[col]
        BY <2>7, <3>1
      <4> HIDE DEF w, In, g, k
      <4>. QED
        BY <2>6, <3>1, <4>1, <4>2, SumNat
    <3>4. interval = "week" => k <= r.date /\ k % 7 = 1 /\ r.date <= k + 6
      BY <3>1, <3>2, WeekBegins
    <3>5. interval = "month" => k <= r.date /\ k \in {1, NewMonth} /\ (r.date >= NewMonth <=> k = NewMonth)
      BY <3>1, <3>2, MonthBegins
    <3> HIDE DEF g, k, groups
    <3>. QED
      BY <3>1, <3>3, <3>4, <3>5
  <2> HIDE DEF groups
  <2>10. \A col \in Grouped : MapThenSumSet(LAMBDA g : g.sums[col], groups) = Summary(rows)[col]
    BY <2>8
  <2>. QED
    BY <2>4, <2>9, <2>10 DEF rows
<1>. QED
  BY <1>1, Invariance, PTL
=============================================================================
