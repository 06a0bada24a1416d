------------------------------ MODULE FiniteSums ------------------------------
(***************************************************************************)
(* Lemmas the proofs about figures, samples, scores and traces share: what     *)
(* stands in for an induction, over the naturals and over the subsets of a      *)
(* finite set, and the sums that FoldFunction adds up one member after          *)
(* another, in the order CHOOSE takes them.                                    *)
(***************************************************************************)
EXTENDS Integers, FiniteSets, Functions, FiniteSetTheorems, NaturalsInduction, TLAPS

(* The least of a set of naturals: what stands in for an induction.           *)
LEMMA LeastNatural ==
  ASSUME NEW S \in SUBSET Nat, S # {}
  PROVE  \E n \in S : \A m \in S : n <= m
<1> DEFINE less == {ss \in Nat \X Nat : ss[1] < ss[2]}
<1>1. IsWellFoundedOn(less, Nat)
  BY NatLessThanWellFounded DEF OpToRel
<1>2. \A m, n \in Nat : <<m, n>> \in less <=> m < n
  OBVIOUS
<1> HIDE DEF less
<1>3. PICK n \in S : \A m \in S : ~(<<m, n>> \in less)
  BY <1>1, WFMin
<1>4. ASSUME NEW m \in S
      PROVE  n <= m
  <2>1. m \in Nat /\ n \in Nat
    OBVIOUS
  <2>2. ~(m < n)
    BY <1>2, <1>3, <2>1
  <2> QED
    BY <2>1, <2>2
<1> QED
  BY <1>4


-----------------------------------------------------------------------------
(* Of some subsets of a finite set, one has none below it that lacks a single  *)
(* member: what stands in for an induction over finite sets.                  *)
LEMMA LeastSubset ==
  ASSUME NEW S, IsFiniteSet(S), NEW bad \in SUBSET (SUBSET S), bad # {}
  PROVE  \E s \in bad : \A y \in s : s \ {y} \notin bad
<1> DEFINE sizes == {Cardinality(s) : s \in bad}
<1>1. \A s \in SUBSET S : IsFiniteSet(s) /\ Cardinality(s) \in Nat
  BY FS_Subset, FS_CardinalityType
<1>2. sizes \in SUBSET Nat /\ sizes # {}
  BY <1>1
<1>3. PICK n \in sizes : \A m \in sizes : n <= m
  <2> HIDE DEF sizes
  <2> QED
    BY <1>2, LeastNatural
<1>4. PICK s \in bad : n = Cardinality(s)
  BY <1>3
<1>5. ASSUME NEW y \in s, s \ {y} \in bad
      PROVE  FALSE
  <2>1. Cardinality(s \ {y}) = Cardinality(s) - 1
    BY <1>1, FS_RemoveElement
  <2>2. n <= Cardinality(s \ {y})
    BY <1>3, <1>5
  <2> QED
    BY <1>1, <1>4, <2>1, <2>2
<1> QED
  BY <1>5

-----------------------------------------------------------------------------
(* The total of some values: what is added, one after another, in the order    *)
(* CHOOSE picks them.                                                         *)
AddsInTurn(it, f, S) ==
  it = [s \in SUBSET S |-> IF s = {} THEN 0 ELSE LET x == CHOOSE x \in s : TRUE
                                                 IN  f[x] + it[s \ {x}]]
Small(S, n) == {s \in SUBSET S : Cardinality(s) <= n}
AddsSmall(it, f, S, n) ==
  \A s \in Small(S, n) :
    it[s] = IF s = {} THEN 0 ELSE f[CHOOSE x \in s : TRUE] + it[s \ {CHOOSE x \in s : TRUE}]

LEMMA SmallTotalsExist ==
  ASSUME NEW S, IsFiniteSet(S), NEW f \in [S -> Int], NEW n \in Nat
  PROVE  \E it \in [Small(S, n) -> Int] : AddsSmall(it, f, S, n)
<1> DEFINE Made(m) == \E it \in [Small(S, m) -> Int] : AddsSmall(it, f, S, m)
           without == {m \in Nat : ~Made(m)}
           first(s) == CHOOSE x \in s : TRUE
<1>1. SUFFICES ASSUME without # {} PROVE FALSE
  OBVIOUS
<1>2. PICK m \in without : \A k \in without : m <= k
  <2>1. without \in SUBSET Nat
    OBVIOUS
  <2> HIDE DEF without
  <2> QED
    BY <1>1, <2>1, LeastNatural
<1>3. \A s \in SUBSET S : IsFiniteSet(s) /\ Cardinality(s) \in Nat
                          /\ (Cardinality(s) = 0 <=> s = {})
  BY FS_Subset, FS_CardinalityType, FS_EmptySet
<1>4. CASE m = 0
  <2> DEFINE it == [s \in Small(S, 0) |-> 0]
  <2>1. \A s \in Small(S, 0) : s = {}
    BY <1>3 DEF Small
  <2>2. it \in [Small(S, 0) -> Int] /\ \A s \in Small(S, 0) : it[s] = 0
    OBVIOUS
  <2> HIDE DEF it
  <2>3. AddsSmall(it, f, S, 0)
    BY <2>1, <2>2 DEF AddsSmall
  <2> QED
    BY <1>2, <1>4, <2>2, <2>3
<1>5. CASE m # 0
  <2>1. m \in Nat /\ m - 1 \in Nat /\ ~(m <= m - 1)
    BY <1>2, <1>5
  <2>2. PICK h \in [Small(S, m - 1) -> Int] : AddsSmall(h, f, S, m - 1)
    BY <1>2, <2>1
  <2>3. \A s \in Small(S, m) : s # {} =>
          /\ first(s) \in s /\ first(s) \in S
          /\ s \ {first(s)} \in Small(S, m - 1) /\ s \ {first(s)} \in Small(S, m)
    <3> SUFFICES ASSUME NEW s \in Small(S, m), s # {}
                 PROVE  /\ first(s) \in s /\ first(s) \in S
                        /\ s \ {first(s)} \in Small(S, m - 1) /\ s \ {first(s)} \in Small(S, m)
      OBVIOUS
    <3>1. PICK x \in s : x = first(s)
      OBVIOUS
    <3>2. s \in SUBSET S /\ Cardinality(s) <= m
      BY DEF Small
    <3>3. Cardinality(s \ {x}) = Cardinality(s) - 1 /\ Cardinality(s) \in Nat
      BY <1>3, <3>2, FS_RemoveElement
    <3>4. s \ {x} \in SUBSET S /\ Cardinality(s \ {x}) <= m - 1 /\ Cardinality(s \ {x}) <= m
      BY <2>1, <3>2, <3>3
    <3> QED
      BY <3>1, <3>2, <3>4 DEF Small
  <2> DEFINE next(s) == f[first(s)] + h[s \ {first(s)}]
             it == [s \in Small(S, m) |-> IF s \in Small(S, m - 1) THEN h[s] ELSE next(s)]
  <2>4. \A s \in Small(S, m) : s # {} => next(s) \in Int
    BY <2>3
  <2>5. {} \in Small(S, m - 1)
    BY <1>3, <2>1, FS_EmptySet DEF Small
  <2>6. it \in [Small(S, m) -> Int]
    BY <2>4, <2>5
  <2>7. \A s \in Small(S, m - 1) : s \in Small(S, m) /\ it[s] = h[s]
    <3>1. \A s \in Small(S, m - 1) : s \in Small(S, m)
      BY <1>3, <2>1 DEF Small
    <3> QED
      BY <3>1
  <2>8. ASSUME NEW s \in Small(S, m)
        PROVE  it[s] = IF s = {} THEN 0 ELSE f[first(s)] + it[s \ {first(s)}]
    <3>1. CASE s \in Small(S, m - 1)
      <4>1. h[s] = IF s = {} THEN 0 ELSE f[first(s)] + h[s \ {first(s)}]
        BY <2>2, <3>1 DEF AddsSmall
      <4>2. s # {} => s \ {first(s)} \in Small(S, m - 1)
        BY <2>3
      <4> HIDE DEF it, first
      <4> QED
        BY <2>7, <3>1, <4>1, <4>2
    <3>2. CASE s \notin Small(S, m - 1)
      <4>1. it[s] = f[first(s)] + h[s \ {first(s)}]
        BY <3>2
      <4>2. s # {} /\ s \ {first(s)} \in Small(S, m - 1)
        BY <2>3, <2>5, <3>2
      <4> HIDE DEF it, first
      <4> QED
        BY <2>7, <4>1, <4>2
    <3> QED
      BY <3>1, <3>2
  <2> HIDE DEF it
  <2>9. AddsSmall(it, f, S, m)
    BY <2>8 DEF AddsSmall
  <2> QED
    BY <1>2, <2>6, <2>9
<1> QED
  BY <1>4, <1>5

(* The totals of the subsets of the places of f, whichever place is taken      *)
(* first.                                                                     *)
AddsUp(it, f, S) ==
  /\ it \in [SUBSET S -> Int] /\ it[{}] = 0
  /\ \A s \in SUBSET S : \A y \in s : it[s] = f[y] + it[s \ {y}]

LEMMA TurnsDoNotMatter ==
  ASSUME NEW S, IsFiniteSet(S), NEW f \in [S -> Int], NEW it \in [SUBSET S -> Int],
         \A s \in SUBSET S : it[s] = IF s = {} THEN 0 ELSE f[CHOOSE x \in s : TRUE]
                                                            + it[s \ {CHOOSE x \in s : TRUE}]
  PROVE  AddsUp(it, f, S)
<1> DEFINE bad == {s \in SUBSET S : \E y \in s : it[s] # f[y] + it[s \ {y}]}
<1>1. it[{}] = 0
  OBVIOUS
<1>2. bad = {}
  <2> SUFFICES ASSUME bad # {} PROVE FALSE
    OBVIOUS
  <2>1. bad \in SUBSET (SUBSET S)
    OBVIOUS
  <2>2. PICK s \in bad : \A y \in s : s \ {y} \notin bad
    <3> HIDE DEF bad
    <3> QED
      BY <2>1, LeastSubset
  <2>3. PICK y \in s : it[s] # f[y] + it[s \ {y}]
    BY <2>2
  <2>4. PICK x \in s : it[s] = f[x] + it[s \ {x}]
    <3>1. PICK x : x = CHOOSE z \in s : TRUE
      OBVIOUS
    <3>2. x \in s
      BY <2>3, <3>1
    <3>3. s \in SUBSET S /\ s # {}
      BY <2>2, <2>3
    <3>4. it[s] = f[x] + it[s \ {x}]
      BY <3>1, <3>3
    <3> QED
      BY <3>2, <3>4
  <2>5. x # y /\ s \in SUBSET S
    BY <2>2, <2>3, <2>4
  <2>6. s \ {x} \notin bad /\ s \ {y} \notin bad
    BY <2>2
  <2>7. it[s \ {x}] = f[y] + it[(s \ {x}) \ {y}]
    BY <2>5, <2>6
  <2>8. it[s \ {y}] = f[x] + it[(s \ {y}) \ {x}]
    BY <2>5, <2>6
  <2>9. (s \ {x}) \ {y} = (s \ {y}) \ {x}
    OBVIOUS
  <2>10. PICK a \in Int : a = f[x]
    BY <2>5
  <2>11. PICK b \in Int : b = f[y]
    BY <2>5
  <2>12. PICK c \in Int : c = it[(s \ {x}) \ {y}]
    BY <2>5
  <2>13. it[s \ {x}] = b + c /\ it[s \ {y}] = a + c
    BY <2>7, <2>8, <2>9, <2>10, <2>11, <2>12
  <2>14. it[s] = a + (b + c)
    BY <2>4, <2>10, <2>13
  <2>15. it[s] # b + (a + c)
    BY <2>3, <2>11, <2>13
  <2> QED
    BY <2>14, <2>15
<1> QED
  BY <1>1, <1>2 DEF AddsUp

(* A sum: FoldFunction's recursive function over the subsets of the places is   *)
(* one, and there is such a function.                                         *)
SumIs(total, f, S) == \E it : AddsUp(it, f, S) /\ total = it[S]

LEMMA SumInTurn ==
  ASSUME NEW S, IsFiniteSet(S), NEW f \in [S -> Int]
  PROVE  SumIs((CHOOSE it : AddsInTurn(it, f, S))[S], f, S)
<1> DEFINE n == Cardinality(S)
           iter == CHOOSE it : AddsInTurn(it, f, S)
<1>1. n \in Nat /\ Small(S, n) = SUBSET S
  <2>1. \A s \in SUBSET S : Cardinality(s) <= n
    BY FS_Subset
  <2> QED
    BY <2>1, FS_CardinalityType DEF Small
<1>2. PICK made \in [Small(S, n) -> Int] : AddsSmall(made, f, S, n)
  BY <1>1, SmallTotalsExist
<1>3. AddsInTurn(made, f, S)
  <2>1. made = [s \in SUBSET S |-> made[s]]
    BY <1>1, <1>2
  <2>2. \A s \in SUBSET S : made[s] = IF s = {} THEN 0 ELSE f[CHOOSE x \in s : TRUE]
                                                            + made[s \ {CHOOSE x \in s : TRUE}]
    BY <1>1, <1>2 DEF AddsSmall
  <2> HIDE DEF n
  <2> QED
    BY <2>1, <2>2 DEF AddsInTurn
<1>4. AddsInTurn(iter, f, S)
  BY <1>3
<1> HIDE DEF iter
<1>5. DOMAIN iter = SUBSET S
      /\ \A s \in SUBSET S : iter[s] = IF s = {} THEN 0 ELSE f[CHOOSE x \in s : TRUE]
                                                            + iter[s \ {CHOOSE x \in s : TRUE}]
  BY <1>4 DEF AddsInTurn
<1>6. iter \in [SUBSET S -> Int]
  <2> DEFINE bad == {s \in SUBSET S : iter[s] \notin Int}
  <2>1. bad = {}
    <3> SUFFICES ASSUME bad # {} PROVE FALSE
      OBVIOUS
    <3>1. bad \in SUBSET (SUBSET S)
      OBVIOUS
    <3>2. PICK s \in bad : \A y \in s : s \ {y} \notin bad
      <4> HIDE DEF bad
      <4> QED
        BY <3>1, LeastSubset
    <3>3. s # {}
      BY <1>5, <3>2
    <3>4. PICK x \in s : iter[s] = f[x] + iter[s \ {x}]
      BY <1>5, <3>2, <3>3
    <3>5. iter[s \ {x}] \in Int /\ f[x] \in Int
      BY <3>2
    <3> QED
      BY <3>2, <3>4, <3>5
  <2>2. iter = [s \in SUBSET S |-> iter[s]]
    BY <1>4 DEF AddsInTurn
  <2> QED
    BY <2>1, <2>2
<1>7. AddsUp(iter, f, S)
  BY <1>5, <1>6, TurnsDoNotMatter
<1> QED
  BY <1>7 DEF SumIs, iter

(* Sums of the same values in another order are the same.                   *)
LEMMA OrderOfSums ==
  ASSUME NEW S, IsFiniteSet(S), NEW f \in [S -> Int], NEW p \in [S -> S], IsInjective(p),
         NEW g \in [S -> Int], \A k \in S : g[k] = f[p[k]],
         NEW u, SumIs(u, f, S), NEW v, SumIs(v, g, S)
  PROVE  v = u
<1> DEFINE image(s) == {p[k] : k \in s}
<1>1. \A k \in S : g[k] = f[p[k]]
  OBVIOUS
<1>2. PICK a : AddsUp(a, f, S) /\ u = a[S]
  BY DEF SumIs
<1>3. PICK b : AddsUp(b, g, S) /\ v = b[S]
  BY DEF SumIs
<1> DEFINE bad == {s \in SUBSET S : b[s] # a[image(s)]}
<1>4. bad = {}
  <2> SUFFICES ASSUME bad # {} PROVE FALSE
    OBVIOUS
  <2>1. bad \in SUBSET (SUBSET S)
    OBVIOUS
  <2>2. PICK s \in bad : \A y \in s : s \ {y} \notin bad
    <3> HIDE DEF bad
    <3> QED
      BY <2>1, LeastSubset
  <2>3. s # {}
    <3>1. image({}) = {}
      OBVIOUS
    <3> QED
      BY <1>2, <1>3, <2>2, <3>1 DEF AddsUp
  <2>4. PICK y \in s : TRUE
    BY <2>3
  <2>5. s \in SUBSET S /\ y \in S /\ p[y] \in image(s) /\ image(s) \in SUBSET S
    BY <2>2
  <2>6. image(s \ {y}) = image(s) \ {p[y]}
    <3>1. ASSUME NEW k \in s, p[k] = p[y]
          PROVE  k = y
      BY <2>5, <3>1 DEF IsInjective
    <3> QED
      BY <2>5, <3>1
  <2>7. b[s] = g[y] + b[s \ {y}]
    BY <1>3, <2>4, <2>5 DEF AddsUp
  <2>8. a[image(s)] = f[p[y]] + a[image(s) \ {p[y]}]
    BY <1>2, <2>5 DEF AddsUp
  <2>9. b[s \ {y}] = a[image(s \ {y})]
    BY <2>2, <2>4, <2>5
  <2>10. g[y] = f[p[y]]
    BY <1>1, <2>5
  <2> QED
    BY <2>2, <2>6, <2>7, <2>8, <2>9, <2>10
<1>5. image(S) = S
  <2>1. p \in Injection(S, S)
    BY DEF Injection
  <2>2. p \in Surjection(S, S)
    BY <2>1, FS_Injection
  <2> QED
    BY <2>2 DEF Surjection
<1>6. b[S] = a[S]
  BY <1>4, <1>5
<1> QED
  BY <1>2, <1>3, <1>6

(* A sum lies between as many of the least and as many of the greatest.      *)
LEMMA SumIsBounded ==
  ASSUME NEW S, IsFiniteSet(S), NEW f \in [S -> Int], NEW total, SumIs(total, f, S)
  PROVE  /\ total \in Int
         /\ \A low \in Int : (\A k \in S : low <= f[k]) => low * Cardinality(S) <= total
         /\ \A high \in Int : (\A k \in S : f[k] <= high) => total <= high * Cardinality(S)
<1>1. PICK it : AddsUp(it, f, S) /\ total = it[S]
  BY DEF SumIs
<1>2. \A s \in SUBSET S : IsFiniteSet(s) /\ Cardinality(s) \in Nat
  BY FS_Subset, FS_CardinalityType
<1>3. ASSUME NEW s \in SUBSET S, NEW y \in s
      PROVE  /\ Cardinality(s) = Cardinality(s \ {y}) + 1 /\ Cardinality(s \ {y}) \in Nat
             /\ it[s] = f[y] + it[s \ {y}] /\ it[s \ {y}] \in Int /\ it[s] \in Int
             /\ f[y] \in Int
  <2>1. Cardinality(s \ {y}) = Cardinality(s) - 1
    BY <1>2, FS_RemoveElement
  <2>2. s \ {y} \in SUBSET S /\ f[y] \in Int
    OBVIOUS
  <2>3. it[s] = f[y] + it[s \ {y}] /\ it[s \ {y}] \in Int /\ it[s] \in Int
    BY <1>1, <2>2 DEF AddsUp
  <2>4. PICK c \in Nat : c = Cardinality(s)
    BY <1>2
  <2>5. PICK d \in Nat : d = Cardinality(s \ {y})
    BY <1>2, <2>2
  <2> QED
    BY <2>1, <2>2, <2>3, <2>4, <2>5
<1>4. it[{}] = 0 /\ Cardinality({}) = 0
  BY <1>1, FS_EmptySet DEF AddsUp
<1>5. ASSUME NEW low \in Int, \A k \in S : low <= f[k]
      PROVE  low * Cardinality(S) <= it[S]
  <2> DEFINE bad == {s \in SUBSET S : ~(low * Cardinality(s) <= it[s])}
  <2> SUFFICES ASSUME bad # {} PROVE FALSE
    OBVIOUS
  <2>1. bad \in SUBSET (SUBSET S)
    OBVIOUS
  <2>2. PICK s \in bad : \A y \in s : s \ {y} \notin bad
    <3> HIDE DEF bad
    <3> QED
      BY <2>1, LeastSubset
  <2>3. s # {}
    <3>1. low * 0 = 0
      OBVIOUS
    <3>2. low * Cardinality({}) <= it[{}]
      BY <1>4, <3>1
    <3> QED
      BY <2>2, <3>2
  <2>4. PICK y \in s : TRUE
    BY <2>3
  <2>5. s \in SUBSET S /\ s \ {y} \in SUBSET S /\ y \in S
    BY <2>2
  <2>6. PICK c \in Nat : c = Cardinality(s \ {y}) /\ Cardinality(s) = c + 1
    BY <1>3, <2>5
  <2>7. PICK v \in Int : v = f[y] /\ low <= v
    BY <1>5, <2>5
  <2>8. PICK t \in Int : t = it[s \ {y}] /\ it[s] = v + t
    BY <1>3, <2>4, <2>5, <2>7
  <2>9. low * c <= t
    BY <2>2, <2>4, <2>5, <2>6, <2>8
  <2>10. low * (c + 1) = low * c + low
    OBVIOUS
  <2>11. low * (c + 1) <= v + t
    BY <2>7, <2>9, <2>10
  <2> QED
    BY <2>2, <2>6, <2>8, <2>11
<1>6. ASSUME NEW high \in Int, \A k \in S : f[k] <= high
      PROVE  it[S] <= high * Cardinality(S)
  <2> DEFINE bad == {s \in SUBSET S : ~(it[s] <= high * Cardinality(s))}
  <2> SUFFICES ASSUME bad # {} PROVE FALSE
    OBVIOUS
  <2>1. bad \in SUBSET (SUBSET S)
    OBVIOUS
  <2>2. PICK s \in bad : \A y \in s : s \ {y} \notin bad
    <3> HIDE DEF bad
    <3> QED
      BY <2>1, LeastSubset
  <2>3. s # {}
    <3>1. high * 0 = 0
      OBVIOUS
    <3>2. it[{}] <= high * Cardinality({})
      BY <1>4, <3>1
    <3> QED
      BY <2>2, <3>2
  <2>4. PICK y \in s : TRUE
    BY <2>3
  <2>5. s \in SUBSET S /\ s \ {y} \in SUBSET S /\ y \in S
    BY <2>2
  <2>6. PICK c \in Nat : c = Cardinality(s \ {y}) /\ Cardinality(s) = c + 1
    BY <1>3, <2>5
  <2>7. PICK v \in Int : v = f[y] /\ v <= high
    BY <1>6, <2>5
  <2>8. PICK t \in Int : t = it[s \ {y}] /\ it[s] = v + t
    BY <1>3, <2>4, <2>5, <2>7
  <2>9. t <= high * c
    BY <2>2, <2>4, <2>5, <2>6, <2>8
  <2>10. high * (c + 1) = high * c + high
    OBVIOUS
  <2>11. v + t <= high * (c + 1)
    BY <2>7, <2>9, <2>10
  <2> QED
    BY <2>2, <2>6, <2>8, <2>11
<1>7. it[S] \in Int
  BY <1>1 DEF AddsUp
<1> QED
  BY <1>1, <1>5, <1>6, <1>7

(* Sums of sums, and of nothing but zeros.                                    *)
LEMMA SumsOfSums ==
  ASSUME NEW S, IsFiniteSet(S), NEW f \in [S -> Int], NEW g \in [S -> Int],
         NEW h \in [S -> Int], \A k \in S : h[k] = f[k] + g[k],
         NEW u, SumIs(u, f, S), NEW v, SumIs(v, g, S), NEW w, SumIs(w, h, S)
  PROVE  w = u + v
<1>1. PICK a : AddsUp(a, f, S) /\ u = a[S]
  BY DEF SumIs
<1>2. PICK b : AddsUp(b, g, S) /\ v = b[S]
  BY DEF SumIs
<1>3. PICK c : AddsUp(c, h, S) /\ w = c[S]
  BY DEF SumIs
<1> DEFINE bad == {s \in SUBSET S : c[s] # a[s] + b[s]}
<1>4. bad = {}
  <2> SUFFICES ASSUME bad # {} PROVE FALSE
    OBVIOUS
  <2>1. bad \in SUBSET (SUBSET S)
    OBVIOUS
  <2>2. PICK s \in bad : \A y \in s : s \ {y} \notin bad
    <3> HIDE DEF bad
    <3> QED
      BY <2>1, LeastSubset
  <2>3. s # {}
    <3>1. c[{}] = a[{}] + b[{}]
      BY <1>1, <1>2, <1>3 DEF AddsUp
    <3> QED
      BY <2>2, <3>1
  <2>4. PICK y \in s : TRUE
    BY <2>3
  <2>5. s \in SUBSET S /\ s \ {y} \in SUBSET S /\ y \in S
    BY <2>2
  <2>6. PICK i \in Int : i = f[y]
    BY <2>5
  <2>7. PICK j \in Int : j = g[y] /\ h[y] = i + j
    BY <2>5, <2>6
  <2>8. PICK m \in Int : m = a[s \ {y}] /\ a[s] = i + m
    BY <1>1, <2>5, <2>6 DEF AddsUp
  <2>9. PICK n \in Int : n = b[s \ {y}] /\ b[s] = j + n
    BY <1>2, <2>5, <2>7 DEF AddsUp
  <2>10. c[s] = (i + j) + c[s \ {y}]
    BY <1>3, <2>5, <2>7 DEF AddsUp
  <2>11. c[s \ {y}] = m + n
    BY <2>2, <2>4, <2>5, <2>8, <2>9
  <2>12. c[s] = (i + m) + (j + n)
    BY <2>10, <2>11
  <2> QED
    BY <2>2, <2>8, <2>9, <2>12
<1>5. c[S] = a[S] + b[S]
  BY <1>4
<1> QED
  BY <1>1, <1>2, <1>3, <1>5

LEMMA SumOfZeros ==
  ASSUME NEW S, IsFiniteSet(S), NEW f \in [S -> Int], \A k \in S : f[k] = 0,
         NEW total, SumIs(total, f, S)
  PROVE  total = 0
<1>1. Cardinality(S) \in Nat
  BY FS_CardinalityType
<1>2. total \in Int /\ 0 * Cardinality(S) <= total /\ total <= 0 * Cardinality(S)
  BY SumIsBounded
<1> QED
  BY <1>1, <1>2
=============================================================================
