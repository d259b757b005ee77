----------------------------- MODULE BusMatchProofs ----------------------------
(***************************************************************************)
(* What match_bus records, for any number and sizes of buses: only sizes   *)
(* that a complete assignment within the quota pairs, and, if there is one *)
(* such assignment, all the sizes that one of them pairs.                  *)
(***************************************************************************)
EXTENDS BusMatch, SequenceTheorems, Recursion

--------------------------------------------------------------------------------
(* The order of the buses.                                                 *)

\* A sequence of n elements is sorted by inserting its last one where the first
\* smaller one is in the order of the others.
LEMMA Sortable ==
    \A n \in Nat : \A s \in [1..n -> Nat] :
        \E f \in Bijection(1..n, 1..n) : Descending([a \in 1..n |-> s[f[a]]])
<1> DEFINE Sort(n) == \A s \in [1..n -> Nat] :
              \E f \in Bijection(1..n, 1..n) : Descending([a \in 1..n |-> s[f[a]]])
           S == {n \in Nat : Sort(n)}
<1>1. 0 \in S
  <2> SUFFICES ASSUME NEW s \in [1..0 -> Nat]
               PROVE  \E f \in Bijection(1..0, 1..0) : Descending([a \in 1..0 |-> s[f[a]]])
    OBVIOUS
  <2> DEFINE f == [a \in 1..0 |-> a]
  <2>1. f \in Bijection(1..0, 1..0)
    BY DEF Bijection, Injection, Surjection, IsInjective
  <2>2. Descending([a \in 1..0 |-> s[f[a]]])
    BY DEF Descending
  <2>3. QED
    BY <2>1, <2>2
<1>2. ASSUME NEW n \in Nat, Sort(n) PROVE Sort(n + 1)
  <2> SUFFICES ASSUME NEW s \in [1..(n + 1) -> Nat]
               PROVE  \E f \in Bijection(1..(n + 1), 1..(n + 1)) :
                         Descending([a \in 1..(n + 1) |-> s[f[a]]])
    OBVIOUS
  <2>0. \A a \in 1..(n + 1) : s[a] \in Nat
    OBVIOUS
  <2> DEFINE r == [a \in 1..n |-> s[a]]
  <2>1. PICK g \in Bijection(1..n, 1..n) : Descending([a \in 1..n |-> r[g[a]]])
    <3>1. r \in [1..n -> Nat]
      OBVIOUS
    <3>2. QED
      BY <1>2, <3>1
  <2>2. /\ g \in [1..n -> 1..n]
        /\ \A a, b \in 1..n : g[a] = g[b] => a = b
        /\ \A c \in 1..n : \E a \in 1..n : g[a] = c
    BY DEF Bijection, Injection, Surjection, IsInjective
  <2>3. \A a \in 1..n : g[a] \in 1..n /\ g[a] \in 1..(n + 1)
    <3>1. \A a \in 1..n : g[a] \in 1..n
      BY <2>2
    <3>2. 1..n \subseteq 1..(n + 1)
      OBVIOUS
    <3>3. QED
      BY <3>1, <3>2
  <2>4. \A a, b \in 1..n : a < b => s[g[a]] >= s[g[b]]
    <3>1. \A a \in 1..n : [b \in 1..n |-> r[g[b]]][a] = s[g[a]]
      BY <2>2
    <3>2. QED
      BY <2>1, <3>1 DEF Descending
  <2> DEFINE P == {a \in 1..(n + 1) : a = n + 1 \/ s[g[a]] < s[n + 1]}
  <2>5. PICK k \in P : \A a \in P : k <= a
    <3>1. P \in SUBSET Nat /\ n + 1 \in P
      OBVIOUS
    <3> HIDE DEF P
    <3>2. QED
      BY <3>1, NatLeast
  <2>6. /\ k \in 1..(n + 1)
        /\ \A a \in 1..n : a < k => s[g[a]] >= s[n + 1]
        /\ \A a \in 1..n : a >= k => s[g[a]] <= s[n + 1]
    <3>1. k \in 1..(n + 1) /\ (k = n + 1 \/ s[g[k]] < s[n + 1])
      BY <2>5
    <3>2. ASSUME NEW a \in 1..n, a < k PROVE s[g[a]] >= s[n + 1]
      <4>1. a \notin P
        BY <2>5, <3>1, <3>2
      <4>2. a \in 1..(n + 1) /\ g[a] \in 1..(n + 1) /\ n + 1 \in 1..(n + 1)
        BY <2>3
      <4>3. ~(s[g[a]] < s[n + 1])
        BY <4>1, <4>2
      <4>4. s[g[a]] \in Nat /\ s[n + 1] \in Nat
        BY <2>0, <4>2
      <4>5. QED
        BY <4>3, <4>4
    <3>3. ASSUME NEW a \in 1..n, a >= k PROVE s[g[a]] <= s[n + 1]
      <4>1. k \in 1..n /\ s[g[k]] < s[n + 1]
        BY <3>1, <3>3
      <4>2. g[a] \in 1..(n + 1) /\ g[k] \in 1..(n + 1) /\ n + 1 \in 1..(n + 1)
        BY <2>3, <4>1
      <4>3. s[g[a]] \in Nat /\ s[g[k]] \in Nat /\ s[n + 1] \in Nat
        BY <2>0, <4>2
      <4>4. a = k \/ s[g[k]] >= s[g[a]]
        BY <2>4, <3>1, <3>3, <4>1
      <4>5. QED
        BY <4>1, <4>3, <4>4
    <3>4. QED
      BY <3>1, <3>2, <3>3
  <2> HIDE DEF P, r
  <2> DEFINE f == [a \in 1..(n + 1) |-> IF a < k THEN g[a] ELSE IF a = k THEN n + 1 ELSE g[a - 1]]
  <2>7. /\ \A a \in 1..(n + 1) : a < k => a \in 1..n /\ f[a] = g[a]
        /\ f[k] = n + 1
        /\ \A a \in 1..(n + 1) : a > k => a - 1 \in 1..n /\ f[a] = g[a - 1]
    BY <2>6
  <2>8. f \in [1..(n + 1) -> 1..(n + 1)]
    <3>1. \A a \in 1..(n + 1) : a < k \/ a = k \/ a > k
      BY <2>6
    <3>2. n + 1 \in 1..(n + 1)
      OBVIOUS
    <3>3. ASSUME NEW a \in 1..(n + 1) PROVE f[a] \in 1..(n + 1)
      <4>1. CASE a < k
        BY <2>3, <2>7, <4>1
      <4>2. CASE a = k
        BY <2>7, <3>2, <4>2
      <4>3. CASE a > k
        BY <2>3, <2>7, <4>3
      <4>4. QED
        BY <3>1, <4>1, <4>2, <4>3
    <3>4. QED
      BY <3>3
  <2> HIDE DEF f
  <2>9. ASSUME NEW a \in 1..(n + 1), NEW b \in 1..(n + 1), f[a] = f[b] PROVE a = b
    <3>1. \A c \in 1..n : g[c] # n + 1
      BY <2>2
    <3>2. (a < k \/ a = k \/ a > k) /\ (b < k \/ b = k \/ b > k)
      BY <2>6
    <3>3. CASE a < k /\ b < k
      BY <2>2, <2>7, <2>9, <3>3
    <3>4. CASE a > k /\ b > k
      <4>1. a - 1 = b - 1
        BY <2>2, <2>7, <2>9, <3>4
      <4>2. QED
        BY <4>1
    <3>5. CASE a < k /\ b > k
      <4>1. a = b - 1
        BY <2>2, <2>7, <2>9, <3>5
      <4>2. QED
        BY <2>6, <3>5, <4>1
    <3>6. CASE a > k /\ b < k
      <4>1. b = a - 1
        BY <2>2, <2>7, <2>9, <3>6
      <4>2. QED
        BY <2>6, <3>6, <4>1
    <3>7. CASE a = k \/ b = k
      BY <2>7, <2>9, <3>1, <3>2, <3>7
    <3>8. QED
      BY <3>2, <3>3, <3>4, <3>5, <3>6, <3>7
  <2>10. ASSUME NEW c \in 1..(n + 1) PROVE \E a \in 1..(n + 1) : f[a] = c
    <3>1. CASE c = n + 1
      BY <2>6, <2>7, <3>1
    <3>2. CASE c \in 1..n
      <4>1. PICK a \in 1..n : g[a] = c
        BY <2>2, <3>2
      <4>2. CASE a < k
        BY <2>7, <4>1, <4>2
      <4>3. CASE ~(a < k)
        <5>1. a + 1 \in 1..(n + 1) /\ a + 1 > k /\ (a + 1) - 1 = a
          BY <2>6, <4>3
        <5>2. f[a + 1] = c
          BY <2>7, <4>1, <5>1
        <5>3. QED
          BY <5>1, <5>2
      <4>4. QED
        BY <4>2, <4>3
    <3>3. QED
      BY <3>1, <3>2
  <2>11. f \in Bijection(1..(n + 1), 1..(n + 1))
    BY <2>8, <2>9, <2>10 DEF Bijection, Injection, Surjection, IsInjective
  <2>12. ASSUME NEW a \in 1..(n + 1), NEW b \in 1..(n + 1), a < b
         PROVE  s[f[a]] >= s[f[b]]
    <3>1. s[f[a]] \in Nat /\ s[f[b]] \in Nat
      BY <2>8
    <3>2. CASE b < k
      <4>1. a < k /\ b < k
        BY <2>6, <2>12, <3>2
      <4>2. a \in 1..n /\ b \in 1..n /\ f[a] = g[a] /\ f[b] = g[b]
        BY <2>7, <4>1
      <4>3. QED
        BY <2>4, <2>12, <4>2
    <3>3. CASE b = k
      BY <2>6, <2>7, <2>12, <3>3
    <3>4. CASE a = k
      <4>1. b - 1 \in 1..n /\ b - 1 >= k /\ f[b] = g[b - 1]
        BY <2>6, <2>7, <2>12, <3>4
      <4>2. s[g[b - 1]] <= s[n + 1]
        BY <2>6, <4>1
      <4>3. QED
        BY <2>7, <3>1, <3>4, <4>1, <4>2
    <3>5. CASE a > k
      <4>1. a - 1 \in 1..n /\ b - 1 \in 1..n /\ a - 1 < b - 1
        BY <2>6, <2>12, <3>5
      <4>2. f[a] = g[a - 1] /\ f[b] = g[b - 1]
        BY <2>6, <2>7, <2>12, <3>5
      <4>3. QED
        BY <2>4, <4>1, <4>2
    <3>6. CASE a < k /\ b > k
      <4>1. a \in 1..n /\ b - 1 \in 1..n /\ b - 1 >= k /\ f[a] = g[a] /\ f[b] = g[b - 1]
        BY <2>6, <2>7, <3>6
      <4>2. s[g[a]] >= s[n + 1] /\ s[g[b - 1]] <= s[n + 1]
        BY <2>6, <3>6, <4>1
      <4>3. n + 1 \in 1..(n + 1)
        OBVIOUS
      <4>4. s[n + 1] \in Nat
        BY <4>3
      <4>5. QED
        BY <3>1, <4>1, <4>2, <4>4
    <3>7. QED
      BY <2>6, <3>2, <3>3, <3>4, <3>5, <3>6
  <2>13. Descending([a \in 1..(n + 1) |-> s[f[a]]])
    BY <2>12 DEF Descending
  <2>14. QED
    BY <2>11, <2>13
<1> HIDE DEF Sort
<1>3. \A n \in Nat : n \in S
  <2>1. 0 \in S /\ \A n \in Nat : n \in S => n + 1 \in S
    BY <1>1, <1>2
  <2> HIDE DEF S
  <2>2. QED
    BY <2>1, NatInduct
<1>4. QED
  BY <1>3 DEF Sort

\* So the sorted sizes are the sizes of buses, one for every bus.
LEMMA SortedSizes ==
    ASSUME NEW s \in Seq(Nat)
    PROVE  /\ DOMAIN Sorted(s) = 1..Len(s)
           /\ \A a \in 1..Len(s) : Sorted(s)[a] \in Nat /\ \E d \in DOMAIN s : Sorted(s)[a] = s[d]
           /\ Descending(Sorted(s))
<1> DEFINE idx == CHOOSE f \in Bijection(DOMAIN s, DOMAIN s) :
                     Descending([a \in DOMAIN s |-> s[f[a]]])
<1>1. s \in [1..Len(s) -> Nat] /\ Len(s) \in Nat /\ DOMAIN s = 1..Len(s)
  OBVIOUS
<1>2. \E f \in Bijection(DOMAIN s, DOMAIN s) : Descending([a \in DOMAIN s |-> s[f[a]]])
  BY <1>1, Sortable
<1>3. idx \in Bijection(DOMAIN s, DOMAIN s) /\ Descending([a \in DOMAIN s |-> s[idx[a]]])
  BY <1>2
<1> HIDE DEF idx
<1>4. idx \in [DOMAIN s -> DOMAIN s]
  BY <1>3 DEF Bijection, Injection
<1>5. Sorted(s) = [a \in DOMAIN s |-> s[idx[a]]]
  BY DEF Sorted, idx
<1>6. QED
  BY <1>1, <1>3, <1>4, <1>5

--------------------------------------------------------------------------------
(* The surplus of an assignment.                                           *)

\* Sizes are naturals, in every position of the order.
LEMMA SizesTyped ==
    ASSUME NoWrap, circuits \in Circuits
    PROVE  /\ bus_size \in Nat
           /\ \A d \in Buses : c1_size[d] \in Nat /\ c2_size[d] \in Nat
           /\ StartQuota(circuits) \in Nat
           /\ \A d \in Buses : c1_size[d] + StartQuota(circuits) < Modulus /\ c2_size[d] < Modulus
<1>1. /\ circuits.bus1 \in Seq(Nat) /\ circuits.bus2 \in Seq(Nat)
      /\ Len(circuits.bus1) = Len(circuits.bus2) /\ Modulus \in Nat \ {0}
  BY CircuitsAssumption
<1>2. /\ StartQuota(circuits) \in 0..(Modulus - 1)
      /\ \A d \in DOMAIN circuits.bus1 : circuits.bus1[d] + StartQuota(circuits) < Modulus
      /\ \A d \in DOMAIN circuits.bus2 : circuits.bus2[d] < Modulus
  BY DEF NoWrap
<1>3. bus_size \in Nat /\ Buses = 1..Len(circuits.bus1) /\ Buses = 1..Len(circuits.bus2)
  BY <1>1 DEF bus_size, Buses
<1>4. \A d \in Buses :
        c1_size[d] \in Nat /\ \E e \in DOMAIN circuits.bus1 : c1_size[d] = circuits.bus1[e]
  BY <1>1, <1>3, SortedSizes DEF c1_size
<1>5. \A d \in Buses :
        c2_size[d] \in Nat /\ \E e \in DOMAIN circuits.bus2 : c2_size[d] = circuits.bus2[e]
  BY <1>1, <1>3, SortedSizes DEF c2_size
<1>6. StartQuota(circuits) \in Nat
  BY <1>1, <1>2
<1>7. QED
  BY <1>2, <1>3, <1>4, <1>5, <1>6

\* The first n buses of f have partners.
Partnered(f, n) == n \in 0..bus_size /\ \A d \in 1..n : f[d] \in Buses

\* The sums of the surpluses of the first n buses of f.
Sums(s, f, n) ==
    s[0] = 0 /\ \A d \in 1..n : s[d - 1] \in Int /\ s[d] = s[d - 1] + Surplus(f, d)

\* They exist, and the last is Spent.
LEMMA SpentSums ==
    ASSUME NoWrap, circuits \in Circuits, NEW f, NEW n, Partnered(f, n)
    PROVE  \E s \in [0..n -> Int] : Sums(s, f, n) /\ Spent(f, n) = s[n]
<1> DEFINE X == 0..n
           back == [d \in 1..n |-> d - 1]
           rank == [d \in X |-> d]
           start == [d \in X |-> 0]
           step == [p \in X \X Int |-> p[2] + Surplus(f, p[1])]
<1>1. n \in Nat /\ \A d \in 1..n : Surplus(f, d) \in Int
  <2>1. bus_size \in Nat /\ \A d \in Buses : c1_size[d] \in Nat /\ c2_size[d] \in Nat
    BY SizesTyped
  <2>2. n \in Nat /\ \A d \in 1..n : f[d] \in Buses /\ d \in Buses
    BY <2>1 DEF Partnered, Buses
  <2>3. QED
    BY <2>1, <2>2 DEF Surplus
<1>2. /\ DOMAIN back = 1..n
      /\ \A d \in 1..n : back[d] = d - 1 /\ d - 1 \in X /\ d \in X
      /\ \A d \in X : rank[d] = d /\ start[d] = 0 /\ (d \in 1..n \/ d = 0) /\ d \in Nat
      /\ ~(0 \in 1..n) /\ 0 \in X /\ n \in X
  BY <1>1
<1>3. \A d \in 1..n, v \in Int : step[<<d, v>>] = v + Surplus(f, d) /\ v + Surplus(f, d) \in Int
  BY <1>1, <1>2
<1>4. X = 0..n
  OBVIOUS
<1> HIDE DEF X, back, rank, start, step
<1>5. Grounded(X, back)
  <2>1. /\ DOMAIN back \subseteq X /\ \A x \in X : rank[x] \in Nat
        /\ \A x \in DOMAIN back : back[x] \in X /\ rank[back[x]] < rank[x]
    BY <1>2
  <2>2. QED
    BY <2>1, RankGrounded
<1>6. PICK s \in [X -> Int] : Recursive(s, X, back, start, step)
  <2>1. /\ \A x \in X \ DOMAIN back : start[x] \in Int
        /\ \A x \in DOMAIN back, v \in Int : step[<<x, v>>] \in Int
    BY <1>2, <1>3
  <2>2. QED
    BY <1>5, <2>1, RecursionExists
<1> DEFINE Unfolds(t) == t = [d \in 0..n |-> IF d = 0 THEN 0 ELSE t[d - 1] + Surplus(f, d)]
<1>7. Unfolds(s)
  <2>1. s[0] = 0
    BY <1>2, <1>6 DEF Recursive
  <2>2. \A d \in 1..n : s[d] = s[d - 1] + Surplus(f, d)
    BY <1>2, <1>3, <1>6 DEF Recursive
  <2>3. \A d \in X : s[d] = IF d = 0 THEN 0 ELSE s[d - 1] + Surplus(f, d)
    BY <1>2, <2>1, <2>2
  <2>4. QED
    BY <1>4, <1>6, <2>3
<1> DEFINE t == CHOOSE g : Unfolds(g)
<1>8. Unfolds(t)
  BY <1>7
<1>9. Spent(f, n) = t[n]
  BY DEF Spent
<1> HIDE DEF t
<1>10. ASSUME NEW g, Unfolds(g) PROVE g[0] = 0 /\ \A d \in 1..n : g[d] = g[d - 1] + Surplus(f, d)
  <2>1. \A d \in 0..n : g[d] = IF d = 0 THEN 0 ELSE g[d - 1] + Surplus(f, d)
    BY <1>10
  <2>2. \A d \in 1..n : d \in 0..n /\ d # 0
    BY <1>1
  <2>3. 0 \in 0..n
    BY <1>1
  <2>4. QED
    BY <2>1, <2>2, <2>3
<1> HIDE DEF Unfolds
<1>11. \A d \in Nat : d \in {e \in Nat : e \in X => t[e] = s[e]}
  <2> DEFINE S == {e \in Nat : e \in X => t[e] = s[e]}
  <2>1. 0 \in S
    BY <1>7, <1>8, <1>10
  <2>2. ASSUME NEW d \in Nat, d \in S PROVE d + 1 \in S
    <3> SUFFICES ASSUME d + 1 \in X PROVE t[d + 1] = s[d + 1]
      OBVIOUS
    <3>1. d \in X /\ d + 1 \in 1..n /\ (d + 1) - 1 = d
      BY <1>1, <1>4
    <3>2. t[d] = s[d]
      BY <2>2, <3>1
    <3>3. QED
      BY <1>7, <1>8, <1>10, <3>1, <3>2
  <2> HIDE DEF S
  <2>3. \A d \in Nat : d \in S
    BY <2>1, <2>2, NatInduct
  <2>4. QED
    BY <2>3 DEF S
<1>12. t[n] = s[n]
  BY <1>1, <1>2, <1>11
<1>13. Sums(s, f, n)
  BY <1>2, <1>6, <1>7, <1>10 DEF Sums
<1>14. QED
  BY <1>4, <1>6, <1>9, <1>12, <1>13

\* f and g have the first n buses in common.
SamePrefix(f, g, n) == \A d \in 1..n : f[d] = g[d]

\* The sums of assignments that agree on the first n buses agree.
LEMMA SumsAgree ==
    ASSUME NEW f, NEW g, NEW n \in Nat, SamePrefix(f, g, n),
           NEW s, NEW t, Sums(s, f, n), Sums(t, g, n)
    PROVE  s[n] = t[n]
<1> DEFINE S == {e \in Nat : e <= n => s[e] = t[e]}
<1>1. 0 \in S
  BY DEF Sums
<1>2. ASSUME NEW d \in Nat, d \in S PROVE d + 1 \in S
  <2> SUFFICES ASSUME d + 1 <= n PROVE s[d + 1] = t[d + 1]
    OBVIOUS
  <2>1. d <= n /\ d + 1 \in 1..n /\ (d + 1) - 1 = d
    OBVIOUS
  <2>2. s[d] = t[d]
    BY <1>2, <2>1
  <2>3. Surplus(f, d + 1) = Surplus(g, d + 1)
    BY <2>1 DEF Surplus, SamePrefix
  <2>4. s[d + 1] = s[d] + Surplus(f, d + 1) /\ t[d + 1] = t[d] + Surplus(g, d + 1)
    BY <2>1 DEF Sums
  <2>5. QED
    BY <2>2, <2>3, <2>4
<1>3. \A d \in Nat : d \in S
  <2> HIDE DEF S
  <2>1. QED
    BY <1>1, <1>2, NatInduct
<1>4. QED
  BY <1>3

\* What is spent on the first buses depends on their partners only.
LEMMA SpentAgree ==
    ASSUME NoWrap, circuits \in Circuits, NEW f, NEW g, NEW n, Partnered(f, n),
           SamePrefix(f, g, n)
    PROVE  Spent(f, n) = Spent(g, n)
<1>1. Partnered(g, n) /\ n \in Nat /\ n \in 0..n
  BY SizesTyped DEF Partnered, SamePrefix
<1>2. PICK s \in [0..n -> Int] : Sums(s, f, n) /\ Spent(f, n) = s[n]
  BY SpentSums
<1>3. PICK t \in [0..n -> Int] : Sums(t, g, n) /\ Spent(g, n) = t[n]
  BY <1>1, SpentSums
<1>4. s[n] = t[n]
  BY <1>1, <1>2, <1>3, SumsAgree
<1>5. QED
  BY <1>2, <1>3, <1>4

\* One bus more spends its surplus more.
LEMMA SpentStep ==
    ASSUME NoWrap, circuits \in Circuits, NEW f, NEW n, Partnered(f, n)
    PROVE  /\ Spent(f, n) \in Int
           /\ n = 0 => Spent(f, n) = 0
           /\ n > 0 => /\ Partnered(f, n - 1)
                       /\ Spent(f, n) = Spent(f, n - 1) + Surplus(f, n)
<1>1. n \in Nat /\ n \in 0..n /\ bus_size \in Nat
  BY SizesTyped DEF Partnered
<1>2. PICK s \in [0..n -> Int] : Sums(s, f, n) /\ Spent(f, n) = s[n]
  BY SpentSums
<1>3. Spent(f, n) \in Int /\ (n = 0 => Spent(f, n) = 0)
  BY <1>1, <1>2 DEF Sums
<1>4. ASSUME n > 0
      PROVE  Partnered(f, n - 1) /\ Spent(f, n) = Spent(f, n - 1) + Surplus(f, n)
  <2> DEFINE m == n - 1
  <2>1. m \in Nat /\ m \in 0..m /\ n \in 1..n /\ \A d \in 1..m : d \in 1..n
    BY <1>1, <1>4
  <2>2. Partnered(f, m)
    BY <1>1, <1>4, <2>1 DEF Partnered
  <2> HIDE DEF m
  <2>3. PICK t \in [0..m -> Int] : Sums(t, f, m) /\ Spent(f, m) = t[m]
    BY <2>2, SpentSums
  <2>4. Sums(s, f, m)
    BY <1>2, <2>1 DEF Sums
  <2>5. s[m] = t[m]
    <3>1. SamePrefix(f, f, m)
      BY DEF SamePrefix
    <3>2. QED
      BY <2>1, <2>3, <2>4, <3>1, SumsAgree
  <2>6. s[n] = s[n - 1] + Surplus(f, n)
    BY <1>2, <2>1 DEF Sums
  <2>7. QED
    BY <1>2, <2>2, <2>3, <2>5, <2>6 DEF m
<1>5. QED
  BY <1>3, <1>4

\* Where no surplus is negative, the first buses spend no more than all.
LEMMA SpentGrows ==
    ASSUME NoWrap, circuits \in Circuits, NEW f, Partnered(f, bus_size),
           \A d \in Buses : Surplus(f, d) >= 0
    PROVE  \A n \in 0..bus_size :
              Partnered(f, n) /\ Spent(f, n) <= Spent(f, bus_size)
<1>1. bus_size \in Nat
  BY SizesTyped
<1>2. ASSUME NEW n \in 0..bus_size PROVE Partnered(f, n)
  BY <1>1 DEF Partnered
<1> DEFINE N == bus_size
           S == {e \in Nat : e <= N => Spent(f, N - e) <= Spent(f, N)}
<1>3. 0 \in S
  <2>1. N - 0 = N /\ N \in 0..N
    BY <1>1
  <2>2. Spent(f, N) \in Int
    BY <1>2, <2>1, SpentStep
  <2>3. QED
    BY <2>1, <2>2
<1>4. ASSUME NEW e \in Nat, e \in S PROVE e + 1 \in S
  <2> SUFFICES ASSUME e + 1 <= N PROVE Spent(f, N - (e + 1)) <= Spent(f, N)
    OBVIOUS
  <2> DEFINE m == N - e
  <2>1. e <= N /\ m \in 0..N /\ m > 0 /\ m - 1 \in 0..N /\ m \in Buses /\ N - (e + 1) = m - 1
        /\ N \in 0..N
    BY <1>1 DEF Buses
  <2>2. Spent(f, m) <= Spent(f, N)
    BY <1>4, <2>1
  <2> HIDE DEF m, N
  <2>3. Spent(f, m) = Spent(f, m - 1) + Surplus(f, m)
    BY <1>2, <2>1, SpentStep DEF N
  <2>4. Spent(f, m) \in Int /\ Spent(f, m - 1) \in Int /\ Spent(f, N) \in Int
    BY <1>2, <2>1, SpentStep DEF N
  <2>5. Surplus(f, m) \in Int /\ Surplus(f, m) >= 0
    <3>1. f[m] \in Buses
      BY <1>2, <2>1 DEF Partnered, Buses
    <3>2. c2_size[m] \in Nat /\ c1_size[f[m]] \in Nat
      BY <2>1, <3>1, SizesTyped
    <3>3. Surplus(f, m) \in Int
      BY <3>2 DEF Surplus
    <3>4. QED
      BY <2>1, <3>3
  <2>6. QED
    BY <2>1, <2>2, <2>3, <2>4, <2>5
<1>5. \A e \in Nat : e \in S
  <2> HIDE DEF S
  <2>1. QED
    BY <1>3, <1>4, NatInduct
<1>6. ASSUME NEW n \in 0..bus_size PROVE Spent(f, n) <= Spent(f, bus_size)
  <2>1. N - n \in Nat /\ N - n <= N /\ N - (N - n) = n
    BY <1>1
  <2>2. N - n \in S
    BY <1>5, <2>1
  <2>3. QED
    BY <2>1, <2>2
<1>7. QED
  BY <1>2, <1>6

--------------------------------------------------------------------------------
(* The activations.                                                        *)

\* The first n activations hold different buses and keep to the quota.
Good(f, n) ==
    /\ Partnered(f, n)
    /\ \A d \in 1..n : Surplus(f, d) >= 0
    /\ \A d, e \in 1..n : f[d] = f[e] => d = e
    /\ \A m \in 0..n : Spent(f, m) \in 0..StartQuota(circuits)

\* Every activation but the top one holds a bus, and the quota is what they leave.
Path ==
    /\ circuits \in Circuits
    /\ chosen \in Seq(Nat) /\ depth >= 1 /\ (depth = 1 \/ depth <= bus_size)
    /\ i \in 1..(bus_size + 1)
    /\ Good(chosen, depth - 1)
    /\ quota = StartQuota(circuits) - Spent(chosen, depth - 1)

\* The buses of the first activations are all that Good is about.
LEMMA GoodAgree ==
    ASSUME NoWrap, circuits \in Circuits, NEW f, NEW g, NEW n, Good(f, n),
           NEW m \in 0..n, SamePrefix(f, g, m)
    PROVE  Good(g, m) /\ Spent(g, m) = Spent(f, m)
<1>1. n \in 0..bus_size /\ bus_size \in Nat
  BY SizesTyped DEF Good, Partnered
<1>2. \A d \in 1..m : d \in 1..n /\ f[d] = g[d]
  BY <1>1 DEF SamePrefix
<1>3. ASSUME NEW k \in 0..m PROVE Spent(g, k) = Spent(f, k) /\ k \in 0..n
  <2>1. k \in 0..n /\ \A d \in 1..k : d \in 1..m /\ d \in 1..n
    BY <1>1
  <2>2. Partnered(f, k) /\ SamePrefix(f, g, k)
    BY <1>1, <1>2, <2>1 DEF Good, Partnered, SamePrefix
  <2>3. QED
    BY <2>1, <2>2, SpentAgree
<1>4. Partnered(g, m)
  BY <1>1, <1>2 DEF Good, Partnered
<1>5. \A d \in 1..m : Surplus(g, d) = Surplus(f, d)
  BY <1>2 DEF Surplus
<1>6. \A d \in 1..m : Surplus(g, d) >= 0
  BY <1>2, <1>5 DEF Good
<1>7. \A d, e \in 1..m : g[d] = g[e] => d = e
  BY <1>2 DEF Good
<1>8. \A k \in 0..m : Spent(g, k) \in 0..StartQuota(circuits)
  BY <1>3 DEF Good
<1>9. m \in 0..m
  BY <1>1
<1>10. QED
  BY <1>3, <1>4, <1>6, <1>7, <1>8, <1>9 DEF Good

\* The unsigned comparison is the one it looks like: a bus of circuit 1 that is
\* too large would leave more than the quota.
LEMMA FitsRight ==
    ASSUME NoWrap, Path, depth <= bus_size, i <= bus_size
    PROVE  LET x == Surplus(chosen, depth) IN
           /\ x \in Int
           /\ quota \in 0..StartQuota(circuits)
           /\ Fits <=> 0 <= x /\ x <= quota
           /\ x >= 0 => surplus(depth, i) = x
<1>1. /\ bus_size \in Nat /\ StartQuota(circuits) \in Nat
      /\ depth \in Buses /\ i \in Buses
  BY SizesTyped, LenProperties DEF Path, Buses, depth
<1>2. PICK a \in Nat, b \in Nat : a = c2_size[depth] /\ b = c1_size[i]
  BY <1>1, SizesTyped DEF Path
<1>3. a < Modulus /\ b + StartQuota(circuits) < Modulus
  BY <1>1, <1>2, SizesTyped DEF Path
<1>4. PICK M \in Nat \ {0} : M = Modulus
  BY CircuitsAssumption
<1>5. quota \in 0..StartQuota(circuits)
  <2>1. depth - 1 \in 0..(depth - 1)
    BY <1>1 DEF Buses
  <2>2. Spent(chosen, depth - 1) \in 0..StartQuota(circuits)
    BY <2>1 DEF Path, Good
  <2>3. QED
    BY <1>1, <2>2 DEF Path
<1>6. surplus(depth, i) = (a - b) % M
  BY <1>2, <1>4 DEF surplus
<1>7. Surplus(chosen, depth) = a - b
  BY <1>2 DEF Surplus, i
<1>8. PICK q \in Nat, t \in Nat : q = quota /\ t = StartQuota(circuits) /\ q <= t
  BY <1>1, <1>5
<1>9. t < M /\ q % M = q
  <2>1. b + t < M /\ q < M
    BY <1>3, <1>4, <1>8
  <2>2. QED
    BY <2>1, <1>8
<1>10. CASE a - b >= 0
  <2>1. (a - b) % M = a - b
    BY <1>3, <1>4, <1>10
  <2>2. QED
    BY <1>5, <1>6, <1>7, <1>8, <1>9, <1>4, <1>10, <2>1 DEF Fits
<1>11. CASE a - b < 0
  <2>1. (a - b) % M = M + (a - b)
    <3>1. PICK x \in 1..(M - 1) : x = b - a
      BY <1>3, <1>4, <1>8, <1>9, <1>11
    <3>2. (-x) % M = M - x /\ -x = a - b
      BY <3>1
    <3>3. QED
      BY <3>1, <3>2
  <2>2. M + (a - b) > q
    BY <1>3, <1>4, <1>8
  <2>3. QED
    BY <1>4, <1>5, <1>6, <1>7, <1>8, <1>9, <1>11, <2>1, <2>2 DEF Fits
<1>12. QED
  BY <1>10, <1>11

\* Taking an eligible bus keeps the activations right.
LEMMA EligibleGood ==
    ASSUME NoWrap, Path, Eligible, depth <= bus_size
    PROVE  /\ Good(chosen, depth)
           /\ Spent(chosen, depth) = Spent(chosen, depth - 1) + surplus(depth, i)
<1>1. /\ depth \in Nat /\ depth >= 1 /\ i \in 1..bus_size /\ bus_size \in Nat
      /\ StartQuota(circuits) \in Nat
  BY SizesTyped, LenProperties DEF Path, Eligible, depth
<1>2. chosen[depth] = i
  BY DEF i
<1>3. /\ Surplus(chosen, depth) \in Int /\ quota \in 0..StartQuota(circuits)
      /\ Surplus(chosen, depth) >= 0 /\ Surplus(chosen, depth) <= quota
      /\ surplus(depth, i) = Surplus(chosen, depth)
  BY FitsRight DEF Eligible
<1>4. \A d \in 1..depth : d \in 1..(depth - 1) \/ d = depth
  BY <1>1
<1>5. /\ Partnered(chosen, depth - 1)
      /\ \A d \in 1..(depth - 1) : Surplus(chosen, d) >= 0 /\ chosen[d] \in Buses
      /\ \A d, e \in 1..(depth - 1) : chosen[d] = chosen[e] => d = e
      /\ \A m \in 0..(depth - 1) : Spent(chosen, m) \in 0..StartQuota(circuits)
      /\ quota = StartQuota(circuits) - Spent(chosen, depth - 1)
  BY DEF Path, Good, Partnered
<1>6. Partnered(chosen, depth)
  BY <1>1, <1>2, <1>4, <1>5 DEF Partnered, Buses
<1>7. Spent(chosen, depth) = Spent(chosen, depth - 1) + Surplus(chosen, depth)
  BY <1>1, <1>6, SpentStep DEF Path
<1>8. \A d \in 1..depth : Surplus(chosen, d) >= 0
  BY <1>3, <1>4, <1>5
<1>9. \A d, e \in 1..depth : chosen[d] = chosen[e] => d = e
  BY <1>2, <1>4, <1>5 DEF Eligible, Occupied
<1>10. ASSUME NEW m \in 0..depth PROVE Spent(chosen, m) \in 0..StartQuota(circuits)
  <2>1. CASE m = depth
    <3>1. depth - 1 \in 0..(depth - 1)
      BY <1>1
    <3>2. Spent(chosen, depth - 1) \in 0..StartQuota(circuits)
      BY <1>5, <3>1
    <3>3. QED
      BY <1>1, <1>3, <1>5, <1>7, <2>1, <3>2
  <2>2. CASE m # depth
    <3>1. m \in 0..(depth - 1)
      BY <1>1, <2>2
    <3>2. QED
      BY <1>5, <3>1
  <2>3. QED
    BY <2>1, <2>2
<1>11. QED
  BY <1>3, <1>6, <1>7, <1>8, <1>9, <1>10 DEF Good

\* The loop of activation d goes on to its next bus.
LEMMA Advanced ==
    ASSUME chosen \in Seq(Nat), NEW d \in 1..Len(chosen)
    PROVE  LET t == AdvancedTo(chosen, d) IN
           /\ t \in Seq(Nat) /\ Len(t) = d
           /\ t[d] = chosen[d] + 1
           /\ \A e \in 1..(d - 1) : t[e] = chosen[e]
<1> DEFINE p == SubSeq(chosen, 1, d)
           t == [p EXCEPT ![d] = @ + 1]
<1>1. Len(chosen) \in Nat /\ \A e \in 1..Len(chosen) : chosen[e] \in Nat
  OBVIOUS
<1>2. p \in Seq(Nat) /\ Len(p) = d /\ \A e \in 1..d : p[e] = chosen[e]
  BY <1>1
<1> HIDE DEF p
<1>3. d \in 1..d /\ p[d] + 1 \in Nat
  BY <1>1, <1>2
<1>4. t \in Seq(Nat) /\ Len(t) = d /\ t[d] = p[d] + 1
  BY <1>2, <1>3
<1>5. \A e \in 1..(d - 1) : t[e] = p[e] /\ e \in 1..d
  BY <1>2
<1>6. t = AdvancedTo(chosen, d)
  BY DEF AdvancedTo, p
<1>7. QED
  BY <1>2, <1>3, <1>4, <1>5, <1>6

\* The circuits do not change, nor does what is computed from them.
LEMMA CircuitsFixed ==
    ASSUME circuits' = circuits
    PROVE  /\ bus_size' = bus_size /\ Buses' = Buses
           /\ c1_size' = c1_size /\ c2_size' = c2_size
           /\ StartQuota(circuits)' = StartQuota(circuits)
           /\ \A f, n : Spent(f, n)' = Spent(f, n)
           /\ \A f, n : Good(f, n)' <=> Good(f, n)
           /\ Assignments' = Assignments
           /\ \A f : PairsOf(f)' = PairsOf(f)
<1>1. /\ bus_size' = bus_size /\ Buses' = Buses
      /\ c1_size' = c1_size /\ c2_size' = c2_size
      /\ StartQuota(circuits)' = StartQuota(circuits)
  BY DEF bus_size, Buses, c1_size, c2_size, StartQuota
<1>2. \A f, n : Spent(f, n)' = Spent(f, n)
  BY <1>1 DEF Spent, Surplus
<1>3. \A f, n : Surplus(f, n)' = Surplus(f, n)
  BY <1>1 DEF Surplus
<1>4. \A f, n : Good(f, n)' <=> Good(f, n)
  BY <1>1, <1>2, <1>3 DEF Good, Partnered
<1>5. \A f : Fitting(f)' <=> Fitting(f)
  BY <1>1, <1>2, <1>3 DEF Fitting
<1>6. Assignments' = Assignments
  BY <1>1, <1>5 DEF Assignments
<1>7. \A f : PairsOf(f)' = PairsOf(f)
  BY <1>1 DEF PairsOf, Pair
<1>8. QED
  BY <1>1, <1>2, <1>4, <1>6, <1>7

\* What a step leaves of the activations is right.
LEMMA PathFrom ==
    ASSUME NoWrap, circuits' = circuits, circuits \in Circuits,
           chosen' \in Seq(Nat), NEW m, m \in Nat, m + 1 = Len(chosen'), m = 0 \/ m + 1 <= bus_size,
           chosen'[m + 1] \in 1..(bus_size + 1),
           NEW n, Good(chosen, n), m \in 0..n, SamePrefix(chosen, chosen', m),
           quota' = StartQuota(circuits) - Spent(chosen, m)
    PROVE  Path'
<1>1. Good(chosen', m) /\ Spent(chosen', m) = Spent(chosen, m)
  BY GoodAgree
<1>2. depth' = m + 1 /\ depth' - 1 = m
  BY DEF depth
<1>3. Good(chosen, depth - 1)' /\ (quota = StartQuota(circuits) - Spent(chosen, depth - 1))'
  BY <1>1, <1>2, CircuitsFixed
<1>4. (i \in 1..(bus_size + 1))' /\ (depth >= 1 /\ (depth = 1 \/ depth <= bus_size))'
  BY <1>2, CircuitsFixed DEF i
<1>5. (circuits \in Circuits)' /\ (chosen \in Seq(Nat))'
  OBVIOUS
<1>6. QED
  BY <1>3, <1>4, <1>5 DEF Path

\* The first activation starts with the whole quota.
LEMMA PathInit == ASSUME NoWrap PROVE Init => Path
<1> SUFFICES ASSUME Init PROVE Path
  OBVIOUS
<1>1. circuits \in Circuits /\ chosen = <<1>> /\ quota = StartQuota(circuits)
  BY DEF Init
<1>2. depth = 1 /\ i = 1 /\ chosen \in Seq(Nat)
  BY <1>1 DEF depth, i
<1>3. bus_size \in Nat /\ StartQuota(circuits) \in Nat
  BY <1>1, SizesTyped
<1>4. Partnered(chosen, 0)
  BY <1>3 DEF Partnered
<1>5. Spent(chosen, 0) = 0
  BY <1>1, <1>4, SpentStep
<1>6. Good(chosen, 0)
  <2>1. \A m \in 0..0 : m = 0
    OBVIOUS
  <2>2. \A m \in 0..0 : Spent(chosen, m) \in 0..StartQuota(circuits)
    BY <1>3, <1>5, <2>1
  <2>3. 1..0 = {}
    OBVIOUS
  <2>4. QED
    BY <1>4, <2>2, <2>3 DEF Good
<1>7. QED
  BY <1>1, <1>2, <1>3, <1>5, <1>6 DEF Path

\* Every step takes a bus, gives one back or goes on to the next.
LEMMA PathStep == ASSUME NoWrap PROVE Path /\ [Next]_vars => Path'
<1> SUFFICES ASSUME Path, [Next]_vars PROVE Path'
  OBVIOUS
<1>1. /\ circuits \in Circuits /\ bus_size \in Nat /\ StartQuota(circuits) \in Nat
      /\ chosen \in Seq(Nat) /\ depth = Len(chosen) /\ depth \in Nat /\ depth >= 1
      /\ depth = 1 \/ depth <= bus_size
      /\ i = chosen[depth] /\ i \in 1..(bus_size + 1)
      /\ Good(chosen, depth - 1)
      /\ quota = StartQuota(circuits) - Spent(chosen, depth - 1)
  BY SizesTyped, LenProperties DEF Path, depth, i
<1>2. CASE Descend
  <2>1. /\ Eligible /\ depth < bus_size /\ circuits' = circuits /\ chosen' = Append(chosen, 1)
        /\ quota' = quota - surplus(depth, i)
    BY <1>2 DEF Descend
  <2>2. Good(chosen, depth) /\ Spent(chosen, depth) = Spent(chosen, depth - 1) + surplus(depth, i)
    BY <1>1, <2>1, EligibleGood
  <2>3. /\ chosen' \in Seq(Nat) /\ Len(chosen') = depth + 1 /\ chosen'[depth + 1] = 1
        /\ \A d \in 1..depth : chosen'[d] = chosen[d]
    BY <1>1, <2>1
  <2>4. SamePrefix(chosen, chosen', depth) /\ depth \in 0..depth
    BY <1>1, <2>3 DEF SamePrefix
  <2>5. quota' = StartQuota(circuits) - Spent(chosen, depth)
    <3>1. Spent(chosen, depth - 1) \in Int /\ Spent(chosen, depth) \in Int
      BY <1>1, <2>2, SpentStep DEF Good
    <3>2. surplus(depth, i) = Spent(chosen, depth) - Spent(chosen, depth - 1)
      <4>1. Surplus(chosen, depth) \in Int /\ surplus(depth, i) = Surplus(chosen, depth)
        BY <1>1, <2>1, FitsRight DEF Eligible
      <4>2. QED
        BY <2>2, <3>1, <4>1
    <3>3. QED
      BY <1>1, <2>1, <3>1, <3>2
  <2>6. chosen'[depth + 1] \in 1..(bus_size + 1) /\ depth + 1 <= bus_size
    BY <1>1, <2>1, <2>3
  <2>7. QED
    BY <1>1, <2>1, <2>2, <2>3, <2>4, <2>5, <2>6, PathFrom
<1>3. CASE Complete \/ Skip
  <2>1. /\ i <= bus_size /\ circuits' = circuits /\ quota' = quota
        /\ chosen' = AdvancedTo(chosen, depth)
    BY <1>3 DEF Complete, Skip, Eligible
  <2>2. depth \in 1..Len(chosen)
    BY <1>1
  <2>3. /\ chosen' \in Seq(Nat) /\ Len(chosen') = depth /\ chosen'[depth] = i + 1
        /\ \A d \in 1..(depth - 1) : chosen'[d] = chosen[d]
    BY <1>1, <2>1, <2>2, Advanced
  <2> DEFINE m == depth - 1
  <2>4. m \in Nat /\ m + 1 = depth /\ m \in 0..m /\ SamePrefix(chosen, chosen', m)
    BY <1>1, <2>3 DEF SamePrefix
  <2>5. chosen'[depth] \in 1..(bus_size + 1) /\ (m = 0 \/ depth <= bus_size)
    <3>1. i + 1 \in 1..(bus_size + 1)
      <4>1. bus_size \in Nat /\ i \in 1..(bus_size + 1) /\ i <= bus_size
        BY <1>1, <2>1
      <4>2. QED
        BY <4>1
    <3>2. m = 0 \/ depth <= bus_size
      BY <1>1
    <3>3. QED
      BY <2>3, <3>1, <3>2
  <2>6. Good(chosen, m) /\ quota' = StartQuota(circuits) - Spent(chosen, m)
    BY <1>1, <2>1
  <2> HIDE DEF m
  <2>7. QED
    BY <1>1, <2>1, <2>3, <2>4, <2>5, <2>6, PathFrom
<1>4. CASE Return /\ depth # 1
  <2> DEFINE d == depth - 1
             m == depth - 2
  <2>1. /\ circuits' = circuits /\ quota' = quota + GivenBack
        /\ chosen' = AdvancedTo(chosen, d)
    BY <1>4 DEF Return
  <2>2. /\ d \in 1..Len(chosen) /\ d <= bus_size /\ d \in Buses /\ d \in 1..d
        /\ m \in Nat /\ m + 1 = d /\ m \in 0..d /\ d - 1 = m /\ d > 0
    BY <1>1, <1>4 DEF Buses
  <2>3. /\ chosen[d] \in Buses /\ Partnered(chosen, d) /\ Surplus(chosen, d) >= 0
    BY <1>1, <2>2 DEF Good, Partnered
  <2>4. /\ chosen' \in Seq(Nat) /\ Len(chosen') = d /\ chosen'[d] = chosen[d] + 1
        /\ \A e \in 1..(d - 1) : chosen'[e] = chosen[e]
    BY <1>1, <2>1, <2>2, Advanced
  <2>5. GivenBack = Surplus(chosen, d) /\ Surplus(chosen, d) \in Int
    <3>1. PICK a \in Nat, b \in Nat : a = c2_size[d] /\ b = c1_size[chosen[d]]
      BY <1>1, <2>2, <2>3, SizesTyped
    <3>2. PICK M \in Nat \ {0} : M = Modulus
      BY CircuitsAssumption
    <3>3. a < M
      BY <1>1, <2>2, <3>1, <3>2, SizesTyped
    <3>4. Surplus(chosen, d) = a - b
      BY <3>1 DEF Surplus
    <3>5. (a - b) % M = a - b
      BY <2>3, <3>3, <3>4
    <3>6. GivenBack = (a - b) % M
      BY <3>1, <3>2 DEF GivenBack, surplus
    <3>7. QED
      BY <3>4, <3>5, <3>6
  <2>6. /\ Spent(chosen, d) = Spent(chosen, m) + Surplus(chosen, d)
        /\ Partnered(chosen, m)
    BY <1>1, <2>2, <2>3, SpentStep
  <2>7. Spent(chosen, m) \in Int /\ Spent(chosen, d) \in Int
    BY <1>1, <2>3, <2>6, SpentStep
  <2>8. quota' = StartQuota(circuits) - Spent(chosen, m)
    <3>1. quota' = (StartQuota(circuits) - Spent(chosen, d)) + Surplus(chosen, d)
      BY <1>1, <2>1, <2>5
    <3>2. PICK x \in Int, y \in Int, z \in Int, t \in Int :
             /\ x = Spent(chosen, m) /\ y = Spent(chosen, d)
             /\ z = Surplus(chosen, d) /\ t = StartQuota(circuits)
      BY <1>1, <2>5, <2>7
    <3>3. y = x + z => (t - y) + z = t - x
      OBVIOUS
    <3>4. QED
      BY <2>6, <3>1, <3>2, <3>3
  <2>9. SamePrefix(chosen, chosen', m) /\ Good(chosen, d)
    BY <1>1, <2>2, <2>4 DEF SamePrefix
  <2>10. chosen'[d] \in 1..(bus_size + 1)
    <3>1. chosen[d] \in 1..bus_size /\ bus_size \in Nat
      BY <1>1, <2>3 DEF Buses
    <3>2. chosen[d] + 1 \in 1..(bus_size + 1)
      BY <3>1
    <3>3. QED
      BY <2>4, <3>2
  <2> HIDE DEF m, d
  <2>11. QED
    BY <1>1, <2>1, <2>2, <2>4, <2>8, <2>9, <2>10, PathFrom
<1>5. CASE (Return /\ depth = 1) \/ Done \/ UNCHANGED vars
  <2>1. circuits' = circuits /\ chosen' = chosen /\ quota' = quota
    BY <1>5 DEF Return, Done, vars
  <2> DEFINE m == depth - 1
  <2>2. m \in Nat /\ m + 1 = depth /\ m \in 0..m /\ SamePrefix(chosen, chosen', m)
    BY <1>1, <2>1 DEF SamePrefix
  <2>3. Good(chosen, m) /\ quota' = StartQuota(circuits) - Spent(chosen, m)
        /\ (m = 0 \/ depth <= bus_size)
    BY <1>1, <2>1
  <2> HIDE DEF m
  <2>4. chosen' \in Seq(Nat) /\ Len(chosen') = depth /\ chosen'[depth] \in 1..(bus_size + 1)
    BY <1>1, <2>1
  <2>5. QED
    BY <1>1, <2>1, <2>2, <2>3, <2>4, PathFrom
<1>6. QED
  BY <1>2, <1>3, <1>4, <1>5 DEF Next

--------------------------------------------------------------------------------
(* What is recorded.                                                       *)

\* Taking the last bus completes an assignment within the quota.
LEMMA CompleteAssigns ==
    ASSUME NoWrap, Path, Eligible, depth = bus_size
    PROVE  chosen \in Assignments /\ PairsOf(chosen) = {Pair(d, chosen[d]) : d \in 1..depth}
<1>1. /\ circuits \in Circuits /\ bus_size \in Nat /\ chosen \in Seq(Nat) /\ DOMAIN chosen = Buses
      /\ Buses = 1..bus_size /\ bus_size \in 0..bus_size
  BY SizesTyped, LenProperties DEF Path, depth, Buses
<1>2. Good(chosen, bus_size)
  <2>1. depth <= bus_size
    BY <1>1
  <2>2. QED
    BY <2>1, EligibleGood
<1>3. chosen \in Injection(Buses, Buses)
  <2>1. \A d \in Buses : chosen[d] \in Buses
    BY <1>1, <1>2 DEF Good, Partnered
  <2>2. chosen \in [Buses -> Buses]
    BY <1>1, <2>1
  <2>3. \A d, e \in Buses : chosen[d] = chosen[e] => d = e
    BY <1>1, <1>2 DEF Good
  <2>4. QED
    BY <1>1, <2>2, <2>3 DEF Injection, IsInjective
<1>4. chosen \in Surjection(Buses, Buses)
  <2>1. IsFiniteSet(Buses)
    BY <1>1, FS_Interval
  <2>2. QED
    BY <1>3, <2>1, FS_Injection
<1>5. Fitting(chosen)
  <2>1. Spent(chosen, bus_size) \in 0..StartQuota(circuits) /\ StartQuota(circuits) \in Nat
    BY <1>1, <1>2, SizesTyped DEF Good
  <2>2. \A d \in Buses : Surplus(chosen, d) >= 0
    BY <1>1, <1>2 DEF Good
  <2>3. QED
    BY <2>1, <2>2 DEF Fitting
<1>6. PairsOf(chosen) = {Pair(d, chosen[d]) : d \in 1..depth}
  BY <1>1 DEF PairsOf
<1>7. QED
  BY <1>3, <1>4, <1>5, <1>6 DEF Assignments, Bijection

\* Every step but Complete leaves what is recorded alone.
LEMMA RecordedBy ==
    ASSUME NoWrap, Path, [Next]_vars
    PROVE  /\ circuits' = circuits
           /\ bus_match_idx' = bus_match_idx
              \/ /\ Complete /\ chosen \in Assignments
                 /\ bus_match_idx' = bus_match_idx \cup PairsOf(chosen)
<1>1. CASE Complete
  BY <1>1, CompleteAssigns DEF Complete
<1>2. CASE Descend \/ Skip \/ Return \/ Done \/ UNCHANGED vars
  BY <1>2 DEF Descend, Skip, Return, Done, vars
<1>3. QED
  BY <1>1, <1>2 DEF Next

\* A pair of sizes is recorded only with an assignment that has it.
LEMMA FeasibleStep ==
    ASSUME NoWrap PROVE Path /\ OnlyFeasible /\ [Next]_vars => OnlyFeasible'
<1> SUFFICES ASSUME Path, OnlyFeasible, [Next]_vars PROVE OnlyFeasible'
  OBVIOUS
<1> DEFINE F == UNION {PairsOf(f) : f \in Assignments}
<1>1. circuits' = circuits
  BY RecordedBy
<1>2. F' = F
  BY <1>1, CircuitsFixed
<1>3. bus_match_idx \subseteq F
  BY DEF OnlyFeasible
<1>4. chosen \in Assignments => PairsOf(chosen) \subseteq F
  OBVIOUS
<1> HIDE DEF F
<1>5. bus_match_idx' \subseteq F
  BY <1>3, <1>4, RecordedBy
<1>6. (bus_match_idx \subseteq F)'
  BY <1>2, <1>5
<1>7. QED
  BY <1>6 DEF F, OnlyFeasible

\* Only sizes that some complete assignment within the quota pairs are recorded,
\* for any number of buses of any sizes: the prunings of recur_match_bus and its
\* unsigned arithmetic let no other through.
THEOREM FeasibleRecorded ==
    ASSUME NoWrap PROVE Spec => []OnlyFeasible
<1>1. Init => Path /\ OnlyFeasible
  BY PathInit DEF Init, OnlyFeasible
<1>2. Path /\ OnlyFeasible /\ [Next]_vars => (Path /\ OnlyFeasible)'
  BY PathStep, FeasibleStep
<1>3. QED
  BY <1>1, <1>2, PTL DEF Spec

\* An assignment is recorded as a whole.
Whole == \E f \in Assignments : PairsOf(f) \subseteq bus_match_idx

\* No assignment comes before the buses of the activations.
Ahead ==
    \A f \in Assignments : \A d \in 1..depth :
        SamePrefix(f, chosen, d - 1) => f[d] >= chosen[d]

\* Until the first assignment is complete nothing is pruned, so the loops have
\* not passed any.
Searching ==
    \/ Assignments = {}
    \/ Whole
    \/ pc = "loop" /\ bus_size > 0 /\ new_match = TRUE /\ Ahead

\* What is known of an assignment.
LEMMA AssignmentFacts ==
    ASSUME NoWrap, circuits \in Circuits, NEW f \in Assignments
    PROVE  /\ f \in [Buses -> Buses]
           /\ \A d, e \in Buses : f[d] = f[e] => d = e
           /\ \A d \in Buses : Surplus(f, d) >= 0
           /\ \A n \in 0..bus_size : Partnered(f, n) /\ Spent(f, n) <= StartQuota(circuits)
<1>1. /\ f \in [Buses -> Buses] /\ \A d, e \in Buses : f[d] = f[e] => d = e
      /\ \A d \in Buses : Surplus(f, d) >= 0
      /\ Spent(f, bus_size) <= StartQuota(circuits)
  BY DEF Assignments, Fitting, Bijection, Injection, IsInjective
<1>2. bus_size \in Nat /\ bus_size \in 0..bus_size /\ StartQuota(circuits) \in Nat
  BY SizesTyped
<1>3. Partnered(f, bus_size)
  BY <1>1, <1>2 DEF Partnered, Buses
<1>4. ASSUME NEW n \in 0..bus_size
      PROVE  Partnered(f, n) /\ Spent(f, n) <= StartQuota(circuits)
  <2>1. Partnered(f, n) /\ Spent(f, n) <= Spent(f, bus_size)
    BY <1>1, <1>3, SpentGrows
  <2>2. Spent(f, n) \in Int /\ Spent(f, bus_size) \in Int
    BY <1>3, <2>1, SpentStep
  <2>3. QED
    BY <1>1, <1>2, <2>1, <2>2
<1>5. QED
  BY <1>1, <1>4

\* While nothing is pruned, a bus that is skipped is not the next of an assignment.
LEMMA SkippedNone ==
    ASSUME NoWrap, Path, new_match = TRUE, depth <= bus_size, i <= bus_size, ~Eligible,
           NEW f \in Assignments, SamePrefix(f, chosen, depth - 1)
    PROVE  f[depth] # i
<1> SUFFICES ASSUME f[depth] = i PROVE FALSE
  OBVIOUS
<1>1. /\ circuits \in Circuits /\ depth \in Nat /\ depth >= 1 /\ bus_size \in Nat
      /\ StartQuota(circuits) \in Nat /\ depth \in Buses
      /\ quota = StartQuota(circuits) - Spent(chosen, depth - 1)
      /\ depth - 1 \in 0..(depth - 1) /\ depth \in 0..bus_size /\ depth > 0
  BY SizesTyped, LenProperties DEF Path, depth, Buses
<1>2. ~Occupied
  <2> SUFFICES ASSUME NEW d \in 1..(depth - 1), chosen[d] = i PROVE FALSE
    BY DEF Occupied
  <2>1. f[d] = f[depth] /\ d \in Buses /\ d # depth
    BY <1>1 DEF SamePrefix, Buses
  <2>2. QED
    BY <1>1, <2>1, AssignmentFacts
<1>3. Surplus(f, depth) = Surplus(chosen, depth)
  BY DEF Surplus, i
<1>4. Spent(f, depth) = Spent(f, depth - 1) + Surplus(f, depth) /\ Partnered(f, depth - 1)
  BY <1>1, AssignmentFacts, SpentStep
<1>5. Spent(f, depth - 1) = Spent(chosen, depth - 1)
  BY <1>1, <1>4, SpentAgree
<1>6. Spent(f, depth) <= StartQuota(circuits) /\ Surplus(f, depth) >= 0
  BY <1>1, AssignmentFacts
<1>7. Spent(f, depth - 1) \in Int /\ Spent(f, depth) \in Int
  BY <1>1, <1>4, AssignmentFacts, SpentStep
<1>8. Surplus(chosen, depth) \in Int /\ (Fits <=> 0 <= Surplus(chosen, depth) /\ Surplus(chosen, depth) <= quota)
  BY FitsRight
<1>9. Fits
  <2>1. PICK x \in Int, y \in Int, z \in Int, t \in Int :
           /\ x = Spent(f, depth - 1) /\ y = Spent(f, depth)
           /\ z = Surplus(f, depth) /\ t = StartQuota(circuits)
    BY <1>1, <1>3, <1>7, <1>8
  <2>2. y = x + z /\ y <= t => z <= t - x
    OBVIOUS
  <2>3. z <= quota
    BY <1>1, <1>4, <1>5, <1>6, <2>1, <2>2
  <2>4. QED
    BY <1>3, <1>6, <1>8, <2>1, <2>3
<1>10. QED
  BY <1>2, <1>9 DEF Eligible, IsOpen

\* Every assignment is still to come when the first activation starts.
LEMMA SearchingInit == ASSUME NoWrap PROVE Init => Searching
<1> SUFFICES ASSUME Init, Assignments # {} PROVE Searching
  BY DEF Searching
<1>1. /\ circuits \in Circuits /\ chosen = <<1>> /\ new_match = TRUE /\ pc = "loop"
      /\ bus_size \in Nat
  BY SizesTyped DEF Init
<1>2. CASE bus_size = 0
  <2>1. PICK f \in Assignments : TRUE
    OBVIOUS
  <2>2. PairsOf(f) = {}
    BY <1>2 DEF PairsOf, Buses
  <2>3. QED
    BY <2>1, <2>2 DEF Searching, Whole
<1>3. CASE bus_size > 0
  <2>1. depth = 1 /\ chosen[1] = 1
    BY <1>1 DEF depth
  <2>2. ASSUME NEW f \in Assignments, NEW d \in 1..depth PROVE f[d] >= chosen[d]
    <3>1. d = 1 /\ f[1] \in 1..bus_size
      BY <1>1, <1>3, <2>1, AssignmentFacts DEF Buses
    <3>2. QED
      BY <2>1, <3>1
  <2>3. QED
    BY <1>1, <1>3, <2>2 DEF Searching, Ahead
<1>4. QED
  BY <1>1, <1>2, <1>3

\* The loops pass no assignment before the first is recorded.
LEMMA SearchingStep ==
    ASSUME NoWrap PROVE Path /\ Searching /\ [Next]_vars => Searching'
<1> SUFFICES ASSUME Path, Searching, [Next]_vars PROVE Searching'
  OBVIOUS
<1>1. /\ circuits' = circuits /\ Assignments' = Assignments /\ bus_size' = bus_size
      /\ \A f : PairsOf(f)' = PairsOf(f)
  BY RecordedBy, CircuitsFixed
<1>2. CASE Assignments = {}
  BY <1>1, <1>2 DEF Searching
<1>3. CASE Whole
  <2>1. bus_match_idx \subseteq bus_match_idx'
    BY RecordedBy
  <2>2. Whole'
    BY <1>1, <1>3, <2>1 DEF Whole
  <2>3. QED
    BY <2>2 DEF Searching
<1>4. CASE Complete
  <2>1. chosen \in Assignments /\ PairsOf(chosen) \subseteq bus_match_idx'
    BY <1>4, CompleteAssigns DEF Complete
  <2>2. Whole'
    BY <1>1, <2>1 DEF Whole
  <2>3. QED
    BY <2>2 DEF Searching
<1>5. CASE /\ ~Complete /\ Assignments # {}
           /\ pc = "loop" /\ bus_size > 0 /\ new_match = TRUE /\ Ahead
  <2>1. /\ circuits \in Circuits /\ bus_size \in Nat /\ depth \in Nat /\ depth >= 1
        /\ depth <= bus_size /\ chosen \in Seq(Nat) /\ Len(chosen) = depth
        /\ i = chosen[depth] /\ i \in 1..(bus_size + 1) /\ depth \in Buses
    BY <1>5, SizesTyped, LenProperties DEF Path, depth, i, Buses
  <2>2. \A f \in Assignments : f \in [Buses -> Buses]
    BY <2>1, AssignmentFacts
  <2>3. CASE Descend
    <3>1. chosen' = Append(chosen, 1) /\ new_match' = TRUE /\ pc' = "loop" /\ depth < bus_size
      BY <1>5, <2>3 DEF Descend
    <3>2. /\ depth' = depth + 1 /\ chosen'[depth + 1] = 1
          /\ \A d \in 1..depth : chosen'[d] = chosen[d]
      BY <2>1, <3>1 DEF depth
    <3>3. ASSUME NEW f \in Assignments, NEW d \in 1..(depth + 1), SamePrefix(f, chosen', d - 1)
          PROVE  f[d] >= chosen'[d]
      <4>1. CASE d = depth + 1
        <5>1. f[d] \in 1..bus_size
          BY <2>1, <2>2, <3>1, <4>1 DEF Buses
        <5>2. QED
          BY <2>1, <3>2, <4>1, <5>1
      <4>2. CASE d # depth + 1
        <5>1. d \in 1..depth /\ \A e \in 1..(d - 1) : e \in 1..depth
          BY <2>1, <4>2
        <5>2. SamePrefix(f, chosen, d - 1)
          BY <3>2, <3>3, <5>1 DEF SamePrefix
        <5>3. QED
          BY <1>5, <3>2, <5>1, <5>2 DEF Ahead
      <4>3. QED
        BY <4>1, <4>2
    <3>4. Ahead'
      BY <1>1, <3>2, <3>3 DEF Ahead, SamePrefix
    <3>5. QED
      BY <1>1, <1>5, <3>1, <3>4 DEF Searching
  <2>4. ASSUME NEW n \in 1..depth, chosen' = AdvancedTo(chosen, n),
               \A f \in Assignments : SamePrefix(f, chosen, n - 1) => f[n] # chosen[n]
        PROVE  Ahead'
    <3>1. /\ Len(chosen') = n /\ chosen'[n] = chosen[n] + 1
          /\ \A d \in 1..(n - 1) : chosen'[d] = chosen[d]
      BY <2>1, <2>4, Advanced
    <3>2. depth' = n
      BY <3>1 DEF depth
    <3>3. ASSUME NEW f \in Assignments, NEW d \in 1..n, SamePrefix(f, chosen', d - 1)
          PROVE  f[d] >= chosen'[d]
      <4>1. d \in 1..depth /\ \A e \in 1..(d - 1) : e \in 1..(n - 1)
        BY <2>1
      <4>2. SamePrefix(f, chosen, d - 1)
        BY <3>1, <3>3, <4>1 DEF SamePrefix
      <4>3. f[d] >= chosen[d]
        BY <1>5, <4>1, <4>2 DEF Ahead
      <4>4. CASE d = n
        <5>1. f[n] # chosen[n]
          BY <2>4, <4>2, <4>4
        <5>2. f[n] \in Nat /\ chosen[n] \in Nat
          <6>1. n \in Buses
            BY <2>1 DEF Buses
          <6>2. f[n] \in 1..bus_size
            BY <2>2, <6>1 DEF Buses
          <6>3. n \in 1..Len(chosen)
            BY <2>1
          <6>4. QED
            BY <2>1, <6>2, <6>3
        <5>3. QED
          BY <3>1, <4>3, <4>4, <5>1, <5>2
      <4>5. CASE d # n
        <5>1. d \in 1..(n - 1)
          BY <2>1, <4>5
        <5>2. QED
          BY <3>1, <4>3, <5>1
      <4>6. QED
        BY <4>4, <4>5
    <3>4. QED
      BY <1>1, <3>2, <3>3 DEF Ahead, SamePrefix
  <2>5. CASE Skip
    <3>1. /\ chosen' = AdvancedTo(chosen, depth) /\ new_match' = TRUE /\ pc' = "loop"
          /\ i <= bus_size /\ ~Eligible
      BY <1>5, <2>5 DEF Skip
    <3>2. \A f \in Assignments : SamePrefix(f, chosen, depth - 1) => f[depth] # chosen[depth]
      BY <1>5, <2>1, <3>1, SkippedNone
    <3>3. depth \in 1..depth
      BY <2>1
    <3>4. Ahead'
      BY <2>4, <3>1, <3>2, <3>3
    <3>5. QED
      BY <1>1, <1>5, <3>1, <3>4 DEF Searching
  <2>6. CASE Return
    <3>1. \A f \in Assignments : ~SamePrefix(f, chosen, depth - 1)
      <4> SUFFICES ASSUME NEW f \in Assignments, SamePrefix(f, chosen, depth - 1) PROVE FALSE
        OBVIOUS
      <4>1. depth \in 1..depth
        BY <2>1
      <4>2. f[depth] >= i
        BY <1>5, <2>1, <4>1 DEF Ahead
      <4>3. f[depth] \in 1..bus_size /\ i > bus_size
        BY <2>1, <2>2, <2>6 DEF Buses, Return
      <4>4. QED
        BY <2>1, <4>2, <4>3
    <3>2. depth # 1
      <4>1. PICK f \in Assignments : TRUE
        BY <1>5
      <4>2. depth = 1 => SamePrefix(f, chosen, depth - 1)
        BY DEF SamePrefix
      <4>3. QED
        BY <3>1, <4>2
    <3>3. chosen' = AdvancedTo(chosen, depth - 1) /\ new_match' = TRUE /\ pc' = "loop"
      BY <1>5, <2>6, <3>2 DEF Return
    <3> DEFINE n == depth - 1
    <3>4. /\ n \in 1..depth
          /\ \A e \in 1..n : e \in 1..(n - 1) \/ e = n
      BY <2>1, <3>2
    <3>5. \A f \in Assignments : SamePrefix(f, chosen, n - 1) => f[n] # chosen[n]
      <4> SUFFICES ASSUME NEW f \in Assignments, SamePrefix(f, chosen, n - 1), f[n] = chosen[n]
                   PROVE  FALSE
        OBVIOUS
      <4>1. SamePrefix(f, chosen, n)
        BY <3>4 DEF SamePrefix
      <4>2. QED
        BY <3>1, <4>1
    <3> HIDE DEF n
    <3>6. Ahead'
      BY <2>4, <3>3, <3>4, <3>5 DEF n
    <3>7. QED
      BY <1>1, <1>5, <3>3, <3>6 DEF Searching
  <2>7. CASE Done \/ UNCHANGED vars
    <3>1. chosen' = chosen /\ new_match' = new_match /\ pc' = pc
      BY <2>7 DEF Done, vars
    <3>2. Ahead'
      BY <1>1, <1>5, <3>1 DEF Ahead, SamePrefix, depth
    <3>3. QED
      BY <1>1, <1>5, <3>1, <3>2 DEF Searching
  <2>8. QED
    BY <1>5, <2>3, <2>5, <2>6, <2>7 DEF Next
<1>6. QED
  BY <1>2, <1>3, <1>4, <1>5 DEF Searching

\* If some assignment fits the quota, all the sizes one of them pairs are recorded,
\* so what is pruned after the first leaves every bus a partner.
THEOREM WholeRecorded ==
    ASSUME NoWrap PROVE Spec => []OneRecorded
<1>1. Searching => OneRecorded
  BY DEF Searching, Whole, OneRecorded
<1>2. Init => Path /\ Searching
  BY PathInit, SearchingInit
<1>3. Path /\ Searching /\ [Next]_vars => (Path /\ Searching)'
  BY PathStep, SearchingStep
<1>4. QED
  BY <1>1, <1>2, <1>3, PTL DEF Spec
================================================================================
