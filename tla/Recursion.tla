-------------------------------- MODULE Recursion -------------------------------
(***************************************************************************)
(* Induction and recursion over data, without operators as parameters: a   *)
(* set of counterexamples has a least element; a recursive definition has  *)
(* a solution when every argument refers to earlier ones only, be they     *)
(* numbers or the predecessors in a graph without loops; and a sequence of *)
(* sequences is joined one after the other.                                *)
(***************************************************************************)
EXTENDS Integers, FiniteSets, SequenceTheorems, FiniteSetTheorems, WellFoundedInduction, TLAPS

Seqs == INSTANCE SequencesExt

\* A set of naturals has a least element.
LEMMA NatLeast ==
    ASSUME NEW S \in SUBSET Nat, S # {}
    PROVE  \E m \in S : \A n \in S : m <= n
<1> DEFINE R == OpToRel(<, Nat)
<1>1. IsWellFoundedOn(R, Nat)
  BY NatLessThanWellFounded, Zenon
<1> HIDE DEF R
<1>2. PICK m \in S : \A n \in S : ~(<<n, m>> \in R)
  BY <1>1, WFMin
<1>3. \A i, j \in Nat : i < j => <<i, j>> \in R
  BY DEF R, OpToRel
<1>4. \A n \in S : ~(n < m)
  BY <1>2, <1>3
<1>5. \A n \in S : m <= n
  BY <1>4
<1>6. QED
  BY <1>5

\* What holds at 0 and passes from n to n + 1 holds everywhere.
LEMMA NatInduct ==
    ASSUME NEW S, 0 \in S, \A n \in Nat : n \in S => n + 1 \in S
    PROVE  \A n \in Nat : n \in S
<1> DEFINE T == {n \in Nat : n \notin S}
<1> SUFFICES ASSUME T # {} PROVE FALSE
  OBVIOUS
<1>1. PICK m \in T : \A n \in T : m <= n
  <2>1. T \in SUBSET Nat
    OBVIOUS
  <2> HIDE DEF T
  <2>2. QED
    BY <2>1, NatLeast
<1>2. m # 0 /\ m \in Nat
  OBVIOUS
<1>3. m - 1 \in Nat /\ ~(m <= m - 1) /\ (m - 1) + 1 = m
  BY <1>2
<1>4. m - 1 \in S
  BY <1>1, <1>3
<1>5. QED
  BY <1>3, <1>4

\* The nodes X read others through fi: no set of them is without one that reads
\* none of the set, so there is no loop.
Founded(X, fi) ==
    /\ \A x \in X : \A i \in DOMAIN fi[x] : fi[x][i] \in X
    /\ \A S \in SUBSET X : S # {} => \E x \in S : \A i \in DOMAIN fi[x] : fi[x][i] \notin S

\* f gives every node of D what step makes of the values it reads.
Obeys(f, D, fi, step) ==
    \A x \in D : f[x] = step[<<x, [i \in DOMAIN fi[x] |-> f[fi[x][i]]]>>]

\* Step takes values in V to values in V.
StaysIn(X, fi, V, step) ==
    \A x \in X : \A g \in [DOMAIN fi[x] -> V] : step[<<x, g>>] \in V

\* Two such functions agree where both are.
LEMMA SolutionUnique ==
    ASSUME NEW X, NEW fi, Founded(X, fi), NEW step, NEW f, NEW g,
           NEW D \in SUBSET X, NEW E \in SUBSET X,
           \A x \in D : \A i \in DOMAIN fi[x] : fi[x][i] \in D,
           \A x \in E : \A i \in DOMAIN fi[x] : fi[x][i] \in E,
           Obeys(f, D, fi, step), Obeys(g, E, fi, step)
    PROVE  \A x \in D \cap E : f[x] = g[x]
<1> DEFINE S == {x \in D \cap E : f[x] # g[x]}
<1> SUFFICES ASSUME S # {} PROVE FALSE
  OBVIOUS
<1>1. PICK x \in S : \A i \in DOMAIN fi[x] : fi[x][i] \notin S
  <2>1. S \in SUBSET X
    OBVIOUS
  <2> HIDE DEF S
  <2>2. QED
    BY <2>1 DEF Founded
<1>2. x \in D /\ x \in E /\ f[x] # g[x]
  OBVIOUS
<1>3. \A i \in DOMAIN fi[x] : f[fi[x][i]] = g[fi[x][i]]
  BY <1>1, <1>2
<1>4. [i \in DOMAIN fi[x] |-> f[fi[x][i]]] = [i \in DOMAIN fi[x] |-> g[fi[x][i]]]
  BY <1>3
<1>5. QED
  BY <1>2, <1>4 DEF Obeys

\* And there is one, whatever a node reads.
THEOREM SolutionExists ==
    ASSUME NEW X, NEW fi, Founded(X, fi), NEW V, NEW step, StaysIn(X, fi, V, step)
    PROVE  \E f \in [X -> V] : Obeys(f, X, fi, step)
<1> DEFINE Part(D, f) == /\ D \in SUBSET X
                         /\ \A x \in D : \A i \in DOMAIN fi[x] : fi[x][i] \in D
                         /\ Obeys(f, D, fi, step)
                         /\ \A x \in D : f[x] \in V
           Has(x, v) == \E D, f : Part(D, f) /\ x \in D /\ f[x] = v
           G == {x \in X : \E v \in V : Has(x, v)}
           h == [x \in X |-> CHOOSE v \in V : Has(x, v)]
<1>1. ASSUME NEW D, NEW f, Part(D, f), NEW x \in D PROVE x \in G /\ h[x] = f[x]
  <2>1. x \in X /\ f[x] \in V /\ Has(x, f[x])
    BY <1>1
  <2>2. ASSUME NEW v \in V, Has(x, v) PROVE v = f[x]
    <3>1. PICK E, g : Part(E, g) /\ x \in E /\ g[x] = v
      BY <2>2
    <3>2. \A y \in D \cap E : f[y] = g[y]
      BY <1>1, <3>1, SolutionUnique
    <3>3. QED
      BY <3>1, <3>2
  <2> HIDE DEF Has
  <2>3. (CHOOSE v \in V : Has(x, v)) = f[x]
    BY <2>1, <2>2
  <2>4. QED
    BY <2>1, <2>3
<1>2. ASSUME NEW x \in G PROVE h[x] \in V /\ Has(x, h[x])
  <2> HIDE DEF Has
  <2>1. QED
    OBVIOUS
<1>3. ASSUME NEW x \in G
      PROVE  /\ \A i \in DOMAIN fi[x] : fi[x][i] \in G
             /\ h[x] = step[<<x, [i \in DOMAIN fi[x] |-> h[fi[x][i]]]>>]
  <2>1. PICK D, f : Part(D, f) /\ x \in D
    OBVIOUS
  <2>2. \A i \in DOMAIN fi[x] : fi[x][i] \in D
    BY <2>1
  <2>3. f[x] = step[<<x, [i \in DOMAIN fi[x] |-> f[fi[x][i]]]>>]
    BY <2>1 DEF Obeys
  <2> HIDE DEF Part, G, h
  <2>4. h[x] = f[x] /\ \A i \in DOMAIN fi[x] : h[fi[x][i]] = f[fi[x][i]] /\ fi[x][i] \in G
    BY <1>1, <2>1, <2>2
  <2>5. [i \in DOMAIN fi[x] |-> h[fi[x][i]]] = [i \in DOMAIN fi[x] |-> f[fi[x][i]]]
    BY <2>4
  <2>6. QED
    BY <2>3, <2>4, <2>5
<1>4. G \in SUBSET X
  OBVIOUS
<1> HIDE DEF h, Has
<1>5. Part(G, h)
  <2> HIDE DEF G
  <2>1. Obeys(h, G, fi, step)
    BY <1>3 DEF Obeys
  <2>2. QED
    BY <1>2, <1>3, <1>4, <2>1
<1>6. X \subseteq G
  <2> DEFINE S == X \ G
  <2> SUFFICES ASSUME S # {} PROVE FALSE
    OBVIOUS
  <2>1. PICK x \in S : \A i \in DOMAIN fi[x] : fi[x][i] \notin S
    <3>1. S \in SUBSET X
      OBVIOUS
    <3> HIDE DEF S
    <3>2. QED
      BY <3>1 DEF Founded
  <2>2. x \in X /\ x \notin G /\ \A i \in DOMAIN fi[x] : fi[x][i] \in G
    BY <2>1 DEF Founded
  <2> DEFINE w == step[<<x, [i \in DOMAIN fi[x] |-> h[fi[x][i]]]>>]
             k == [y \in G \cup {x} |-> IF y = x THEN w ELSE h[y]]
  <2>3. w \in V
    <3> DEFINE g == [i \in DOMAIN fi[x] |-> h[fi[x][i]]]
    <3>1. g \in [DOMAIN fi[x] -> V]
      BY <1>2, <2>2
    <3> HIDE DEF g
    <3>2. step[<<x, g>>] \in V
      BY <2>2, <3>1 DEF StaysIn
    <3>3. QED
      BY <3>2 DEF g
  <2> HIDE DEF G
  <2>4. k[x] = w /\ \A y \in G : k[y] = h[y]
    <3> HIDE DEF w
    <3>1. QED
      BY <2>2
  <2> HIDE DEF k
  <2>5. \A y \in G \cup {x} : \A i \in DOMAIN fi[y] : fi[y][i] \in G
    BY <1>3, <2>2
  <2>6. ASSUME NEW y \in G \cup {x}
        PROVE  k[y] = step[<<y, [i \in DOMAIN fi[y] |-> k[fi[y][i]]]>>]
    <3>1. [i \in DOMAIN fi[y] |-> k[fi[y][i]]] = [i \in DOMAIN fi[y] |-> h[fi[y][i]]]
      BY <2>4, <2>5
    <3>2. CASE y = x
      BY <2>4, <3>1, <3>2 DEF w
    <3>3. CASE y \in G
      BY <1>3, <2>4, <3>1, <3>3
    <3>4. QED
      BY <3>2, <3>3
  <2>7. Part(G \cup {x}, k)
    <3>1. Obeys(k, G \cup {x}, fi, step)
      BY <2>6 DEF Obeys
    <3>2. \A y \in G \cup {x} : k[y] \in V
      BY <1>2, <2>3, <2>4
    <3>3. G \cup {x} \in SUBSET X
      BY <1>4, <2>2
    <3>4. QED
      BY <2>5, <3>1, <3>2, <3>3
  <2>8. x \in G
    BY <1>1, <2>7
  <2>9. QED
    BY <2>2, <2>8
<1>7. h \in [X -> V]
  BY <1>2, <1>6 DEF h
<1>8. Obeys(h, X, fi, step)
  <2>1. G = X
    BY <1>6
  <2> HIDE DEF G
  <2>2. QED
    BY <1>5, <2>1
<1>9. QED
  BY <1>7, <1>8

\* The elements of X reach the set of first ones by stepping back.
Grounded(X, back) ==
    /\ DOMAIN back \subseteq X
    /\ \A x \in DOMAIN back : back[x] \in X
    /\ \A S \in SUBSET X : S # {} => \E x \in S : x \in DOMAIN back => back[x] \notin S

\* f follows the recursion: a start value where nothing is before, else a step
\* from the value before.
Recursive(f, X, back, start, step) ==
    \A x \in X : f[x] = IF x \in DOMAIN back THEN step[<<x, f[back[x]]>>] ELSE start[x]

\* A function does, with values in V when start and step have them there.
THEOREM RecursionExists ==
    ASSUME NEW X, NEW back, Grounded(X, back), NEW V, NEW start, NEW step,
           \A x \in X \ DOMAIN back : start[x] \in V,
           \A x \in DOMAIN back, v \in V : step[<<x, v>>] \in V
    PROVE  \E f \in [X -> V] : Recursive(f, X, back, start, step)
<1> DEFINE fi == [x \in X |-> [i \in IF x \in DOMAIN back THEN {1} ELSE {} |-> back[x]]]
           Args == UNION {{<<x, g>> : g \in [DOMAIN fi[x] -> V]} : x \in X}
           all == [a \in Args |-> IF a[1] \in DOMAIN back THEN step[<<a[1], a[2][1]>>]
                                                        ELSE start[a[1]]]
<1>1. ASSUME NEW x \in X
      PROVE  /\ DOMAIN fi[x] = IF x \in DOMAIN back THEN {1} ELSE {}
             /\ \A i \in DOMAIN fi[x] : fi[x][i] = back[x]
  OBVIOUS
<1> HIDE DEF fi
<1>2. ASSUME NEW x \in X, NEW g \in [DOMAIN fi[x] -> V]
      PROVE  all[<<x, g>>] = IF x \in DOMAIN back THEN step[<<x, g[1]>>] ELSE start[x]
  <2>1. <<x, g>> \in Args
    OBVIOUS
  <2> HIDE DEF Args
  <2>2. QED
    BY <2>1
<1> HIDE DEF all
<1>3. Founded(X, fi)
  <2>1. \A x \in X : \A i \in DOMAIN fi[x] : fi[x][i] \in X
    BY <1>1 DEF Grounded
  <2>2. ASSUME NEW S \in SUBSET X, S # {}
        PROVE  \E x \in S : \A i \in DOMAIN fi[x] : fi[x][i] \notin S
    <3>1. PICK x \in S : x \in DOMAIN back => back[x] \notin S
      BY <2>2 DEF Grounded
    <3>2. QED
      BY <1>1, <3>1
  <2>3. QED
    BY <2>1, <2>2 DEF Founded
<1>4. StaysIn(X, fi, V, all)
  <2>1. ASSUME NEW x \in X, NEW g \in [DOMAIN fi[x] -> V] PROVE all[<<x, g>>] \in V
    <3>1. x \in DOMAIN back => g[1] \in V
      BY <1>1
    <3>2. QED
      BY <1>2, <3>1
  <2>2. QED
    BY <2>1 DEF StaysIn
<1>5. PICK f \in [X -> V] : Obeys(f, X, fi, all)
  BY <1>3, <1>4, SolutionExists
<1>6. ASSUME NEW x \in X
      PROVE  f[x] = IF x \in DOMAIN back THEN step[<<x, f[back[x]]>>] ELSE start[x]
  <2> DEFINE g == [i \in DOMAIN fi[x] |-> f[fi[x][i]]]
  <2>1. g \in [DOMAIN fi[x] -> V]
    BY <1>3 DEF Founded
  <2>2. x \in DOMAIN back => g[1] = f[back[x]]
    BY <1>1
  <2>3. f[x] = all[<<x, g>>]
    BY <1>5 DEF Obeys
  <2> HIDE DEF g
  <2>4. QED
    BY <1>2, <2>1, <2>2, <2>3
<1>7. QED
  BY <1>6 DEF Recursive

\* Steps that bring a rank down are grounded.
LEMMA RankGrounded ==
    ASSUME NEW X, NEW back, DOMAIN back \subseteq X, NEW rank,
           \A x \in X : rank[x] \in Nat,
           \A x \in DOMAIN back : back[x] \in X /\ rank[back[x]] < rank[x]
    PROVE  Grounded(X, back)
<1> SUFFICES ASSUME NEW S \in SUBSET X, S # {}
             PROVE  \E x \in S : x \in DOMAIN back => back[x] \notin S
  BY DEF Grounded
<1> DEFINE R == {rank[x] : x \in S}
<1>1. R \in SUBSET Nat /\ R # {}
  OBVIOUS
<1> HIDE DEF R
<1>2. PICK m \in R : \A n \in R : m <= n
  BY <1>1, NatLeast
<1>3. PICK x \in S : rank[x] = m
  BY <1>2 DEF R
<1>4. ASSUME x \in DOMAIN back, back[x] \in S PROVE FALSE
  <2>1. rank[back[x]] \in R /\ rank[back[x]] < m
    BY <1>3, <1>4 DEF R
  <2>2. m <= rank[back[x]] /\ m \in Nat /\ rank[back[x]] \in Nat
    BY <1>1, <1>2, <2>1
  <2>3. QED
    BY <2>1, <2>2
<1>5. QED
  BY <1>4

\* A recursion over the naturals.
Stepping(V, step) == \A n \in Nat, v \in V : step[<<n, v>>] \in V
Recurrence(f, base, step) ==
    f[0] = base /\ \A n \in Nat \ {0} : f[n] = step[<<n, f[n - 1]>>]

\* It has a solution.
LEMMA NatRecursion ==
    ASSUME NEW V, NEW base \in V, NEW step, Stepping(V, step)
    PROVE  \E f \in [Nat -> V] : Recurrence(f, base, step)
<1> DEFINE back == [n \in Nat \ {0} |-> n - 1]
           start == [n \in Nat |-> base]
           rank == [n \in Nat |-> n]
<1>1. Grounded(Nat, back)
  <2>1. /\ DOMAIN back \subseteq Nat
        /\ \A x \in Nat : rank[x] \in Nat
        /\ \A x \in DOMAIN back : back[x] \in Nat /\ rank[back[x]] < rank[x]
    OBVIOUS
  <2> HIDE DEF back, rank
  <2>2. QED
    BY <2>1, RankGrounded
<1>2. /\ DOMAIN back = Nat \ {0} /\ \A n \in Nat \ {0} : back[n] = n - 1
      /\ \A n \in Nat : start[n] = base
  OBVIOUS
<1> HIDE DEF back, start
<1>3. PICK f \in [Nat -> V] : Recursive(f, Nat, back, start, step)
  <2>1. /\ \A x \in Nat \ DOMAIN back : start[x] \in V
        /\ \A x \in DOMAIN back, v \in V : step[<<x, v>>] \in V
    BY <1>2 DEF Stepping
  <2>2. QED
    BY <1>1, <2>1, RecursionExists
<1>4. \A n \in Nat \ {0} : f[n] = step[<<n, f[n - 1]>>]
  BY <1>2, <1>3 DEF Recursive
<1>5. f[0] = base
  BY <1>2, <1>3 DEF Recursive
<1>6. QED
  BY <1>4, <1>5 DEF Recurrence

\* A recursion over the first naturals, and what passes along it.
SteppingTo(N, V, step) == \A n \in 1..N, v \in V : step[<<n, v>>] \in V
FollowsTo(f, N, base, step) ==
    f = [n \in 0..N |-> IF n = 0 THEN base ELSE step[<<n, f[n - 1]>>]]

LEMMA FiniteRecursion ==
    ASSUME NEW N \in Nat, NEW V, NEW base \in V, NEW step, SteppingTo(N, V, step)
    PROVE  \E f \in [0..N -> V] : FollowsTo(f, N, base, step)
<1> DEFINE all == [a \in Nat \X V |-> IF a[1] \in 1..N THEN step[a] ELSE a[2]]
<1>1. \A n \in Nat, v \in V : all[<<n, v>>] = IF n \in 1..N THEN step[<<n, v>>] ELSE v
  OBVIOUS
<1> HIDE DEF all
<1>2. Stepping(V, all)
  BY <1>1 DEF Stepping, SteppingTo
<1>3. PICK g \in [Nat -> V] : Recurrence(g, base, all)
  BY <1>2, NatRecursion
<1> DEFINE f == [n \in 0..N |-> g[n]]
<1>4. f \in [0..N -> V] /\ \A n \in 0..N : f[n] = g[n]
  OBVIOUS
<1> HIDE DEF f
<1>5. ASSUME NEW n \in 0..N PROVE f[n] = IF n = 0 THEN base ELSE step[<<n, f[n - 1]>>]
  <2>1. CASE n = 0
    BY <1>3, <1>4, <2>1 DEF Recurrence
  <2>2. CASE n # 0
    <3>1. n \in Nat \ {0} /\ n \in 1..N /\ n - 1 \in 0..N /\ n - 1 \in Nat
      BY <2>2
    <3>2. g[n] = all[<<n, g[n - 1]>>] /\ g[n - 1] \in V
      BY <1>3, <3>1 DEF Recurrence
    <3>3. g[n] = step[<<n, g[n - 1]>>]
      BY <1>1, <3>1, <3>2
    <3>4. QED
      BY <1>4, <2>2, <3>1, <3>3
  <2>3. QED
    BY <2>1, <2>2
<1>6. FollowsTo(f, N, base, step)
  BY <1>4, <1>5 DEF FollowsTo
<1>7. QED
  BY <1>4, <1>6

PassesAlong(N, V, f) == f[0] \in V /\ \A n \in 1..N : f[n - 1] \in V => f[n] \in V

LEMMA FiniteInduct ==
    ASSUME NEW N \in Nat, NEW V, NEW f, PassesAlong(N, V, f)
    PROVE  \A n \in 0..N : f[n] \in V
<1> DEFINE S == {n \in Nat : n \in 0..N => f[n] \in V}
<1>1. 0 \in S
  BY DEF PassesAlong
<1>2. ASSUME NEW n \in Nat, n \in S PROVE n + 1 \in S
  <2>1. n + 1 \in 0..N => n + 1 \in 1..N /\ (n + 1) - 1 = n /\ n \in 0..N
    OBVIOUS
  <2>2. QED
    BY <1>2, <2>1 DEF PassesAlong
<1> HIDE DEF S
<1>3. \A n \in Nat : n \in S
  BY <1>1, <1>2, NatInduct
<1>4. QED
  BY <1>3 DEF S

\* A sequence of sequences is joined one after the other.
Joins(f, seqs, T) ==
    /\ f[0] = <<>>
    /\ \A n \in 0..Len(seqs) : f[n] \in Seq(T)
    /\ \A n \in 1..Len(seqs) : f[n] = f[n - 1] \o seqs[n]
    /\ Seqs!FlattenSeq(seqs) = f[Len(seqs)]

\* FlattenSeq does that, by recursion on the number of sequences.
LEMMA Joined ==
    ASSUME NEW T, NEW seqs \in Seq(Seq(T))
    PROVE  \E f : Joins(f, seqs, T)
<1> DEFINE N == Len(seqs)
           Step == [a \in Nat \X Seq(T) |->
                       IF a[1] \in 1..N THEN a[2] \o seqs[a[1]] ELSE a[2]]
<1>1. N \in Nat /\ \A n \in 1..N : seqs[n] \in Seq(T)
  OBVIOUS
<1> HIDE DEF N
<1>2. Stepping(Seq(T), Step)
  <2>1. ASSUME NEW n \in Nat, NEW v \in Seq(T) PROVE Step[<<n, v>>] \in Seq(T)
    <3>1. CASE n \in 1..N
      <4>1. Step[<<n, v>>] = v \o seqs[n]
        BY <3>1
      <4>2. QED
        BY <1>1, <3>1, <4>1, ConcatProperties
    <3>2. CASE n \notin 1..N
      BY <3>2
    <3>3. QED
      BY <3>1, <3>2
  <2>2. QED
    BY <2>1 DEF Stepping
<1>3. ASSUME NEW n \in 1..N, NEW v \in Seq(T) PROVE Step[<<n, v>>] = v \o seqs[n]
  <2>1. n \in Nat
    BY <1>1
  <2>2. QED
    BY <2>1
<1> HIDE DEF Step
<1>4. PICK g \in [Nat -> Seq(T)] : Recurrence(g, <<>>, Step)
  <2>1. <<>> \in Seq(T)
    OBVIOUS
  <2>2. QED
    BY <1>2, <2>1, NatRecursion
<1>5. g[0] = <<>> /\ \A n \in 1..N : g[n] = g[n - 1] \o seqs[n]
  <2>1. \A n \in 1..N : n \in Nat \ {0} /\ n - 1 \in Nat /\ g[n - 1] \in Seq(T)
    BY <1>1
  <2>2. QED
    BY <1>3, <1>4, <2>1 DEF Recurrence
<1>6. Seqs!FlattenSeq(seqs) = g[N]
  <2>1. CASE N = 0
    <3>1. seqs = <<>>
      BY <2>1 DEF N
    <3>2. QED
      BY <1>5, <2>1, <3>1 DEF Seqs!FlattenSeq
  <2>2. CASE N # 0
    <3> DEFINE Flat(h) == h = [i \in 1..N |-> IF i = 1 THEN seqs[i] ELSE h[i - 1] \o seqs[i]]
               h == [i \in 1..N |-> g[i]]
    <3>1. Flat(h)
      <4>1. ASSUME NEW i \in 1..N
            PROVE  h[i] = IF i = 1 THEN seqs[i] ELSE h[i - 1] \o seqs[i]
        <5>1. CASE i = 1
          <6>1. g[1] = <<>> \o seqs[1]
            <7>1. 1 \in 1..N /\ 1 - 1 = 0
              BY <5>1
            <7>2. QED
              BY <1>5, <7>1
          <6>2. QED
            BY <1>1, <5>1, <6>1, ConcatEmptySeq
        <5>2. CASE i # 1
          <6>1. i - 1 \in 1..N
            BY <1>1, <5>2
          <6>2. QED
            BY <1>5, <5>2, <6>1
        <5>3. QED
          BY <5>1, <5>2
      <4>2. QED
        BY <4>1
    <3>2. ASSUME NEW k, Flat(k) PROVE k = h
      <4> DEFINE E == {n \in Nat : n \in 1..N => k[n] = h[n]}
      <4>1. ASSUME NEW n \in Nat, n \in E PROVE n + 1 \in E
        <5> SUFFICES ASSUME n + 1 \in 1..N PROVE k[n + 1] = h[n + 1]
          OBVIOUS
        <5>1. /\ k[n + 1] = IF n + 1 = 1 THEN seqs[n + 1] ELSE k[(n + 1) - 1] \o seqs[n + 1]
              /\ h[n + 1] = IF n + 1 = 1 THEN seqs[n + 1] ELSE h[(n + 1) - 1] \o seqs[n + 1]
          BY <3>1, <3>2
        <5> HIDE DEF h
        <5>2. n + 1 # 1 => n \in 1..N
          BY <1>1
        <5>3. (n + 1) - 1 = n
          OBVIOUS
        <5>4. QED
          BY <4>1, <5>1, <5>2, <5>3
      <4>2. 0 \in E
        OBVIOUS
      <4> HIDE DEF E
      <4>3. \A n \in Nat : n \in E
        BY <4>1, <4>2, NatInduct
      <4>4. \A n \in 1..N : k[n] = h[n]
        <5> HIDE DEF h
        <5>1. QED
          BY <1>1, <4>3 DEF E
      <4>5. QED
        BY <3>1, <3>2, <4>4
    <3> HIDE DEF h, Flat
    <3>3. (CHOOSE k : Flat(k)) = h
      BY <3>1, <3>2
    <3>4. Seqs!FlattenSeq(seqs) = (CHOOSE k : Flat(k))[N]
      BY <2>2 DEF Seqs!FlattenSeq, Flat, N
    <3>5. h[N] = g[N]
      BY <1>1, <2>2 DEF h
    <3>6. QED
      BY <3>3, <3>4, <3>5
  <2>3. QED
    BY <2>1, <2>2
<1>7. Joins(g, seqs, T)
  <2>1. \A n \in 0..N : g[n] \in Seq(T)
    BY <1>1, <1>4
  <2>2. QED
    BY <1>5, <1>6, <2>1 DEF Joins, N
<1>8. QED
  BY <1>7
================================================================================
