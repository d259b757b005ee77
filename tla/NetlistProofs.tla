----------------------------- MODULE NetlistProofs -----------------------------
(***************************************************************************)
(* The netlist keeps its edges and its function: through parsing, whenever *)
(* the file is one that Netlist assumes, _fi and _fo describe the same     *)
(* graph without loops; and no step of Simplification changes what an      *)
(* output computes.  The argument for the function: the nodes that carry 1 *)
(* are the only solution of the nodes' equations, since the graph has no   *)
(* loop; a step that skips or deletes a node turns a solution into one;    *)
(* the first is what the file's nets carry.                                *)
(***************************************************************************)
EXTENDS Netlist, Recursion

--------------------------------------------------------------------------------
(* How often the members of a set occur in a sequence.                     *)

CountTo(s, k, P) == Cardinality({i \in 1..k : s[i] \in P})
Count(s, P) == CountTo(s, Len(s), P)

\* A count is a number of positions,
LEMMA CountNat ==
    ASSUME NEW s, NEW k \in Nat, NEW P
    PROVE  CountTo(s, k, P) \in Nat /\ CountTo(s, k, P) <= k
<1> DEFINE I == {i \in 1..k : s[i] \in P}
<1>1. IsFiniteSet(1..k) /\ Cardinality(1..k) = k
  BY FS_Interval
<1>2. I \subseteq 1..k
  OBVIOUS
<1> HIDE DEF I
<1>3. IsFiniteSet(I) /\ Cardinality(I) <= k
  BY <1>1, <1>2, FS_Subset
<1>4. QED
  BY <1>3, FS_CardinalityType DEF I, CountTo

\* none of them at first,
LEMMA CountZero == \A s, P : CountTo(s, 0, P) = 0
<1>1. ASSUME NEW s, NEW P PROVE CountTo(s, 0, P) = 0
  <2>1. {i \in 1..0 : s[i] \in P} = {}
    OBVIOUS
  <2>2. QED
    BY <2>1, FS_EmptySet DEF CountTo
<1>2. QED
  BY <1>1

\* and one more, or none, with every position.
LEMMA CountNext ==
    ASSUME NEW s, NEW k \in Nat, NEW P
    PROVE  CountTo(s, k + 1, P) = CountTo(s, k, P) + IF s[k + 1] \in P THEN 1 ELSE 0
<1> DEFINE I(n) == {i \in 1..n : s[i] \in P}
<1>1. IsFiniteSet(I(k))
  <2>1. IsFiniteSet(1..k) /\ I(k) \subseteq 1..k
    BY FS_Interval
  <2> HIDE DEF I
  <2>2. QED
    BY <2>1, FS_Subset
<1>2. I(k + 1) = IF s[k + 1] \in P THEN I(k) \cup {k + 1} ELSE I(k)
  OBVIOUS
<1>3. k + 1 \notin I(k)
  OBVIOUS
<1> HIDE DEF I
<1>4. Cardinality(I(k)) \in Nat
  BY <1>1, FS_CardinalityType
<1>5. Cardinality(I(k + 1)) = Cardinality(I(k)) + IF s[k + 1] \in P THEN 1 ELSE 0
  <2>1. CASE s[k + 1] \in P
    BY <1>1, <1>2, <1>3, <2>1, FS_AddElement
  <2>2. CASE s[k + 1] \notin P
    BY <1>2, <1>4, <2>2
  <2>3. QED
    BY <2>1, <2>2
<1>6. QED
  BY <1>5 DEF I, CountTo

\* The positions that count are all that matters.
LEMMA CountSame ==
    ASSUME NEW s, NEW t, NEW k, NEW P, NEW Q, \A i \in 1..k : s[i] \in P <=> t[i] \in Q
    PROVE  CountTo(s, k, P) = CountTo(t, k, Q)
<1>1. {i \in 1..k : s[i] \in P} = {i \in 1..k : t[i] \in Q}
  OBVIOUS
<1>2. QED
  BY <1>1 DEF CountTo

\* Nothing counts, or something does.
LEMMA CountSome ==
    ASSUME NEW s, NEW k \in Nat, NEW P
    PROVE  CountTo(s, k, P) = 0 <=> \A i \in 1..k : s[i] \notin P
<1> DEFINE I == {i \in 1..k : s[i] \in P}
<1>1. IsFiniteSet(I)
  <2>1. IsFiniteSet(1..k) /\ I \subseteq 1..k
    BY FS_Interval
  <2> HIDE DEF I
  <2>2. QED
    BY <2>1, FS_Subset
<1>2. I = {} <=> \A i \in 1..k : s[i] \notin P
  OBVIOUS
<1> HIDE DEF I
<1>3. Cardinality(I) = 0 <=> I = {}
  BY <1>1, FS_EmptySet
<1>4. QED
  BY <1>2, <1>3 DEF I, CountTo

\* One member and the others.
LEMMA CountSplit ==
    ASSUME NEW s, NEW k \in Nat, NEW P, NEW x \in P
    PROVE  CountTo(s, k, P) = CountTo(s, k, P \ {x}) + CountTo(s, k, {x})
<1> DEFINE Split(n) == CountTo(s, n, P) = CountTo(s, n, P \ {x}) + CountTo(s, n, {x})
           S == {n \in Nat : Split(n)}
<1>1. 0 \in S
  <2>1. CountTo(s, 0, P) = 0 /\ CountTo(s, 0, {x}) = 0 /\ CountTo(s, 0, P \ {x}) = 0
    BY CountZero
  <2>2. QED
    BY <2>1
<1>2. ASSUME NEW n \in Nat, n \in S PROVE n + 1 \in S
  <2>1. /\ CountTo(s, n, P) \in Nat
        /\ CountTo(s, n + 1, P) = CountTo(s, n, P) + IF s[n + 1] \in P THEN 1 ELSE 0
    BY CountNat, CountNext
  <2>2. /\ CountTo(s, n, {x}) \in Nat
        /\ CountTo(s, n + 1, {x}) = CountTo(s, n, {x}) + IF s[n + 1] \in {x} THEN 1 ELSE 0
    BY CountNat, CountNext
  <2>3. /\ CountTo(s, n, P \ {x}) \in Nat
        /\ CountTo(s, n + 1, P \ {x})
              = CountTo(s, n, P \ {x}) + IF s[n + 1] \in P \ {x} THEN 1 ELSE 0
    BY CountNat, CountNext
  <2>4. Split(n)
    BY <1>2
  <2>5. QED
    BY <2>1, <2>2, <2>3, <2>4
<1> HIDE DEF S
<1>3. \A n \in Nat : n \in S
  BY <1>1, <1>2, NatInduct
<1>4. QED
  BY <1>3 DEF S

\* A sequence and then another.
LEMMA CountConcat ==
    ASSUME NEW T, NEW s \in Seq(T), NEW t \in Seq(T), NEW k \in 0..Len(t), NEW P
    PROVE  CountTo(s \o t, Len(s) + k, P) = Count(s, P) + CountTo(t, k, P)
<1> DEFINE L == Len(s)
           S == {n \in Nat : n <= Len(t)
                    => CountTo(s \o t, L + n, P) = Count(s, P) + CountTo(t, n, P)}
<1>1. L \in Nat /\ Len(t) \in Nat
  OBVIOUS
<1> DEFINE u == s \o t
<1>a. \A i \in 1..L + Len(t) : u[i] = IF i <= L THEN s[i] ELSE t[i - L]
  BY ConcatProperties
<1>2. 0 \in S
  <2>1. CountTo(u, L, P) = CountTo(s, L, P)
    <3>1. \A i \in 1..L : u[i] \in P <=> s[i] \in P
      BY <1>1, <1>a
    <3> HIDE DEF u
    <3>2. QED
      BY <3>1, CountSame
  <2>2. CountTo(t, 0, P) = 0 /\ CountTo(s, L, P) \in Nat
    BY <1>1, CountZero, CountNat
  <2>3. L + 0 = L
    BY <1>1
  <2>4. QED
    BY <2>1, <2>2, <2>3 DEF Count
<1>3. ASSUME NEW n \in Nat, n \in S PROVE n + 1 \in S
  <2> SUFFICES ASSUME n + 1 <= Len(t)
               PROVE  CountTo(u, L + (n + 1), P) = Count(s, P) + CountTo(t, n + 1, P)
    OBVIOUS
  <2>1. CountTo(u, L + n, P) = Count(s, P) + CountTo(t, n, P)
    BY <1>1, <1>3
  <2>2. u[(L + n) + 1] = t[n + 1]
    <3>1. (L + n) + 1 \in 1..L + Len(t) /\ ~((L + n) + 1 <= L) /\ ((L + n) + 1) - L = n + 1
      BY <1>1
    <3> HIDE DEF u, L
    <3>2. QED
      BY <1>a, <3>1
  <2> HIDE DEF S, L, u
  <2>3. L + n \in Nat /\ L + (n + 1) = (L + n) + 1
    BY <1>1
  <2>4. CountTo(u, (L + n) + 1, P)
            = CountTo(u, L + n, P) + IF u[(L + n) + 1] \in P THEN 1 ELSE 0
    BY <2>3, CountNext
  <2>5. /\ CountTo(t, n, P) \in Nat
        /\ CountTo(t, n + 1, P) = CountTo(t, n, P) + IF t[n + 1] \in P THEN 1 ELSE 0
    BY CountNat, CountNext
  <2>6. CountTo(s, L, P) \in Nat
    BY <1>1, CountNat
  <2>7. QED
    BY <2>1, <2>2, <2>3, <2>4, <2>5, <2>6 DEF Count, L
<1> HIDE DEF S
<1>4. \A n \in Nat : n \in S
  BY <1>2, <1>3, NatInduct
<1>5. k \in Nat /\ k <= Len(t)
  BY <1>1
<1>6. QED
  BY <1>4, <1>5 DEF S, L

\* Two sequences, one after the other: the counts add up.
LEMMA CountJoined ==
    ASSUME NEW T, NEW s \in Seq(T), NEW t \in Seq(T), NEW P
    PROVE  Count(s \o t, P) = Count(s, P) + Count(t, P)
<1>1. Len(t) \in 0..Len(t) /\ Len(s \o t) = Len(s) + Len(t)
  OBVIOUS
<1>2. CountTo(s \o t, Len(s) + Len(t), P) = Count(s, P) + CountTo(t, Len(t), P)
  BY <1>1, CountConcat
<1>3. QED
  BY <1>1, <1>2 DEF Count

\* A sequence of one element.
LEMMA CountOne ==
    ASSUME NEW x, NEW P
    PROVE  Count(<<x>>, P) = IF x \in P THEN 1 ELSE 0
<1> DEFINE s == <<x>>
<1>1. s[1] = x /\ Len(s) = 1 /\ 0 + 1 = 1
  OBVIOUS
<1> HIDE DEF s
<1>2. CountTo(s, 0, P) = 0
  BY CountZero
<1>3. CountTo(s, 0 + 1, P) = CountTo(s, 0, P) + IF s[0 + 1] \in P THEN 1 ELSE 0
  BY CountNext
<1>4. QED
  BY <1>1, <1>2, <1>3 DEF Count, s

\* One more element.
LEMMA CountAppend ==
    ASSUME NEW T, NEW s \in Seq(T), NEW e \in T, NEW P
    PROVE  Count(Append(s, e), P) = Count(s, P) + IF e \in P THEN 1 ELSE 0
<1>1. Append(s, e) = s \o <<e>> /\ <<e>> \in Seq(T)
  OBVIOUS
<1>2. Count(s \o <<e>>, P) = Count(s, P) + Count(<<e>>, P)
  BY <1>1, CountJoined
<1>3. QED
  BY <1>1, <1>2, CountOne

\* The same element, k times.
LEMMA CountTimes ==
    ASSUME NEW T, NEW n \in T, NEW k \in Nat, NEW P
    PROVE  /\ Times(n, k) \in Seq(T)
           /\ Len(Times(n, k)) = k
           /\ \A i \in 1..k : Times(n, k)[i] = n
           /\ Count(Times(n, k), P) = IF n \in P THEN k ELSE 0
<1> DEFINE t == Times(n, k)
<1>1. t \in Seq(T) /\ Len(t) = k /\ \A i \in 1..k : t[i] = n
  <2>1. t = [i \in 1..k |-> n]
    BY DEF Times
  <2>2. QED
    BY <2>1
<1> HIDE DEF t
<1>2. {i \in 1..k : t[i] \in P} = IF n \in P THEN 1..k ELSE {}
  BY <1>1
<1>3. Cardinality(1..k) = k /\ Cardinality({}) = 0
  BY FS_Interval, FS_EmptySet
<1>4. CountTo(t, k, P) = IF n \in P THEN k ELSE 0
  BY <1>2, <1>3 DEF CountTo
<1>5. QED
  BY <1>1, <1>4 DEF Count, t

\* What the model counts.
LEMMA Occurring ==
    ASSUME NEW T, NEW s \in Seq(T), NEW n
    PROVE  /\ Occurrences(s, n) = Count(s, {n})
           /\ Occurrences(s, n) \in Nat
           /\ Occurrences(s, n) <= Len(s)
           /\ Occurrences(s, n) = 0 <=> n \notin ToSet(s)
<1>1. DOMAIN s = 1..Len(s) /\ Len(s) \in Nat
  OBVIOUS
<1>2. {i \in DOMAIN s : s[i] = n} = {i \in 1..Len(s) : s[i] \in {n}}
  BY <1>1
<1>3. Occurrences(s, n) = CountTo(s, Len(s), {n})
  BY <1>2 DEF Occurrences, CountTo
<1>4. /\ CountTo(s, Len(s), {n}) \in Nat /\ CountTo(s, Len(s), {n}) <= Len(s)
  BY <1>1, CountNat
<1>5. CountTo(s, Len(s), {n}) = 0 <=> \A i \in 1..Len(s) : s[i] \notin {n}
  BY <1>1, CountSome
<1>6. n \notin ToSet(s) <=> \A i \in 1..Len(s) : s[i] \notin {n}
  BY <1>1 DEF ToSet
<1>7. QED
  BY <1>3, <1>4, <1>5, <1>6 DEF Count

--------------------------------------------------------------------------------
(* Sequences from which elements are taken.                                *)

\* Without keeps the elements one after the other.
Keeps(f, s, S, T) ==
    /\ f[0] = <<>>
    /\ \A n \in 0..Len(s) : f[n] \in Seq(T)
    /\ \A n \in 1..Len(s) : f[n] = IF s[n] \in S THEN f[n - 1] ELSE Append(f[n - 1], s[n])
    /\ Without(s, S) = f[Len(s)]

\* Without is such a sequence.
LEMMA Keeping ==
    ASSUME NEW T, NEW s \in Seq(T), NEW S
    PROVE  \E f : Keeps(f, s, S, T)
<1> DEFINE one == [i \in DOMAIN s |-> IF s[i] \in S THEN <<>> ELSE <<s[i]>>]
<1>1. DOMAIN s = 1..Len(s) /\ Len(s) \in Nat /\ \A i \in 1..Len(s) : s[i] \in T
  OBVIOUS
<1>2. one \in Seq(Seq(T)) /\ Len(one) = Len(s)
  <2>1. \A i \in 1..Len(s) : (IF s[i] \in S THEN <<>> ELSE <<s[i]>>) \in Seq(T)
    BY <1>1
  <2>2. one \in [1..Len(s) -> Seq(T)]
    BY <1>1, <2>1
  <2> HIDE DEF one
  <2>3. QED
    BY <1>1, <2>2
<1>3. \A n \in 1..Len(s) : one[n] = IF s[n] \in S THEN <<>> ELSE <<s[n]>>
  BY <1>1
<1>4. Without(s, S) = Seqs!FlattenSeq(one)
  BY DEF Without, FlattenSeq, Seqs!FlattenSeq
<1> HIDE DEF one
<1>5. PICK f : Joins(f, one, T)
  BY <1>2, Joined
<1>6. /\ f[0] = <<>> /\ \A n \in 0..Len(s) : f[n] \in Seq(T)
      /\ \A n \in 1..Len(s) : f[n] = f[n - 1] \o one[n]
      /\ Without(s, S) = f[Len(s)]
  BY <1>2, <1>4, <1>5 DEF Joins
<1>7. ASSUME NEW n \in 1..Len(s)
      PROVE  f[n] = IF s[n] \in S THEN f[n - 1] ELSE Append(f[n - 1], s[n])
  <2>1. n - 1 \in 0..Len(s) /\ s[n] \in T
    BY <1>1
  <2>2. PICK g : g = f[n - 1]
    OBVIOUS
  <2>3. PICK e : e = s[n]
    OBVIOUS
  <2>4. g \in Seq(T) /\ e \in T /\ f[n] = g \o one[n]
    BY <1>6, <2>1, <2>2, <2>3
  <2>5. g \o <<>> = g /\ g \o <<e>> = Append(g, e)
    BY <2>4
  <2>6. one[n] = IF e \in S THEN <<>> ELSE <<e>>
    BY <1>3, <2>3
  <2>7. f[n] = IF e \in S THEN g ELSE Append(g, e)
    BY <2>4, <2>5, <2>6
  <2>8. QED
    BY <2>2, <2>3, <2>7
<1>8. QED
  BY <1>6, <1>7 DEF Keeps

\* What is left counts as it did.
LEMMA WithoutCount ==
    ASSUME NEW T, NEW s \in Seq(T), NEW S, NEW P
    PROVE  Without(s, S) \in Seq(T) /\ Count(Without(s, S), P) = Count(s, P \ S)
<1>1. PICK f : Keeps(f, s, S, T)
  BY Keeping
<1>2. Len(s) \in Nat /\ \A i \in 1..Len(s) : s[i] \in T
  OBVIOUS
<1> DEFINE G == {n \in Nat : n <= Len(s) => Count(f[n], P) = CountTo(s, n, P \ S)}
<1>3. 0 \in G
  <2>1. f[0] = <<>> /\ Len(<<>>) = 0
    BY <1>1 DEF Keeps
  <2>2. Count(f[0], P) = 0 /\ CountTo(s, 0, P \ S) = 0
    BY <2>1, CountZero DEF Count
  <2>3. QED
    BY <2>2
<1>4. ASSUME NEW n \in Nat, n \in G PROVE n + 1 \in G
  <2> SUFFICES ASSUME n + 1 <= Len(s)
               PROVE  Count(f[n + 1], P) = CountTo(s, n + 1, P \ S)
    OBVIOUS
  <2>1. Count(f[n], P) = CountTo(s, n, P \ S)
    BY <1>2, <1>4
  <2>2. n + 1 \in 1..Len(s) /\ n \in 0..Len(s) /\ (n + 1) - 1 = n
    BY <1>2
  <2>3. f[n + 1] = IF s[n + 1] \in S THEN f[n] ELSE Append(f[n], s[n + 1])
    BY <1>1, <2>2 DEF Keeps
  <2>4. f[n] \in Seq(T) /\ s[n + 1] \in T
    BY <1>1, <1>2, <2>2 DEF Keeps
  <2>5. CountTo(s, n + 1, P \ S) = CountTo(s, n, P \ S) + IF s[n + 1] \in P \ S THEN 1 ELSE 0
    BY CountNext
  <2>6. Count(Append(f[n], s[n + 1]), P) = Count(f[n], P) + IF s[n + 1] \in P THEN 1 ELSE 0
    BY <2>4, CountAppend
  <2>7. CountTo(s, n, P \ S) \in Nat
    BY CountNat
  <2> HIDE DEF G
  <2>8. CASE s[n + 1] \in S
    BY <2>1, <2>3, <2>5, <2>7, <2>8
  <2>9. CASE s[n + 1] \notin S
    BY <2>1, <2>3, <2>5, <2>6, <2>9
  <2>10. QED
    BY <2>8, <2>9
<1> HIDE DEF G
<1>5. \A n \in Nat : n \in G
  BY <1>3, <1>4, NatInduct
<1>6. Count(f[Len(s)], P) = CountTo(s, Len(s), P \ S)
  <2>1. Len(s) \in G /\ Len(s) <= Len(s)
    BY <1>2, <1>5
  <2>2. QED
    BY <2>1 DEF G
<1>7. f[Len(s)] \in Seq(T) /\ Without(s, S) = f[Len(s)]
  BY <1>1, <1>2 DEF Keeps
<1>8. QED
  BY <1>6, <1>7 DEF Count

\* A part in front with nothing to take away stays where it is.
LEMMA WithoutPrefix ==
    ASSUME NEW T, NEW s \in Seq(T), NEW S, NEW k \in 0..Len(s),
           \A i \in 1..k : s[i] \notin S
    PROVE  k <= Len(Without(s, S)) /\ \A i \in 1..k : Without(s, S)[i] = s[i]
<1>1. PICK f : Keeps(f, s, S, T)
  BY Keeping
<1>2. Len(s) \in Nat /\ (\A i \in 1..Len(s) : s[i] \in T) /\ k \in Nat
  OBVIOUS
<1>3. ASSUME NEW n \in Nat, n + 1 <= Len(s)
      PROVE  /\ f[n] \in Seq(T) /\ s[n + 1] \in T
             /\ f[n + 1] = IF s[n + 1] \in S THEN f[n] ELSE Append(f[n], s[n + 1])
  <2>1. n + 1 \in 1..Len(s) /\ n \in 0..Len(s) /\ (n + 1) - 1 = n
    BY <1>2, <1>3
  <2>2. QED
    BY <1>1, <1>2, <2>1 DEF Keeps
<1> DEFINE A == {n \in Nat : n <= k => Len(f[n]) = n /\ \A i \in 1..n : f[n][i] = s[i]}
           B == {n \in Nat : k + n <= Len(s)
                    => k <= Len(f[k + n]) /\ \A i \in 1..k : f[k + n][i] = s[i]}
<1>4. 0 \in A
  BY <1>1 DEF Keeps
<1>5. ASSUME NEW n \in Nat, n \in A PROVE n + 1 \in A
  <2> SUFFICES ASSUME n + 1 <= k
               PROVE  Len(f[n + 1]) = n + 1 /\ \A i \in 1..(n + 1) : f[n + 1][i] = s[i]
    OBVIOUS
  <2>1. Len(f[n]) = n /\ \A i \in 1..n : f[n][i] = s[i]
    BY <1>2, <1>5
  <2>2. f[n] \in Seq(T) /\ s[n + 1] \in T /\ f[n + 1] = Append(f[n], s[n + 1])
    <3>1. n + 1 \in 1..k /\ n + 1 <= Len(s)
      BY <1>2
    <3>2. s[n + 1] \notin S
      BY <3>1
    <3> HIDE DEF A
    <3>3. QED
      BY <1>3, <3>1, <3>2
  <2> HIDE DEF A
  <2> DEFINE g == f[n]
             e == s[n + 1]
  <2>3. Len(Append(g, e)) = Len(g) + 1
        /\ \A i \in 1..(Len(g) + 1) : Append(g, e)[i] = IF i <= Len(g) THEN g[i] ELSE e
    <3>1. g \in Seq(T) /\ e \in T
      BY <2>2
    <3> HIDE DEF g, e
    <3>2. QED
      BY <3>1
  <2>4. Len(f[n + 1]) = n + 1
        /\ \A i \in 1..(n + 1) : f[n + 1][i] = IF i <= n THEN f[n][i] ELSE s[n + 1]
    BY <2>1, <2>2, <2>3
  <2>5. \A i \in 1..(n + 1) : i <= n => i \in 1..n
    OBVIOUS
  <2>6. \A i \in 1..(n + 1) : ~(i <= n) => i = n + 1
    OBVIOUS
  <2>7. QED
    BY <2>1, <2>4, <2>5, <2>6
<1> HIDE DEF A
<1>6. \A n \in Nat : n \in A
  BY <1>4, <1>5, NatInduct
<1>7. Len(f[k]) = k /\ \A i \in 1..k : f[k][i] = s[i]
  BY <1>2, <1>6 DEF A
<1>8. 0 \in B
  BY <1>2, <1>7
<1>9. ASSUME NEW n \in Nat, n \in B PROVE n + 1 \in B
  <2> SUFFICES ASSUME k + (n + 1) <= Len(s)
               PROVE  /\ k <= Len(f[k + (n + 1)])
                      /\ \A i \in 1..k : f[k + (n + 1)][i] = s[i]
    OBVIOUS
  <2>1. k + n \in Nat /\ k + (n + 1) = (k + n) + 1 /\ k + n <= Len(s) /\ (k + n) + 1 <= Len(s)
    BY <1>2
  <2>2. k <= Len(f[k + n]) /\ \A i \in 1..k : f[k + n][i] = s[i]
    BY <1>9, <2>1
  <2> HIDE DEF B
  <2>3. PICK m : m = k + n
    OBVIOUS
  <2>4. f[m] \in Seq(T) /\ s[m + 1] \in T
        /\ f[m + 1] = IF s[m + 1] \in S THEN f[m] ELSE Append(f[m], s[m + 1])
    BY <1>3, <2>1, <2>3
  <2>5. CASE s[m + 1] \in S
    BY <2>1, <2>2, <2>3, <2>4, <2>5
  <2>6. CASE s[m + 1] \notin S
    <3> DEFINE g == f[m]
               e == s[m + 1]
    <3>1. k <= Len(Append(g, e)) /\ \A i \in 1..k : Append(g, e)[i] = g[i]
      <4>1. g \in Seq(T) /\ e \in T /\ k <= Len(g)
        BY <2>2, <2>3, <2>4
      <4> HIDE DEF g, e
      <4>2. Len(g) \in Nat /\ Len(Append(g, e)) = Len(g) + 1
        BY <4>1
      <4>3. \A i \in 1..Len(g) : Append(g, e)[i] = g[i]
        BY <4>1
      <4>4. QED
        BY <1>2, <4>1, <4>2, <4>3
    <3>2. f[m + 1] = Append(g, e)
      BY <2>4, <2>6
    <3>3. QED
      BY <2>1, <2>2, <2>3, <3>1, <3>2
  <2>7. QED
    BY <2>5, <2>6
<1> HIDE DEF B
<1>10. \A n \in Nat : n \in B
  BY <1>8, <1>9, NatInduct
<1>11. PICK d \in Nat : k + d = Len(s)
  <2>1. Len(s) - k \in Nat /\ k + (Len(s) - k) = Len(s)
    BY <1>2
  <2>2. QED
    BY <2>1
<1>12. k <= Len(f[Len(s)]) /\ \A i \in 1..k : f[Len(s)][i] = s[i]
  BY <1>2, <1>10, <1>11 DEF B
<1>13. QED
  BY <1>1, <1>12 DEF Keeps

\* What is left of a sequence.
LEMMA WithoutSet ==
    ASSUME NEW T, NEW s \in Seq(T), NEW S
    PROVE  ToSet(Without(s, S)) = ToSet(s) \ S
<1>1. Without(s, S) \in Seq(T) /\ \A n : Count(Without(s, S), {n}) = Count(s, {n} \ S)
  <2>1. ASSUME NEW n
        PROVE  Without(s, S) \in Seq(T) /\ Count(Without(s, S), {n}) = Count(s, {n} \ S)
    BY WithoutCount
  <2>2. QED
    BY <2>1
<1>2. ASSUME NEW n PROVE n \in ToSet(Without(s, S)) <=> n \in ToSet(s) \ S
  <2>1. n \notin ToSet(s) <=> Count(s, {n}) = 0
    BY Occurring
  <2>2. n \notin ToSet(Without(s, S)) <=> Count(Without(s, S), {n}) = 0
    BY <1>1, Occurring
  <2>3. CASE n \in S
    <3>1. {n} \ S = {} /\ Len(s) \in Nat
      BY <2>3
    <3>2. CountTo(s, Len(s), {}) = 0
      BY <3>1, CountSome
    <3>3. QED
      BY <1>1, <2>2, <2>3, <3>1, <3>2 DEF Count
  <2>4. CASE n \notin S
    <3>1. {n} \ S = {n}
      BY <2>4
    <3>2. QED
      BY <1>1, <2>1, <2>2, <2>4, <3>1
  <2>5. QED
    BY <2>3, <2>4
<1>3. QED
  BY <1>2

\* No element twice is no count over one.
LEMMA InjectiveCounts ==
    ASSUME NEW T, NEW s \in Seq(T)
    PROVE  IsInjective(s) <=> \A n : Count(s, {n}) <= 1
<1> DEFINE I(n) == {i \in 1..Len(s) : s[i] \in {n}}
<1>1. DOMAIN s = 1..Len(s) /\ Len(s) \in Nat
  OBVIOUS
<1>2. \A n : IsFiniteSet(I(n)) /\ Count(s, {n}) = Cardinality(I(n))
  <2>1. ASSUME NEW n PROVE IsFiniteSet(I(n))
    <3>1. IsFiniteSet(1..Len(s)) /\ I(n) \subseteq 1..Len(s)
      BY <1>1, FS_Interval
    <3> HIDE DEF I
    <3>2. QED
      BY <3>1, FS_Subset
  <2>2. QED
    BY <2>1 DEF Count, CountTo
<1>3. ASSUME IsInjective(s), NEW n PROVE Count(s, {n}) <= 1
  <2>1. CASE I(n) = {}
    <3> HIDE DEF I
    <3>1. QED
      BY <1>2, <2>1, FS_EmptySet
  <2>2. CASE I(n) # {}
    <3>1. PICK i \in I(n) : TRUE
      BY <2>2
    <3>2. I(n) = {i}
      BY <1>1, <1>3, <3>1 DEF IsInjective
    <3>3. Count(s, {n}) = Cardinality(I(n))
      BY <1>2
    <3> HIDE DEF I
    <3>4. Cardinality({i}) = 1
      BY FS_Singleton
    <3>5. QED
      BY <3>2, <3>3, <3>4
  <2>3. QED
    BY <2>1, <2>2
<1>4. ASSUME \A n : Count(s, {n}) <= 1, NEW a \in DOMAIN s, NEW b \in DOMAIN s, s[a] = s[b]
      PROVE  a = b
  <2> SUFFICES ASSUME a # b PROVE FALSE
    OBVIOUS
  <2>1. {a, b} \subseteq I(s[a])
    BY <1>1, <1>4
  <2> HIDE DEF I
  <2>2. Cardinality({a, b}) <= Cardinality(I(s[a]))
    BY <1>2, <2>1, FS_Subset
  <2>3. IsFiniteSet({a}) /\ Cardinality({a}) = 1
    BY FS_Singleton
  <2>4. Cardinality({a} \cup {b}) = 2
    <3>1. b \notin {a}
      BY <1>4
    <3>2. Cardinality({a} \cup {b}) = Cardinality({a}) + 1
      BY <2>3, <3>1, FS_AddElement
    <3>3. PICK x : x = Cardinality({a})
      OBVIOUS
    <3>4. PICK y : y = Cardinality({a} \cup {b})
      OBVIOUS
    <3>5. x = 1
      BY ONLY <2>3, <3>3
    <3>6. y = x + 1
      BY ONLY <3>2, <3>3, <3>4
    <3>7. y = 2
      BY ONLY <3>5, <3>6
    <3>8. QED
      BY ONLY <3>4, <3>7
  <2>5. {a} \cup {b} = {a, b}
    OBVIOUS
  <2>6. Cardinality(I(s[a])) <= 1
    BY <1>2, <1>4
  <2>7. Cardinality(I(s[a])) \in Nat
    BY <1>2, FS_CardinalityType
  <2>8. PICK c \in Nat : c = Cardinality(I(s[a]))
    BY <2>7
  <2>9. 2 <= c
    BY ONLY <2>2, <2>4, <2>5, <2>8
  <2>10. c <= 1
    BY ONLY <2>6, <2>8
  <2>11. QED
    BY ONLY <2>9, <2>10, c \in Nat
<1>5. QED
  BY <1>3, <1>4 DEF IsInjective

\* Taking out one position.
LEMMA Removed ==
    ASSUME NEW T, NEW s \in Seq(T), NEW j \in 1..Len(s)
    PROVE  /\ RemoveAt(s, j) \in Seq(T)
           /\ Len(RemoveAt(s, j)) = Len(s) - 1
           /\ \A i \in 1..(Len(s) - 1) :
                  RemoveAt(s, j)[i] = IF i < j THEN s[i] ELSE s[i + 1]
<1> DEFINE a == SubSeq(s, 1, j - 1)
           b == SubSeq(s, j + 1, Len(s))
<1>1. Len(s) \in Nat /\ j \in Nat /\ 1 <= j /\ j <= Len(s)
  OBVIOUS
<1>2. a \in Seq(T) /\ Len(a) = j - 1 /\ \A i \in 1..(j - 1) : a[i] = s[i]
  BY <1>1
<1>3. b \in Seq(T) /\ Len(b) = Len(s) - j /\ \A i \in 1..(Len(s) - j) : b[i] = s[j + i]
  BY <1>1
<1>4. RemoveAt(s, j) = a \o b
  BY DEF RemoveAt
<1> HIDE DEF a, b
<1>5. /\ a \o b \in Seq(T) /\ Len(a \o b) = Len(a) + Len(b)
      /\ \A i \in 1..(Len(a) + Len(b)) : (a \o b)[i] = IF i <= Len(a) THEN a[i] ELSE b[i - Len(a)]
  BY <1>2, <1>3, ConcatProperties
<1>6. (j - 1) + (Len(s) - j) = Len(s) - 1
  BY <1>1
<1>7. ASSUME NEW i \in 1..(Len(s) - 1)
      PROVE  (a \o b)[i] = IF i < j THEN s[i] ELSE s[i + 1]
  <2>1. (a \o b)[i] = IF i <= j - 1 THEN a[i] ELSE b[i - (j - 1)]
    BY <1>2, <1>3, <1>5, <1>6
  <2>2. CASE i < j
    <3>1. i \in 1..(j - 1) /\ i <= j - 1
      BY <1>1, <2>2
    <3>2. QED
      BY <1>2, <2>1, <2>2, <3>1
  <2>3. CASE ~(i < j)
    <3>1. i - (j - 1) \in 1..(Len(s) - j) /\ ~(i <= j - 1) /\ j + (i - (j - 1)) = i + 1
      BY <1>1, <2>3
    <3>2. QED
      BY <1>3, <2>1, <2>3, <3>1
  <2>4. QED
    BY <2>2, <2>3
<1>8. QED
  BY <1>2, <1>3, <1>4, <1>5, <1>6, <1>7

\* Taking out the first of one element.
LEMMA FirstRemoved ==
    ASSUME NEW T, NEW s \in Seq(T), NEW x \in ToSet(s), NEW P
    PROVE  /\ RemoveFirst(s, x) \in Seq(T)
           /\ Count(RemoveFirst(s, x), P) = Count(s, P) - IF x \in P THEN 1 ELSE 0
<1> DEFINE I == {i \in 1..Len(s) : s[i] = x}
<1>1. Len(s) \in Nat /\ DOMAIN s = 1..Len(s)
  OBVIOUS
<1>2. I # {} /\ I \in SUBSET Nat /\ \E i \in 1..Len(s) : s[i] = x
  BY <1>1 DEF ToSet
<1>3. SelectInSeq(s, LAMBDA v : v = x) = Min(I)
  BY <1>2 DEF SelectInSeq
<1>4. PICK j \in I : j = Min(I)
  <2> HIDE DEF I
  <2>1. PICK m \in I : \A n \in I : m <= n
    BY <1>2, NatLeast
  <2>2. QED
    BY <2>1 DEF Min
<1>5. RemoveFirst(s, x) = RemoveAt(s, j)
  BY <1>2, <1>3, <1>4 DEF RemoveFirst
<1>6. j \in 1..Len(s) /\ s[j] = x /\ x \in T
  BY <1>4
<1> HIDE DEF I
<1> DEFINE a == SubSeq(s, 1, j - 1)
           b == SubSeq(s, j + 1, Len(s))
<1>7. a \in Seq(T) /\ b \in Seq(T) /\ <<x>> \in Seq(T)
  BY <1>1, <1>6
<1>8. RemoveAt(s, j) = a \o b
  BY DEF RemoveAt
<1>9. s = a \o (<<x>> \o b)
  <2>1. /\ j - 1 \in 1 - 1..Len(s) /\ Len(s) \in j - 1..Len(s) /\ 1 \in 1..Len(s) + 1
        /\ Len(s) \in j..Len(s) /\ (j - 1) + 1 = j
    BY <1>1, <1>6
  <2>2. a \o SubSeq(s, j, Len(s)) = SubSeq(s, 1, Len(s))
    BY <2>1, ConcatAdjacentSubSeq
  <2>3. SubSeq(s, j, Len(s)) = <<s[j]>> \o b
    BY <1>6, <2>1, SubSeqRecursiveFirst
  <2>4. SubSeq(s, 1, Len(s)) = s
    BY SubSeqFull
  <2>5. QED
    BY <1>6, <2>2, <2>3, <2>4
<1> HIDE DEF a, b
<1>10. Count(s, P) = Count(a, P) + Count(<<x>> \o b, P)
  <2>1. <<x>> \o b \in Seq(T)
    BY <1>7, ConcatProperties
  <2>2. PICK c : c = <<x>> \o b
    OBVIOUS
  <2>3. a \in Seq(T) /\ c \in Seq(T)
    BY <1>7, <2>1, <2>2
  <2>4. Count(a \o c, P) = Count(a, P) + Count(c, P)
    BY ONLY <2>3, CountJoined
  <2>5. s = a \o c
    BY ONLY <1>9, <2>2
  <2>6. QED
    BY ONLY <2>2, <2>4, <2>5
<1>11. Count(<<x>> \o b, P) = Count(<<x>>, P) + Count(b, P)
  BY <1>7, CountJoined
<1>12. Count(<<x>>, P) = IF x \in P THEN 1 ELSE 0
  BY CountOne
<1>13. Count(a \o b, P) = Count(a, P) + Count(b, P)
  BY <1>7, CountJoined
<1>14. Count(a, P) \in Nat /\ Count(b, P) \in Nat
  <2>1. Len(a) \in Nat /\ Len(b) \in Nat
    BY <1>7
  <2>2. QED
    BY <2>1, CountNat DEF Count
<1>15. QED
  BY <1>5, <1>7, <1>8, <1>10, <1>11, <1>12, <1>13, <1>14, ConcatProperties

--------------------------------------------------------------------------------
(* Gates.                                                                  *)

\* How many fan-ins carry 1 when the nodes in On do and the first k are inverted.
Ones(s, k, On) == (k - CountTo(s, k, On)) + (Count(s, On) - CountTo(s, k, On))

\* A gate needs to know no more.
Passes(type, c) ==
    CASE type \in {"output", "wire", "BUF", "XOR"} -> c = 1
      [] type = "INV"     -> c = 0
      [] type = "AND"     -> c = 2
      [] type = "FACARRY" -> c >= 2
      [] type = "ZEROBUF" -> FALSE
      [] type = "ONEBUF"  -> TRUE

\* The values of the fan-ins.
Carries(g, s, k, On) ==
    /\ g \in [DOMAIN s -> BOOLEAN]
    /\ \A i \in DOMAIN s : g[i] <=> ((s[i] \in On) # (i <= k))

\* The number of true values, one position on.
LEMMA CountTrue ==
    ASSUME NEW g, NEW n \in Nat
    PROVE  CountTo(g, n + 1, {TRUE}) = CountTo(g, n, {TRUE}) + IF g[n + 1] \in {TRUE} THEN 1 ELSE 0
<1>1. ASSUME NEW P
      PROVE  CountTo(g, n + 1, P) = CountTo(g, n, P) + IF g[n + 1] \in P THEN 1 ELSE 0
  BY ONLY n \in Nat, CountNext
<1>2. PICK P : P = {TRUE}
  OBVIOUS
<1>3. CountTo(g, n + 1, P) = CountTo(g, n, P) + IF g[n + 1] \in P THEN 1 ELSE 0
  BY ONLY <1>1
<1>4. QED
  BY ONLY <1>2, <1>3

\* The number is that of the true values.
LEMMA OnesTrue ==
    ASSUME NEW T, NEW s \in Seq(T), NEW k \in 0..Len(s), NEW On, NEW g, Carries(g, s, k, On)
    PROVE  CountTo(g, Len(s), {TRUE}) = Ones(s, k, On)
<1> DEFINE C(n) == CountTo(s, n, On)
           Sum(n) == IF n <= k THEN n - C(n) ELSE (k - C(k)) + (C(n) - C(k))
           S == {n \in Nat : n <= Len(s) => CountTo(g, n, {TRUE}) = Sum(n)}
<1>1. Len(s) \in Nat /\ k \in Nat /\ k <= Len(s) /\ DOMAIN s = 1..Len(s)
  OBVIOUS
<1>2. ASSUME NEW n \in Nat
      PROVE C(n) \in Nat /\ C(n + 1) = C(n) + IF s[n + 1] \in On THEN 1 ELSE 0
  BY CountNat, CountNext
<1>3. C(0) = 0
  BY CountZero
<1> HIDE DEF C
<1>4. 0 \in S
  BY <1>1, <1>3, CountZero
<1>5. ASSUME NEW n \in Nat, n \in S PROVE n + 1 \in S
  <2> SUFFICES ASSUME n + 1 <= Len(s) PROVE CountTo(g, n + 1, {TRUE}) = Sum(n + 1)
    OBVIOUS
  <2>1. CountTo(g, n, {TRUE}) = Sum(n)
    BY <1>1, <1>5
  <2>2. CountTo(g, n + 1, {TRUE}) = CountTo(g, n, {TRUE}) + IF g[n + 1] \in {TRUE} THEN 1 ELSE 0
    BY ONLY n \in Nat, CountTrue
  <2>3. n + 1 \in DOMAIN s
    BY <1>1
  <2>4. (IF g[n + 1] \in {TRUE} THEN 1 ELSE 0)
           = IF (s[n + 1] \in On) # (n + 1 <= k) THEN 1 ELSE 0
    BY <2>3 DEF Carries
  <2>5. C(n) \in Nat /\ C(k) \in Nat /\ C(n + 1) = C(n) + IF s[n + 1] \in On THEN 1 ELSE 0
    BY <1>1, <1>2
  <2> HIDE DEF S
  <2>a. PICK b : b = IF s[n + 1] \in On THEN 1 ELSE 0
    OBVIOUS
  <2>b. CountTo(g, n + 1, {TRUE}) = Sum(n) + IF n + 1 <= k THEN 1 - b ELSE b
    <3> HIDE DEF Sum
    <3>1. (IF (s[n + 1] \in On) # (n + 1 <= k) THEN 1 ELSE 0) = IF n + 1 <= k THEN 1 - b ELSE b
      <4>1. s[n + 1] \in On \/ s[n + 1] \notin On
        OBVIOUS
      <4>2. QED
        BY <2>a, <4>1
    <3>2. QED
      BY <2>1, <2>2, <2>4, <3>1
  <2>c. C(n) \in Nat /\ C(k) \in Nat /\ b \in Nat /\ C(n + 1) = C(n) + b
    BY <2>5, <2>a
  <2>d. PICK x \in Nat, y \in Nat : x = C(n) /\ y = C(k)
    BY <2>c
  <2>6. CASE n + 1 <= k
    <3>1. Sum(n) = n - x /\ Sum(n + 1) = (n + 1) - C(n + 1)
      BY <1>1, <2>6, <2>d
    <3> HIDE DEF Sum
    <3>2. QED
      BY <2>6, <2>b, <2>c, <2>d, <3>1
  <2>7. CASE ~(n + 1 <= k)
    <3>1. Sum(n) = (k - y) + (x - y)
      <4>1. CASE n = k
        BY <1>1, <2>d, <4>1
      <4>2. CASE n # k
        <5>1. ~(n <= k)
          BY <1>1, <2>7, <4>2
        <5>2. QED
          BY <2>d, <5>1
      <4>3. QED
        BY <4>1, <4>2
    <3>2. Sum(n + 1) = (k - y) + (C(n + 1) - y)
      BY <2>7, <2>d
    <3> HIDE DEF Sum
    <3>3. QED
      BY <1>1, <2>7, <2>b, <2>c, <2>d, <3>1, <3>2
  <2>8. QED
    BY <2>6, <2>7
<1> HIDE DEF S
<1>6. \A n \in Nat : n \in S
  BY <1>4, <1>5, NatInduct
<1>7. CountTo(g, Len(s), {TRUE}) = Sum(Len(s))
  <2>1. Len(s) \in S /\ Len(s) <= Len(s)
    BY <1>1, <1>6
  <2> HIDE DEF Sum
  <2>2. QED
    BY <2>1 DEF S
<1>8. Sum(Len(s)) = (k - C(k)) + (C(Len(s)) - C(k))
  <2>1. PICK l \in Nat : l = Len(s) /\ k <= l
    BY <1>1
  <2>2. Sum(l) = (k - C(k)) + (C(l) - C(k))
    <3>1. CASE l = k
      <4>1. Sum(l) = k - C(k) /\ C(l) = C(k) /\ C(k) \in Nat
        BY <1>1, <1>2, <3>1
      <4> HIDE DEF Sum
      <4>2. QED
        BY <4>1
    <3>2. CASE l # k
      <4>1. ~(l <= k)
        <5> HIDE DEF Sum
        <5>1. k \in Nat /\ k <= l
          BY <1>1, <2>1
        <5>2. QED
          BY ONLY l \in Nat, <3>2, <5>1
      <4>2. QED
        BY <4>1
    <3>3. QED
      BY <3>1, <3>2
  <2> HIDE DEF Sum
  <2>3. QED
    BY <2>1, <2>2
<1>9. QED
  BY <1>7, <1>8 DEF C, Ones, Count

\* The first two positions.
LEMMA CountTwo ==
    \A g : /\ CountTo(g, 1, {TRUE}) = IF g[1] = TRUE THEN 1 ELSE 0
          /\ CountTo(g, 2, {TRUE})
                = (IF g[1] = TRUE THEN 1 ELSE 0) + (IF g[2] = TRUE THEN 1 ELSE 0)
<1> TAKE g
<1>1. ASSUME NEW n \in Nat, NEW m, m = n + 1
      PROVE  CountTo(g, m, {TRUE}) = CountTo(g, n, {TRUE}) + IF g[m] = TRUE THEN 1 ELSE 0
  <2>1. CountTo(g, n + 1, {TRUE}) = CountTo(g, n, {TRUE}) + IF g[n + 1] \in {TRUE} THEN 1 ELSE 0
    BY ONLY n \in Nat, CountTrue
  <2>2. QED
    BY <1>1, <2>1
<1>2. CountTo(g, 1, {TRUE}) = CountTo(g, 0, {TRUE}) + IF g[1] = TRUE THEN 1 ELSE 0
  <2>1. 0 \in Nat /\ 1 = 0 + 1
    OBVIOUS
  <2>2. QED
    BY <1>1, <2>1
<1>3. CountTo(g, 2, {TRUE}) = CountTo(g, 1, {TRUE}) + IF g[2] = TRUE THEN 1 ELSE 0
  <2>1. 1 \in Nat /\ 2 = 1 + 1
    OBVIOUS
  <2>2. QED
    BY <1>1, <2>1
<1>4. CountTo(g, 0, {TRUE}) = 0
  BY CountZero
<1>5. QED
  BY <1>2, <1>3, <1>4

\* A gate's value depends on the number of fan-ins that carry 1 alone.
LEMMA GateCounts ==
    ASSUME NEW T, NEW s \in Seq(T), NEW k \in 0..Len(s), NEW On, NEW g, Carries(g, s, k, On),
           NEW type \in GateTypes \cup {"output", "wire"}, Len(s) = Arity(type)
    PROVE  GateValue(type, g) <=> Passes(type, Ones(s, k, On))
<1>1. PICK c : c = CountTo(g, Len(s), {TRUE})
  OBVIOUS
<1>2. SUFFICES GateValue(type, g) <=> Passes(type, c)
  <2>1. Ones(s, k, On) = c
    BY <1>1, OnesTrue
  <2>2. QED
    BY <2>1
<1>3. \A i \in 1..Len(s) : g[i] \in BOOLEAN
  <2>1. DOMAIN s = 1..Len(s)
    OBVIOUS
  <2>2. QED
    BY <2>1 DEF Carries
<1>5. /\ CountTo(g, 1, {TRUE}) = IF g[1] = TRUE THEN 1 ELSE 0
      /\ CountTo(g, 2, {TRUE}) = (IF g[1] = TRUE THEN 1 ELSE 0) + (IF g[2] = TRUE THEN 1 ELSE 0)
  BY ONLY CountTwo
<1>7. CASE type \in {"output", "wire", "BUF"}
  <2>1. Len(s) = 1 /\ g[1] \in BOOLEAN
    BY <1>3, <1>7 DEF Arity
  <2>2. (GateValue(type, g) <=> g[1]) /\ (Passes(type, c) <=> c = 1)
    BY <1>7 DEF GateValue, Passes
  <2>3. c = IF g[1] = TRUE THEN 1 ELSE 0
    BY <1>1, <1>5, <2>1
  <2>4. QED
    BY <2>1, <2>2, <2>3
<1>8. CASE type = "INV"
  <2>1. Len(s) = 1 /\ g[1] \in BOOLEAN
    BY <1>3, <1>8 DEF Arity
  <2>2. (GateValue(type, g) <=> ~g[1]) /\ (Passes(type, c) <=> c = 0)
    BY <1>8 DEF GateValue, Passes
  <2>3. c = IF g[1] = TRUE THEN 1 ELSE 0
    BY <1>1, <1>5, <2>1
  <2>4. QED
    BY <2>1, <2>2, <2>3
<1>9. CASE type = "AND"
  <2>1. Len(s) = 2 /\ g[1] \in BOOLEAN /\ g[2] \in BOOLEAN
    BY <1>3, <1>9 DEF Arity
  <2>a. PICK p \in BOOLEAN, q \in BOOLEAN : p = g[1] /\ q = g[2]
    BY <2>1
  <2>2. (GateValue(type, g) <=> (p /\ q)) /\ (Passes(type, c) <=> c = 2)
    BY <1>9, <2>a DEF GateValue, Passes
  <2>3. c = (IF p = TRUE THEN 1 ELSE 0) + (IF q = TRUE THEN 1 ELSE 0)
    BY <1>1, <1>5, <2>1, <2>a
  <2>4. CASE p /\ q
    BY <2>2, <2>3, <2>4
  <2>5. CASE p /\ ~q
    BY <2>2, <2>3, <2>5
  <2>6. CASE ~p /\ q
    BY <2>2, <2>3, <2>6
  <2>7. CASE ~p /\ ~q
    BY <2>2, <2>3, <2>7
  <2>8. QED
    BY <2>4, <2>5, <2>6, <2>7
<1>10. CASE type = "XOR"
  <2>1. Len(s) = 2 /\ g[1] \in BOOLEAN /\ g[2] \in BOOLEAN
    BY <1>3, <1>10 DEF Arity
  <2>a. PICK p \in BOOLEAN, q \in BOOLEAN : p = g[1] /\ q = g[2]
    BY <2>1
  <2>2. GateValue(type, g) <=> p # q
    BY <1>10, <2>a DEF GateValue
  <2>b. p # q <=> ((p /\ ~q) \/ (~p /\ q))
    OBVIOUS
  <2>c. Passes(type, c) <=> c = 1
    BY <1>10 DEF Passes
  <2>3. c = (IF p = TRUE THEN 1 ELSE 0) + (IF q = TRUE THEN 1 ELSE 0)
    BY <1>1, <1>5, <2>1, <2>a
  <2>4. CASE p /\ q
    BY <2>2, <2>b, <2>c, <2>3, <2>4
  <2>5. CASE p /\ ~q
    <3>1. c = 1
      BY <2>3, <2>5
    <3>2. GateValue(type, g)
      BY <2>2, <2>b, <2>5
    <3>3. QED
      BY <2>c, <3>1, <3>2
  <2>6. CASE ~p /\ q
    <3>1. c = 1
      BY <2>3, <2>6
    <3>2. GateValue(type, g)
      BY <2>2, <2>b, <2>6
    <3>3. QED
      BY <2>c, <3>1, <3>2
  <2>7. CASE ~p /\ ~q
    BY <2>2, <2>b, <2>c, <2>3, <2>7
  <2>8. QED
    BY <2>4, <2>5, <2>6, <2>7
<1>11. CASE type = "FACARRY"
  <2>1. Len(s) = 3 /\ \A i \in 1..3 : g[i] \in BOOLEAN
    BY <1>3, <1>11 DEF Arity
  <2>2. GateValue(type, g) <=> (Cardinality({i \in 1..3 : g[i]}) >= 2)
    BY <1>11 DEF GateValue
  <2>3. Passes(type, c) <=> c >= 2
    BY <1>11 DEF Passes
  <2>4. {i \in 1..3 : g[i]} = {i \in 1..3 : g[i] \in {TRUE}}
    BY <2>1
  <2>5. c = Cardinality({i \in 1..3 : g[i]})
    BY <1>1, <2>1, <2>4 DEF CountTo
  <2>6. QED
    BY <2>2, <2>3, <2>5
<1>12. CASE type \in {"ZEROBUF", "ONEBUF"}
  BY <1>12 DEF GateValue, Passes
<1>13. QED
  BY <1>7, <1>8, <1>9, <1>10, <1>11, <1>12 DEF GateTypes

--------------------------------------------------------------------------------
(* Reading prev in the place of x.                                         *)

Bypass(s, x, prev, front) ==
    IF front THEN Times(prev, Occurrences(s, x)) \o Without(s, {x})
             ELSE Without(s, {x}) \o Times(prev, Occurrences(s, x))

\* a is what is left of s without x, b reads prev as often as s read x.
Parts(T, a, b, s, x, prev) ==
    /\ a \in Seq(T) /\ b \in Seq(T)
    /\ Len(b) = Occurrences(s, x) /\ Occurrences(s, x) \in Nat
    /\ \A i \in 1..Len(b) : b[i] = prev
    /\ \A P : Count(b, P) = IF prev \in P THEN Len(b) ELSE 0
    /\ \A P : Count(a, P) = Count(s, P \ {x}) /\ Count(a, P) \in Nat
    /\ \A k \in 0..Len(s) : (\A i \in 1..k : s[i] # x) => k <= Len(a) /\ \A i \in 1..k : a[i] = s[i]

Splits(T, s, x, prev, front) ==
    \E a, b : /\ Parts(T, a, b, s, x, prev)
              /\ Bypass(s, x, prev, front) = IF front THEN b \o a ELSE a \o b

\* Bypass joins such parts, in one order or the other.
LEMMA BypassParts ==
    ASSUME NEW T, NEW s \in Seq(T), NEW x, NEW prev \in T, NEW front
    PROVE  Splits(T, s, x, prev, front)
<1>1. PICK k : k = Occurrences(s, x)
  OBVIOUS
<1>2. PICK a : a = Without(s, {x})
  OBVIOUS
<1>3. PICK b : b = Times(prev, k)
  OBVIOUS
<1>4. k \in Nat
  BY <1>1, Occurring
<1>5. b \in Seq(T) /\ Len(b) = k /\ \A i \in 1..k : b[i] = prev
  BY <1>3, <1>4, CountTimes
<1>6. ASSUME NEW P PROVE Count(b, P) = IF prev \in P THEN k ELSE 0
  BY <1>3, <1>4, CountTimes
<1>7. ASSUME NEW P PROVE a \in Seq(T) /\ Count(a, P) = Count(s, P \ {x})
  BY <1>2, WithoutCount
<1>8. ASSUME NEW P PROVE Count(a, P) \in Nat
  <2>1. Len(a) \in Nat
    BY <1>7
  <2>2. QED
    BY <2>1, CountNat DEF Count
<1>9. ASSUME NEW h \in 0..Len(s), \A i \in 1..h : s[i] # x
      PROVE  h <= Len(a) /\ \A i \in 1..h : a[i] = s[i]
  <2>1. \A i \in 1..h : s[i] \notin {x}
    BY <1>9
  <2>2. QED
    BY <1>2, <2>1, WithoutPrefix
<1>10. Bypass(s, x, prev, front) = IF front THEN b \o a ELSE a \o b
  BY <1>1, <1>2, <1>3 DEF Bypass
<1>11. Parts(T, a, b, s, x, prev)
  BY <1>1, <1>4, <1>5, <1>6, <1>7, <1>8, <1>9 DEF Parts
<1>12. QED
  BY <1>10, <1>11 DEF Splits

\* It is a sequence of the same kind,
LEMMA BypassType ==
    ASSUME NEW T, NEW s \in Seq(T), NEW x, NEW prev \in T, NEW front
    PROVE  Bypass(s, x, prev, front) \in Seq(T)
<1>0. Splits(T, s, x, prev, front)
  BY BypassParts
<1>1. PICK a, b : /\ Parts(T, a, b, s, x, prev)
                  /\ Bypass(s, x, prev, front) = IF front THEN b \o a ELSE a \o b
  BY <1>0 DEF Splits
<1>2. a \in Seq(T) /\ b \in Seq(T)
  BY <1>1 DEF Parts
<1>3. a \o b \in Seq(T) /\ b \o a \in Seq(T)
  BY <1>2, ConcatProperties
<1>4. QED
  BY <1>1, <1>3

\* What prev counts where x did.
BypassCounts(t, s, x, prev) ==
    \A P : Count(t, P) = Count(s, P \ {x}) + IF prev \in P THEN Occurrences(s, x) ELSE 0

\* in which prev counts for x,
LEMMA BypassCount ==
    ASSUME NEW T, NEW s \in Seq(T), NEW x, NEW prev \in T, NEW front
    PROVE  BypassCounts(Bypass(s, x, prev, front), s, x, prev)
<1>0. Splits(T, s, x, prev, front)
  BY BypassParts
<1>1. PICK a, b : /\ Parts(T, a, b, s, x, prev)
                  /\ Bypass(s, x, prev, front) = IF front THEN b \o a ELSE a \o b
  BY <1>0 DEF Splits
<1>2. PICK t : t = Bypass(s, x, prev, front)
  OBVIOUS
<1>3. a \in Seq(T) /\ b \in Seq(T)
  BY <1>1 DEF Parts
<1>4. ASSUME NEW P
      PROVE  Count(t, P) = Count(s, P \ {x}) + IF prev \in P THEN Occurrences(s, x) ELSE 0
  <2>1. Count(a \o b, P) = Count(a, P) + Count(b, P)
    BY <1>3, CountJoined
  <2>2. Count(b \o a, P) = Count(b, P) + Count(a, P)
    BY <1>3, CountJoined
  <2>3. PICK m : m = IF prev \in P THEN Occurrences(s, x) ELSE 0
    OBVIOUS
  <2>4. Count(b, P) = m /\ Count(a, P) = Count(s, P \ {x}) /\ Count(a, P) \in Nat /\ m \in Nat
    BY <1>1, <2>3 DEF Parts
  <2>5. Count(t, P) = Count(s, P \ {x}) + m
    BY <1>1, <1>2, <2>1, <2>2, <2>4
  <2>6. QED
    BY <2>3, <2>5
<1>5. QED
  BY <1>2, <1>4 DEF BypassCounts

\* The length is the count of everything.
LEMMA CountAll ==
    ASSUME NEW T, NEW t \in Seq(T)
    PROVE  Count(t, T) = Len(t)
<1>1. {i \in 1..Len(t) : t[i] \in T} = 1..Len(t)
  OBVIOUS
<1>2. PICK n \in Nat : n = Len(t)
  OBVIOUS
<1>3. Cardinality(1..n) = n
  BY FS_Interval
<1>4. QED
  BY <1>1, <1>2, <1>3 DEF Count, CountTo

\* Without one element.
LEMMA CountBut ==
    ASSUME NEW T, NEW s \in Seq(T), NEW P, NEW x \in P
    PROVE  /\ Count(s, P) = Count(s, P \ {x}) + Occurrences(s, x)
           /\ Count(s, P) \in Nat /\ Count(s, P \ {x}) \in Nat
<1>1. PICK n \in Nat : n = Len(s)
  OBVIOUS
<1>2. CountTo(s, n, P) = CountTo(s, n, P \ {x}) + CountTo(s, n, {x})
  BY CountSplit
<1>3. CountTo(s, n, P) \in Nat /\ CountTo(s, n, P \ {x}) \in Nat
  BY CountNat
<1>4. Occurrences(s, x) = CountTo(s, n, {x})
  BY <1>1, Occurring DEF Count
<1>5. QED
  BY <1>1, <1>2, <1>3, <1>4 DEF Count

\* as long as before,
LEMMA BypassLen ==
    ASSUME NEW T, NEW s \in Seq(T), NEW x \in T, NEW prev \in T, NEW front
    PROVE  Len(Bypass(s, x, prev, front)) = Len(s)
<1>1. PICK t : t = Bypass(s, x, prev, front)
  OBVIOUS
<1>2. t \in Seq(T)
  BY <1>1, BypassType
<1>3. Count(t, T) = Count(s, T \ {x}) + Occurrences(s, x)
  <2>1. BypassCounts(t, s, x, prev)
    BY <1>1, BypassCount
  <2>2. QED
    BY <2>1 DEF BypassCounts
<1>4. Count(s, T) = Count(s, T \ {x}) + Occurrences(s, x)
  BY CountBut
<1>5. Count(t, T) = Len(t) /\ Count(s, T) = Len(s)
  BY <1>2, CountAll
<1>6. QED
  BY <1>1, <1>3, <1>4, <1>5

\* What is read.
LEMMA BypassSet ==
    ASSUME NEW T, NEW s \in Seq(T), NEW x, NEW prev \in T, NEW front
    PROVE  ToSet(Bypass(s, x, prev, front))
              = (ToSet(s) \ {x}) \cup IF x \in ToSet(s) THEN {prev} ELSE {}
<1>1. PICK t : t = Bypass(s, x, prev, front)
  OBVIOUS
<1>2. t \in Seq(T)
  BY <1>1, BypassType
<1>3. BypassCounts(t, s, x, prev)
  BY <1>1, BypassCount
<1>4. PICK r \in Nat : r = Occurrences(s, x)
  BY Occurring
<1>5. ASSUME NEW m
      PROVE  m \in ToSet(t) <=> (m \in ToSet(s) /\ m # x) \/ (m = prev /\ x \in ToSet(s))
  <2>1. (m \notin ToSet(t) <=> Count(t, {m}) = 0)
    BY <1>2, Occurring
  <2>2. (m \notin ToSet(s) <=> Count(s, {m}) = 0) /\ Count(s, {m}) \in Nat
    BY Occurring
  <2>3. (x \notin ToSet(s) <=> r = 0)
    BY <1>4, Occurring
  <2>4. PICK c : c = Count(s, {m} \ {x})
    OBVIOUS
  <2>5. c = IF m = x THEN 0 ELSE Count(s, {m})
    <3>1. CASE m = x
      <4>1. {m} \ {x} = {}
        BY <3>1
      <4>2. PICK n \in Nat : n = Len(s)
        OBVIOUS
      <4>3. CountTo(s, n, {}) = 0
        BY CountSome
      <4>4. QED
        BY <2>4, <3>1, <4>1, <4>2, <4>3 DEF Count
    <3>2. CASE m # x
      <4>1. {m} \ {x} = {m}
        BY <3>2
      <4>2. QED
        BY <2>4, <3>2, <4>1
    <3>3. QED
      BY <3>1, <3>2
  <2>6. Count(t, {m}) = c + IF prev = m THEN r ELSE 0
    <3>1. Count(t, {m}) = c + IF prev \in {m} THEN r ELSE 0
      BY <1>3, <1>4, <2>4 DEF BypassCounts
    <3>2. QED
      BY <3>1
  <2>7. PICK d \in Nat : d = Count(s, {m})
    BY <2>2
  <2>8. QED
    BY <2>1, <2>2, <2>3, <2>5, <2>6, <2>7
<1>6. QED
  BY <1>1, <1>5

\* The inverted part in front: x is not in it, and the new ones join it in front.
Prefixed(t, j, s, k, x, prev, front) ==
    /\ j \in 0..Len(t)
    /\ \A i \in 1..j : t[i] = prev \/ t[i] \in {s[h] : h \in 1..k}
    /\ \A P : CountTo(t, j, P)
                 = CountTo(s, k, P) + IF front /\ prev \in P THEN Occurrences(s, x) ELSE 0

\* The first fan-ins, those before k and the new ones at the front, are the inverted ones.
LEMMA BypassPrefix ==
    ASSUME NEW T, NEW s \in Seq(T), NEW x, NEW prev \in T, NEW front \in BOOLEAN,
           NEW k \in 0..Len(s), \A i \in 1..k : s[i] # x
    PROVE  Prefixed(Bypass(s, x, prev, front),
                    IF front THEN k + Occurrences(s, x) ELSE k, s, k, x, prev, front)
<1>0. Splits(T, s, x, prev, front)
  BY BypassParts
<1>1. PICK a, b : /\ Parts(T, a, b, s, x, prev)
                  /\ Bypass(s, x, prev, front) = IF front THEN b \o a ELSE a \o b
  BY <1>0 DEF Splits
<1>2. PICK r : r = Len(b)
  OBVIOUS
<1>3. /\ a \in Seq(T) /\ b \in Seq(T) /\ r \in Nat /\ r = Occurrences(s, x)
      /\ \A i \in 1..r : b[i] = prev
      /\ \A P : Count(b, P) = IF prev \in P THEN r ELSE 0
  BY <1>1, <1>2 DEF Parts
<1>4. k <= Len(a) /\ \A i \in 1..k : a[i] = s[i]
  BY <1>1 DEF Parts
<1>5. k \in Nat /\ Len(a) \in Nat
  BY <1>3
<1>6. ASSUME NEW P, NEW t, \A i \in 1..k : t[i] = s[i]
      PROVE  CountTo(t, k, P) = CountTo(s, k, P)
  <2>1. \A i \in 1..k : t[i] \in P <=> s[i] \in P
    BY <1>6
  <2>2. QED
    BY <2>1, CountSame
<1>7. ASSUME NEW P PROVE CountTo(s, k, P) \in Nat
  BY <1>5, CountNat
<1>8. CASE front
  <2>1. PICK t : t = b \o a
    OBVIOUS
  <2>2. Len(t) = r + Len(a) /\ \A i \in 1..(r + Len(a)) : t[i] = IF i <= r THEN b[i] ELSE a[i - r]
    <3>1. /\ Len(t) = Len(b) + Len(a)
          /\ \A i \in 1..(Len(b) + Len(a)) : t[i] = IF i <= Len(b) THEN b[i] ELSE a[i - Len(b)]
      BY <1>3, <2>1, ConcatProperties
    <3>2. QED
      BY <1>2, <3>1
  <2>3. ASSUME NEW P PROVE CountTo(t, r + k, P) = Count(b, P) + CountTo(a, k, P)
    <3>1. k \in 0..Len(a)
      BY <1>4, <1>5
    <3>2. CountTo(b \o a, Len(b) + k, P) = Count(b, P) + CountTo(a, k, P)
      BY <1>3, <3>1, CountConcat
    <3>3. QED
      BY <1>2, <2>1, <3>2
  <2>4. k + r = r + k /\ k + r \in 0..Len(t)
    BY <1>3, <1>4, <1>5, <2>2
  <2>5. ASSUME NEW i \in 1..(k + r) PROVE t[i] = prev \/ t[i] \in {s[h] : h \in 1..k}
    <3>1. i \in 1..(r + Len(a))
      BY <1>3, <1>4, <1>5
    <3>2. CASE i <= r
      <4>1. i \in 1..r
        BY <3>2
      <4>2. t[i] = b[i]
        BY <2>2, <3>1, <3>2
      <4>3. QED
        BY <1>3, <4>1, <4>2
    <3>3. CASE ~(i <= r)
      <4>1. i - r \in 1..k
        BY <1>3, <1>5, <3>3
      <4>2. t[i] = s[i - r]
        BY <1>4, <2>2, <3>1, <3>3, <4>1
      <4>3. QED
        BY <4>1, <4>2
    <3>4. QED
      BY <3>2, <3>3
  <2>6. ASSUME NEW P
        PROVE  CountTo(t, k + r, P) = CountTo(s, k, P) + IF prev \in P THEN r ELSE 0
    <3>1. PICK m : m = IF prev \in P THEN r ELSE 0
      OBVIOUS
    <3>2. Count(b, P) = m /\ m \in Nat
      BY <1>3, <3>1
    <3>3. CountTo(a, k, P) = CountTo(s, k, P)
      BY <1>4, <1>6
    <3>4. CountTo(t, k + r, P) = m + CountTo(s, k, P)
      BY <2>3, <2>4, <3>2, <3>3
    <3>5. CountTo(s, k, P) \in Nat
      BY <1>7
    <3>6. QED
      BY <3>1, <3>2, <3>4, <3>5
  <2>7. Prefixed(t, k + r, s, k, x, prev, front)
    BY <1>3, <1>8, <2>4, <2>5, <2>6 DEF Prefixed
  <2>8. QED
    BY <1>1, <1>3, <1>8, <2>1, <2>7
<1>9. CASE ~front
  <2>1. PICK t : t = a \o b
    OBVIOUS
  <2>2. /\ Len(t) = Len(a) + r
        /\ \A i \in 1..(Len(a) + r) : t[i] = IF i <= Len(a) THEN a[i] ELSE b[i - Len(a)]
    <3>1. /\ Len(t) = Len(a) + Len(b)
          /\ \A i \in 1..(Len(a) + Len(b)) : t[i] = IF i <= Len(a) THEN a[i] ELSE b[i - Len(a)]
      BY <1>3, <2>1, ConcatProperties
    <3>2. QED
      BY <1>2, <3>1
  <2>3. \A i \in 1..k : i \in 1..(Len(a) + r) /\ i <= Len(a)
    BY <1>3, <1>4, <1>5
  <2>4. \A i \in 1..k : t[i] = s[i]
    BY <1>4, <2>2, <2>3
  <2>5. ASSUME NEW P PROVE CountTo(t, k, P) = CountTo(s, k, P) + 0
    <3>1. CountTo(t, k, P) = CountTo(s, k, P)
      BY <1>6, <2>4
    <3>2. CountTo(s, k, P) \in Nat
      BY <1>7
    <3>3. QED
      BY <3>1, <3>2
  <2>6. k \in 0..Len(t)
    BY <1>3, <1>4, <1>5, <2>2
  <2>7. Prefixed(t, k, s, k, x, prev, front)
    BY <1>9, <2>4, <2>5, <2>6 DEF Prefixed
  <2>8. QED
    BY <1>1, <1>9, <2>1, <2>7
<1>10. QED
  BY <1>8, <1>9

--------------------------------------------------------------------------------
(* Nodes and edges.                                                        *)

Types == GateTypes \cup PortTypes
Node(D) == [type : Types, fi : Seq(D), fo : Seq(D), inv : Nat]
Typed(ns) == \A n \in DOMAIN ns : ns[n] \in Node(DOMAIN ns)
Mirror(ns) == \A n, m \in DOMAIN ns : Occurrences(ns[n].fo, m) = Occurrences(ns[m].fi, n)

\* The graph of a netlist is what EdgesMirrored says of it, with its types.
LEMMA MirroredGraph ==
    Typed(nodes) /\ Mirror(nodes) => EdgesMirrored
<1> SUFFICES ASSUME Typed(nodes), Mirror(nodes) PROVE EdgesMirrored
  OBVIOUS
<1> SUFFICES ASSUME NEW n \in DOMAIN nodes
             PROVE  /\ ToSet(nodes[n].fi) \cup ToSet(nodes[n].fo) \subseteq DOMAIN nodes
                    /\ \A m \in DOMAIN nodes :
                           Occurrences(nodes[n].fo, m) = Occurrences(nodes[m].fi, n)
  BY DEF EdgesMirrored
<1>1. nodes[n].fi \in Seq(DOMAIN nodes) /\ nodes[n].fo \in Seq(DOMAIN nodes)
  BY DEF Typed, Node
<1>2. ToSet(nodes[n].fi) \subseteq DOMAIN nodes /\ ToSet(nodes[n].fo) \subseteq DOMAIN nodes
  BY <1>1 DEF ToSet
<1>3. QED
  BY <1>2 DEF Mirror

\* A sequence that misses an element.
LEMMA Missing ==
    ASSUME NEW D, NEW s \in Seq(D), NEW x, x \notin ToSet(s)
    PROVE  s \in Seq(D \ {x})
<1>1. \A i \in 1..Len(s) : s[i] \in D \ {x}
  BY DEF ToSet
<1>2. s = [i \in 1..Len(s) |-> s[i]] /\ Len(s) \in Nat
  OBVIOUS
<1>3. QED
  BY <1>1, <1>2

\* What t reads when it reads prev where s reads x.
Rereads(t, s, x, prev) ==
    /\ Occurrences(t, x) = 0
    /\ Occurrences(t, prev) = Occurrences(s, prev) + Occurrences(s, x)
    /\ \A n : n \notin {x, prev} => Occurrences(t, n) = Occurrences(s, n)

\* Counted node by node.
LEMMA BypassOccurrences ==
    ASSUME NEW T, NEW s \in Seq(T), NEW t \in Seq(T), NEW x, NEW prev, x # prev,
           BypassCounts(t, s, x, prev)
    PROVE  Rereads(t, s, x, prev)
<1>1. ASSUME NEW n
      PROVE  Occurrences(t, n) = Count(s, {n} \ {x}) + IF prev = n THEN Occurrences(s, x) ELSE 0
  <2>1. Occurrences(t, n) = Count(t, {n})
    BY Occurring
  <2>2. Count(t, {n}) = Count(s, {n} \ {x}) + IF prev \in {n} THEN Occurrences(s, x) ELSE 0
    BY DEF BypassCounts
  <2>3. QED
    BY <2>1, <2>2
<1>2. ASSUME NEW n PROVE Occurrences(s, n) = Count(s, {n}) /\ Count(s, {n}) \in Nat
  BY Occurring
<1>3. Count(s, {}) = 0
  <2>1. PICK k \in Nat : k = Len(s)
    OBVIOUS
  <2>2. CountTo(s, k, {}) = 0
    BY CountSome
  <2>3. QED
    BY <2>1, <2>2 DEF Count
<1>4. {x} \ {x} = {} /\ \A n : n # x => {n} \ {x} = {n}
  OBVIOUS
<1>5. Occurrences(t, x) = 0
  BY <1>1, <1>3, <1>4
<1>6. Occurrences(t, prev) = Occurrences(s, prev) + Occurrences(s, x)
  BY <1>1, <1>2, <1>4
<1>7. ASSUME NEW n, n \notin {x, prev} PROVE Occurrences(t, n) = Occurrences(s, n)
  <2>1. Occurrences(t, n) = Count(s, {n} \ {x}) + 0
    BY <1>1, <1>7
  <2>2. {n} \ {x} = {n}
    BY <1>7
  <2>3. QED
    BY <1>2, <2>1, <2>2
<1>8. QED
  BY <1>5, <1>6, <1>7 DEF Rereads

\* A sequence that does not read x reads the same without it.
LEMMA BypassNothing ==
    ASSUME NEW T, NEW s \in Seq(T), NEW x, NEW prev, x \notin ToSet(s)
    PROVE  BypassCounts(s, s, x, prev)
<1>1. Occurrences(s, x) = 0
  BY Occurring
<1>2. ASSUME NEW P PROVE Count(s, P) = Count(s, P \ {x}) /\ Count(s, P) \in Nat
  <2>1. PICK k \in Nat : k = Len(s)
    OBVIOUS
  <2>2. \A i \in 1..k : s[i] \in P <=> s[i] \in P \ {x}
    BY <2>1 DEF ToSet
  <2>3. CountTo(s, k, P) = CountTo(s, k, P \ {x})
    BY <2>2, CountSame
  <2>4. CountTo(s, k, P) \in Nat
    BY CountNat
  <2>5. QED
    BY <2>1, <2>3, <2>4 DEF Count
<1>3. QED
  BY <1>1, <1>2 DEF BypassCounts

--------------------------------------------------------------------------------
(* A node x skipped: the nodes that read it read prev.                     *)

\* r is the node v once prev is read for x,
Reader(r, v, x, prev, front) ==
    /\ r.type = v.type
    /\ x \in ToSet(v.fi) => r.fi = Bypass(v.fi, x, prev, front)
    /\ x \notin ToSet(v.fi) => r.fi = v.fi
    /\ BypassCounts(r.fi, v.fi, x, prev)
    /\ r.inv = v.inv + IF front THEN Occurrences(v.fi, x) ELSE 0

\* which is what Redirect makes of it,
Redirected(r, v, D, x, prev, front) ==
    r \in Node(D) /\ r.fo = v.fo /\ Reader(r, v, x, prev, front)

\* and of every node that is left.
Skips(ns, after, x, prev, front) ==
    /\ DOMAIN after \subseteq DOMAIN ns
    /\ \A n \in DOMAIN after : Reader(after[n], ns[n], x, prev, front)

\* One node of Redirect.
LEMMA RedirectNode ==
    ASSUME NEW D, NEW v \in Node(D), NEW x \in D, NEW prev \in D, NEW front \in BOOLEAN,
           NEW reads \in BOOLEAN, reads <=> x \in ToSet(v.fi), NEW r,
           r = IF ~reads THEN v
               ELSE [v EXCEPT !.fi = Bypass(v.fi, x, prev, front),
                              !.inv = IF front THEN @ + Occurrences(v.fi, x) ELSE @]
    PROVE  Redirected(r, v, D, x, prev, front)
<1>1. v.fi \in Seq(D) /\ v.fo \in Seq(D) /\ v.type \in Types /\ v.inv \in Nat
  BY DEF Node
<1>2. PICK o : o = Occurrences(v.fi, x)
  OBVIOUS
<1>3. o \in Nat /\ (o = 0 <=> x \notin ToSet(v.fi))
  BY <1>1, <1>2, Occurring
<1>4. CASE ~reads
  <2>1. BypassCounts(v.fi, v.fi, x, prev)
    BY <1>1, <1>4, BypassNothing
  <2>2. v.inv = v.inv + IF front THEN o ELSE 0
    BY <1>1, <1>3, <1>4
  <2>3. QED
    BY <1>2, <1>4, <2>1, <2>2 DEF Redirected, Reader
<1>5. CASE reads
  <2>1. PICK t : t = Bypass(v.fi, x, prev, front)
    OBVIOUS
  <2>2. t \in Seq(D)
    BY <1>1, <2>1, BypassType
  <2>3. BypassCounts(t, v.fi, x, prev)
    BY <1>1, <2>1, BypassCount
  <2>4. r = [v EXCEPT !.fi = t, !.inv = IF front THEN @ + o ELSE @]
    BY <1>2, <1>5, <2>1
  <2>9. PICK i : i = IF front THEN v.inv + o ELSE v.inv
    OBVIOUS
  <2>10. i \in Nat
    BY <1>1, <1>3, <2>9
  <2>11. r = [v EXCEPT !.fi = t, !.inv = i]
    BY <2>4, <2>9
  <2>12. r \in Node(D) /\ r.type = v.type /\ r.fo = v.fo /\ r.fi = t /\ r.inv = i
    BY <2>2, <2>10, <2>11 DEF Node
  <2>5. /\ r \in Node(D) /\ r.type = v.type /\ r.fo = v.fo /\ r.fi = t
        /\ r.inv = IF front THEN v.inv + o ELSE v.inv
    BY <2>9, <2>12
  <2>6. r.inv = v.inv + IF front THEN o ELSE 0
    BY <1>1, <1>3, <2>5
  <2>7. QED
    BY <1>2, <1>5, <2>1, <2>3, <2>5, <2>6 DEF Redirected, Reader
<1>6. QED
  BY <1>4, <1>5

\* Two sequences, one after the other.
LEMMA OccurrencesJoined ==
    ASSUME NEW T, NEW s \in Seq(T), NEW t \in Seq(T), NEW n
    PROVE  Occurrences(s \o t, n) = Occurrences(s, n) + Occurrences(t, n)
<1>1. s \o t \in Seq(T)
  BY ConcatProperties
<1>2. Occurrences(s \o t, n) = Count(s \o t, {n})
  BY <1>1, Occurring
<1>3. Occurrences(s, n) = Count(s, {n}) /\ Occurrences(t, n) = Count(t, {n})
  BY Occurring
<1>4. QED
  BY <1>2, <1>3, CountJoined

\* The fan-outs of x are the nodes that read it.
Drives(ns, x) == \A n \in DOMAIN ns : n \in ToSet(ns[x].fo) <=> x \in ToSet(ns[n].fi)

\* Mirrored edges say who reads x.
LEMMA MirrorDrives ==
    ASSUME NEW ns, Typed(ns), Mirror(ns), NEW x \in DOMAIN ns
    PROVE  Drives(ns, x)
<1> SUFFICES ASSUME NEW n \in DOMAIN ns
             PROVE  n \in ToSet(ns[x].fo) <=> x \in ToSet(ns[n].fi)
  BY DEF Drives
<1>1. ns[x].fo \in Seq(DOMAIN ns) /\ ns[n].fi \in Seq(DOMAIN ns)
  BY DEF Typed, Node
<1>2. Occurrences(ns[x].fo, n) = 0 <=> n \notin ToSet(ns[x].fo)
  BY <1>1, Occurring
<1>3. Occurrences(ns[n].fi, x) = 0 <=> x \notin ToSet(ns[n].fi)
  BY <1>1, Occurring
<1>4. QED
  BY <1>2, <1>3 DEF Mirror

\* Redirect at one node of the netlist.
LEMMA RedirectAt ==
    ASSUME NEW ns, Typed(ns), NEW x \in DOMAIN ns, NEW prev \in DOMAIN ns, Drives(ns, x),
           NEW front \in BOOLEAN, NEW n \in DOMAIN ns
    PROVE  Redirected(Redirect(ns, x, prev, front)[n], ns[n], DOMAIN ns, x, prev, front)
<1>1. PICK v : v = ns[n]
  OBVIOUS
<1>2. v \in Node(DOMAIN ns)
  BY <1>1 DEF Typed
<1>3. PICK reads \in BOOLEAN : reads <=> n \in ToSet(ns[x].fo)
  OBVIOUS
<1>4. reads <=> x \in ToSet(v.fi)
  BY <1>1, <1>3 DEF Drives
<1>5. Redirect(ns, x, prev, front)[n]
         = IF ~reads THEN v
           ELSE [v EXCEPT !.fi = Bypass(v.fi, x, prev, front),
                          !.inv = IF front THEN @ + Occurrences(v.fi, x) ELSE @]
  BY <1>1, <1>3 DEF Redirect, Bypass
<1>6. PICK r : r = IF ~reads THEN v
                   ELSE [v EXCEPT !.fi = Bypass(v.fi, x, prev, front),
                                  !.inv = IF front THEN @ + Occurrences(v.fi, x) ELSE @]
  OBVIOUS
<1>7. PICK D : D = DOMAIN ns
  OBVIOUS
<1>8. v \in Node(D) /\ x \in D /\ prev \in D
  BY <1>2, <1>7
<1>9. Redirected(r, v, D, x, prev, front)
  BY ONLY <1>4, <1>6, <1>8, reads \in BOOLEAN, front \in BOOLEAN, RedirectNode
<1>10. QED
  BY <1>1, <1>5, <1>6, <1>7, <1>9

\* r is v with the fan-outs f.
Refanned(r, v, D, f) ==
    /\ r \in Node(D)
    /\ r.type = v.type /\ r.fi = v.fi /\ r.inv = v.inv /\ r.fo = f

\* A node gets other fan-outs,
LEMMA NewFanOuts ==
    ASSUME NEW D, NEW v \in Node(D), NEW f \in Seq(D), NEW r, r = [v EXCEPT !.fo = f]
    PROVE  Refanned(r, v, D, f)
BY DEF Refanned, Node

\* or keeps its own.
LEMMA SameFanOuts ==
    ASSUME NEW D, NEW v \in Node(D)
    PROVE  Refanned(v, v, D, v.fo)
BY DEF Refanned

\* FixOutput: prev drives what the output x drove, and x nothing.
FixedNodes(ns, x, prev) ==
    [Redirect(ns, x, prev, FALSE) EXCEPT ![prev].fo = @ \o ns[x].fo, ![x].fo = <<>>]

\* Such nodes are mirrored again, and x is skipped.
LEMMA FixedOutput ==
    ASSUME NEW ns, Typed(ns), Mirror(ns), NEW x \in DOMAIN ns, NEW prev \in DOMAIN ns, x # prev,
           NEW after, after = FixedNodes(ns, x, prev)
    PROVE  /\ DOMAIN after = DOMAIN ns
           /\ Typed(after) /\ Mirror(after) /\ Skips(ns, after, x, prev, FALSE)
<1>1. PICK moved : moved = Redirect(ns, x, prev, FALSE)
  OBVIOUS
<1>2. PICK D : D = DOMAIN ns
  OBVIOUS
<1>3. DOMAIN moved = D
  BY <1>1, <1>2 DEF Redirect
<1>4. moved = [n \in D |-> moved[n]]
  BY <1>1, <1>2 DEF Redirect
<1>5. ASSUME NEW n \in D
      PROVE  moved[n] \in Node(D) /\ moved[n].fo = ns[n].fo /\ Reader(moved[n], ns[n], x, prev, FALSE)
  BY <1>1, <1>2, MirrorDrives, RedirectAt DEF Redirected
<1>6. PICK joined : joined = ns[prev].fo \o ns[x].fo
  OBVIOUS
<1>7. ASSUME NEW n \in D PROVE ns[n].fo \in Seq(D) /\ ns[n].fi \in Seq(D)
  BY <1>2 DEF Typed, Node
<1>8. joined \in Seq(D)
  BY <1>2, <1>6, <1>7, ConcatProperties
<1>9. after = [moved EXCEPT ![prev].fo = joined, ![x].fo = <<>>]
  BY <1>1, <1>2, <1>5, <1>6 DEF FixedNodes
<1>10. DOMAIN after = D
  BY <1>3, <1>9
<1>11. ASSUME NEW n \in D
       PROVE  Refanned(after[n], moved[n], D,
                       IF n = x THEN <<>> ELSE IF n = prev THEN joined ELSE moved[n].fo)
  <2>1. moved[n] \in Node(D)
    BY <1>5
  <2>2. CASE n = x
    <3>1. after[n] = [moved[n] EXCEPT !.fo = <<>>]
      BY <1>2, <1>3, <1>9, <2>2
    <3>2. <<>> \in Seq(D)
      BY <1>8
    <3>3. Refanned(after[n], moved[n], D, <<>>)
      BY <2>1, <3>1, <3>2, NewFanOuts
    <3>4. QED
      BY <2>2, <3>3
  <2>3. CASE n = prev
    <3>1. after[n] = [moved[n] EXCEPT !.fo = joined]
      BY <1>2, <1>3, <1>9, <2>3
    <3>2. joined \in Seq(D)
      BY <1>8
    <3>3. Refanned(after[n], moved[n], D, joined)
      BY <2>1, <3>1, <3>2, NewFanOuts
    <3>4. QED
      BY <2>3, <3>3
  <2>4. CASE n \notin {x, prev}
    <3>1. after[n] = moved[n]
      BY <1>2, <1>3, <1>9, <2>4
    <3>2. Refanned(after[n], moved[n], D, moved[n].fo)
      BY <2>1, <3>1, SameFanOuts
    <3>3. moved[n].fo = IF n = x THEN <<>> ELSE IF n = prev THEN joined ELSE moved[n].fo
      BY <2>4
    <3>4. QED
      BY <3>2, <3>3
  <2>5. QED
    BY <2>2, <2>3, <2>4
<1>12. Typed(after)
  BY <1>10, <1>11 DEF Typed, Refanned
<1>13. ASSUME NEW n \in D PROVE Reader(after[n], ns[n], x, prev, FALSE)
  BY <1>5, <1>11 DEF Reader, Refanned
<1>14. Skips(ns, after, x, prev, FALSE)
  BY <1>2, <1>10, <1>13 DEF Skips
<1>15. ASSUME NEW n \in D, NEW m \in D
       PROVE  Occurrences(after[n].fo, m) = Occurrences(after[m].fi, n)
  <2>1. Rereads(after[m].fi, ns[m].fi, x, prev)
    <3>1. ns[m].fi \in Seq(D) /\ after[m].fi \in Seq(D)
      BY <1>7, <1>11 DEF Node, Refanned
    <3>2. BypassCounts(after[m].fi, ns[m].fi, x, prev)
      BY <1>13 DEF Reader
    <3>3. QED
      BY <3>1, <3>2, BypassOccurrences
  <2>2. ASSUME NEW k \in D PROVE Occurrences(ns[k].fo, m) = Occurrences(ns[m].fi, k)
    BY <1>2 DEF Mirror
  <2>3. CASE n = x
    <3>1. after[n].fo = <<>>
      BY <1>11, <2>3 DEF Refanned
    <3>2. <<>> \in Seq(D) /\ m \notin ToSet(<<>>)
      BY DEF ToSet
    <3>3. Occurrences(<<>>, m) = 0
      BY <3>2, Occurring
    <3>4. QED
      BY <2>1, <2>3, <3>1, <3>3 DEF Rereads
  <2>4. CASE n = prev
    <3>1. after[n].fo = ns[prev].fo \o ns[x].fo
      BY <1>6, <1>11, <2>4 DEF Refanned
    <3>2. Occurrences(after[n].fo, m) = Occurrences(ns[prev].fo, m) + Occurrences(ns[x].fo, m)
      <4>1. ns[prev].fo \in Seq(D) /\ ns[x].fo \in Seq(D)
        BY <1>2, <1>7
      <4>2. \A s, t \in Seq(D) : Occurrences(s \o t, m) = Occurrences(s, m) + Occurrences(t, m)
        BY OccurrencesJoined
      <4>3. QED
        BY <3>1, <4>1, <4>2
    <3>3. QED
      BY <1>2, <2>1, <2>2, <2>4, <3>2 DEF Rereads
  <2>5. CASE n \notin {x, prev}
    <3>1. after[n].fo = ns[n].fo
      BY <1>5, <1>11, <2>5 DEF Refanned
    <3>2. QED
      BY <2>1, <2>2, <2>5, <3>1 DEF Rereads
  <2>6. QED
    BY <2>3, <2>4, <2>5
<1>16. Mirror(after)
  BY <1>10, <1>15 DEF Mirror
<1>17. QED
  BY <1>2, <1>10, <1>12, <1>14, <1>16

\* DeleteNode: the driver of x takes its place everywhere.
UnhookedAt(un, ns, taken, prev, n) ==
    /\ DOMAIN un = DOMAIN ns
    /\ Refanned(un[n], ns[n], DOMAIN ns, IF n = prev THEN taken ELSE ns[n].fo)

\* Unhook at one node.
LEMMA Unhooked ==
    ASSUME NEW ns, Typed(ns), NEW x \in DOMAIN ns, NEW prev \in DOMAIN ns,
           x \in ToSet(ns[prev].fo), NEW un, un = Unhook(ns, x, prev),
           NEW taken, taken = RemoveFirst(ns[prev].fo, x) \o ns[x].fo, NEW n \in DOMAIN ns
    PROVE  UnhookedAt(un, ns, taken, prev, n)
<1>1. PICK D : D = DOMAIN ns
  OBVIOUS
<1>2. ns[n] \in Node(D) /\ ns[prev] \in Node(D) /\ ns[x] \in Node(D)
  BY <1>1 DEF Typed
<1>3. ns[prev].fo \in Seq(D) /\ ns[x].fo \in Seq(D)
  BY <1>2 DEF Node
<1>4. RemoveFirst(ns[prev].fo, x) \in Seq(D)
  BY <1>3, FirstRemoved
<1>5. taken \in Seq(D)
  BY <1>3, <1>4, ConcatProperties
<1>6. un = [ns EXCEPT ![prev].fo = taken]
  BY DEF Unhook
<1>7. DOMAIN un = D
  BY <1>1, <1>6
<1>8. CASE n = prev
  <2>1. un[n] = [ns[n] EXCEPT !.fo = taken]
    BY <1>6, <1>8
  <2>2. Refanned(un[n], ns[n], D, taken)
    BY <1>2, <1>5, <2>1, NewFanOuts
  <2>3. QED
    BY <1>1, <1>7, <1>8, <2>2 DEF UnhookedAt
<1>9. CASE n # prev
  <2>1. un[n] = ns[n]
    BY <1>6, <1>9
  <2>2. Refanned(un[n], ns[n], D, ns[n].fo)
    BY <1>2, <2>1, SameFanOuts
  <2>3. QED
    BY <1>1, <1>7, <1>9, <2>2 DEF UnhookedAt
<1>10. QED
  BY <1>8, <1>9

\* How often a node is among the fan-outs that the driver takes over.
LEMMA TakenOver ==
    ASSUME NEW D, NEW f \in Seq(D), NEW g \in Seq(D), NEW x \in ToSet(f), NEW m
    PROVE  Occurrences(RemoveFirst(f, x) \o g, m)
              = Occurrences(f, m) - (IF m = x THEN 1 ELSE 0) + Occurrences(g, m)
<1>1. PICK h : h = RemoveFirst(f, x)
  OBVIOUS
<1>2. h \in Seq(D) /\ Count(h, {m}) = Count(f, {m}) - IF x \in {m} THEN 1 ELSE 0
  BY <1>1, FirstRemoved
<1>3. Occurrences(h \o g, m) = Occurrences(h, m) + Occurrences(g, m)
  BY <1>2, OccurrencesJoined
<1>4. Occurrences(h, m) = Count(h, {m}) /\ Occurrences(f, m) = Count(f, {m})
  BY <1>2, Occurring
<1>5. QED
  BY <1>1, <1>2, <1>3, <1>4

\* A single fan-in.
LEMMA OnlyFanIn ==
    ASSUME NEW D, NEW p \in D, NEW n
    PROVE  Occurrences(<<p>>, n) = IF n = p THEN 1 ELSE 0
<1>1. <<p>> \in Seq(D)
  OBVIOUS
<1>2. Occurrences(<<p>>, n) = Count(<<p>>, {n})
  BY <1>1, Occurring
<1>3. Count(<<p>>, {n}) = IF p \in {n} THEN 1 ELSE 0
  BY CountOne
<1>4. QED
  BY <1>2, <1>3

DeletedNodes(ns, x, prev, front) ==
    [n \in DOMAIN ns \ {x} |-> Redirect(Unhook(ns, x, prev), x, prev, front)[n]]

\* Such nodes are mirrored again, and x is skipped.
LEMMA DeletedNode ==
    ASSUME NEW ns, Typed(ns), Mirror(ns), NEW x \in DOMAIN ns, NEW prev \in DOMAIN ns,
           ns[x].fi = <<prev>>, x # prev, NEW front \in BOOLEAN, NEW after,
           after = DeletedNodes(ns, x, prev, front)
    PROVE  Typed(after) /\ Mirror(after) /\ Skips(ns, after, x, prev, front)
<1>1. PICK D : D = DOMAIN ns
  OBVIOUS
<1>2. PICK un : un = Unhook(ns, x, prev)
  OBVIOUS
<1>3. PICK moved : moved = Redirect(un, x, prev, front)
  OBVIOUS
<1>4. PICK taken : taken = RemoveFirst(ns[prev].fo, x) \o ns[x].fo
  OBVIOUS
<1>5. ASSUME NEW n \in D
      PROVE  /\ ns[n] \in Node(D)
             /\ ns[n].fo \in Seq(D) /\ ns[n].fi \in Seq(D)
  BY <1>1 DEF Typed, Node
<1>6. ASSUME NEW n \in D, NEW m \in D PROVE Occurrences(ns[n].fo, m) = Occurrences(ns[m].fi, n)
  BY <1>1 DEF Mirror
<1>7. ASSUME NEW n \in D PROVE Occurrences(ns[n].fo, x) = IF n = prev THEN 1 ELSE 0
  <2>1. Occurrences(<<prev>>, n) = IF n = prev THEN 1 ELSE 0
    BY <1>1, OnlyFanIn
  <2>2. Occurrences(ns[n].fo, x) = Occurrences(<<prev>>, n)
    BY <1>1, <1>6
  <2>3. QED
    BY <2>1, <2>2
<1>8. x \in ToSet(ns[prev].fo)
  <2>1. Occurrences(ns[prev].fo, x) = 0 <=> x \notin ToSet(ns[prev].fo)
    BY <1>1, <1>5, Occurring
  <2>2. QED
    BY <1>1, <1>7, <2>1
<1>9. ASSUME NEW n \in D
      PROVE  /\ DOMAIN un = D
             /\ Refanned(un[n], ns[n], D, IF n = prev THEN taken ELSE ns[n].fo)
  <2>1. n \in DOMAIN ns
    BY <1>1
  <2>2. UnhookedAt(un, ns, taken, prev, n)
    BY <1>2, <1>4, <1>8, <2>1, Unhooked
  <2>3. QED
    BY <1>1, <2>2 DEF UnhookedAt
<1>10. DOMAIN un = D /\ Typed(un)
  BY <1>1, <1>9 DEF Typed, Refanned
<1>11. Drives(un, x)
  <2>1. Drives(ns, x)
    BY MirrorDrives
  <2>2. un[x].fo = ns[x].fo /\ \A n \in D : un[n].fi = ns[n].fi
    BY <1>1, <1>9 DEF Refanned
  <2>3. QED
    BY <1>1, <1>10, <2>1, <2>2 DEF Drives
<1>12. ASSUME NEW n \in D PROVE Redirected(moved[n], un[n], D, x, prev, front)
  BY <1>1, <1>3, <1>10, <1>11, RedirectAt
<1>13. DOMAIN after = D \ {x} /\ \A n \in D \ {x} : after[n] = moved[n]
  BY <1>1, <1>2, <1>3 DEF DeletedNodes
<1>14. ASSUME NEW n \in D \ {x}
       PROVE  /\ after[n] \in Node(D)
              /\ after[n].fo = IF n = prev THEN taken ELSE ns[n].fo
              /\ Reader(after[n], ns[n], x, prev, front)
  <2>1. Redirected(after[n], un[n], D, x, prev, front)
    BY <1>12, <1>13
  <2>2. Refanned(un[n], ns[n], D, IF n = prev THEN taken ELSE ns[n].fo)
    BY <1>9
  <2>3. QED
    BY <2>1, <2>2 DEF Redirected, Refanned, Reader
<1>15. Skips(ns, after, x, prev, front)
  BY <1>1, <1>13, <1>14 DEF Skips
<1>16. ASSUME NEW n \in D \ {x}, NEW m \in D
       PROVE  Occurrences(after[n].fo, m) = IF m = x THEN 0
                                            ELSE Occurrences(ns[n].fo, m)
                                                   + IF n = prev THEN Occurrences(ns[x].fo, m) ELSE 0
  <2>1. \A k \in D : Occurrences(ns[k].fo, m) \in Nat
    BY <1>5, Occurring
  <2>2. Occurrences(ns[x].fo, x) = 0
    BY <1>1, <1>7
  <2>3. CASE n = prev
    <3>1. after[n].fo = taken
      BY <1>14, <2>3
    <3>2. Occurrences(taken, m) = Occurrences(ns[prev].fo, m) - (IF m = x THEN 1 ELSE 0)
                                      + Occurrences(ns[x].fo, m)
      <4>1. PICK f, g : f = ns[prev].fo /\ g = ns[x].fo
        OBVIOUS
      <4>2. f \in Seq(D) /\ g \in Seq(D) /\ x \in ToSet(f) /\ taken = RemoveFirst(f, x) \o g
        BY <1>1, <1>4, <1>5, <1>8, <4>1
      <4>3. Occurrences(taken, m) = Occurrences(f, m) - (IF m = x THEN 1 ELSE 0) + Occurrences(g, m)
        BY ONLY <4>2, TakenOver
      <4>4. QED
        BY <4>1, <4>3
    <3>3. Occurrences(ns[prev].fo, x) = 1
      BY <1>1, <1>7
    <3>4. QED
      BY <1>1, <2>1, <2>2, <2>3, <3>1, <3>2, <3>3
  <2>4. CASE n # prev
    <3>1. after[n].fo = ns[n].fo
      BY <1>14, <2>4
    <3>2. Occurrences(ns[n].fo, x) = 0
      BY <1>7, <2>4
    <3>3. QED
      BY <2>1, <2>4, <3>1, <3>2
  <2>5. QED
    BY <2>3, <2>4
<1>17. ASSUME NEW m \in D \ {x} PROVE Rereads(after[m].fi, ns[m].fi, x, prev)
  <2>1. ns[m].fi \in Seq(D) /\ after[m].fi \in Seq(D)
    BY <1>5, <1>14 DEF Node
  <2>2. BypassCounts(after[m].fi, ns[m].fi, x, prev)
    BY <1>14 DEF Reader
  <2>3. QED
    BY <2>1, <2>2, BypassOccurrences
<1>18. Typed(after)
  <2> SUFFICES ASSUME NEW n \in D \ {x} PROVE after[n] \in Node(D \ {x})
    BY <1>13 DEF Typed
  <2>1. after[n] \in Node(D) /\ after[n].fi \in Seq(D) /\ after[n].fo \in Seq(D)
    BY <1>14 DEF Node
  <2>2. Occurrences(after[n].fo, x) = 0
    BY <1>1, <1>16
  <2>3. Occurrences(after[n].fi, x) = 0
    BY <1>17 DEF Rereads
  <2>4. x \notin ToSet(after[n].fo) /\ x \notin ToSet(after[n].fi)
    BY <2>1, <2>2, <2>3, Occurring
  <2>5. after[n].fi \in Seq(D \ {x}) /\ after[n].fo \in Seq(D \ {x})
    BY <2>1, <2>4, Missing
  <2>6. QED
    BY <2>1, <2>5 DEF Node
<1>19. ASSUME NEW n \in D \ {x}, NEW m \in D \ {x}
       PROVE  Occurrences(after[n].fo, m) = Occurrences(after[m].fi, n)
  <2>1. Occurrences(ns[n].fo, m) = Occurrences(ns[m].fi, n)
    BY <1>6
  <2>2. Occurrences(ns[x].fo, m) = Occurrences(ns[m].fi, x)
    BY <1>1, <1>6
  <2>3. Occurrences(ns[m].fi, n) \in Nat
    BY <1>5, Occurring
  <2>4. Rereads(after[m].fi, ns[m].fi, x, prev)
    BY <1>17
  <2>5. CASE n = prev
    BY <1>16, <2>1, <2>2, <2>4, <2>5 DEF Rereads
  <2>6. CASE n # prev
    <3>1. Occurrences(after[n].fo, m) = Occurrences(ns[n].fo, m) + 0
      BY <1>16, <2>6
    <3>2. Occurrences(after[m].fi, n) = Occurrences(ns[m].fi, n)
      BY <2>4, <2>6 DEF Rereads
    <3>3. QED
      BY <2>1, <2>3, <3>1, <3>2
  <2>7. QED
    BY <2>5, <2>6
<1>20. Mirror(after)
  BY <1>13, <1>19 DEF Mirror
<1>21. QED
  BY <1>15, <1>18, <1>20

--------------------------------------------------------------------------------
(* What is true of every node that reads prev in the place of x.           *)

\* Type and number of fan-ins stay, prev is the only new one.
LEMMA SkippedNode ==
    ASSUME NEW ns, Typed(ns), NEW x \in DOMAIN ns, NEW prev \in DOMAIN ns, NEW front \in BOOLEAN,
           NEW after, Skips(ns, after, x, prev, front), NEW n \in DOMAIN after
    PROVE  /\ n \in DOMAIN ns
           /\ Len(after[n].fi) = Len(ns[n].fi)
           /\ ToSet(after[n].fi) \subseteq ToSet(ns[n].fi) \cup {prev}
           /\ x \notin ToSet(ns[n].fi) => after[n].fi = ns[n].fi
           /\ after[n].type = ns[n].type
<1>1. PICK D : D = DOMAIN ns
  OBVIOUS
<1>2. n \in D /\ Reader(after[n], ns[n], x, prev, front)
  BY <1>1 DEF Skips
<1>3. PICK s : s = ns[n].fi
  OBVIOUS
<1>4. s \in Seq(D)
  BY <1>1, <1>2, <1>3 DEF Typed, Node
<1>5. PICK t : t = after[n].fi
  OBVIOUS
<1>6. /\ t = s \/ t = Bypass(s, x, prev, front)
      /\ x \notin ToSet(s) => t = s
      /\ after[n].type = ns[n].type
  BY <1>2, <1>3, <1>5 DEF Reader
<1>7. x \in D /\ prev \in D
  BY <1>1
<1>8. Len(Bypass(s, x, prev, front)) = Len(s)
  BY <1>4, <1>7, BypassLen
<1>9. ToSet(Bypass(s, x, prev, front)) \subseteq ToSet(s) \cup {prev}
  <2>1. ToSet(Bypass(s, x, prev, front))
           = (ToSet(s) \ {x}) \cup IF x \in ToSet(s) THEN {prev} ELSE {}
    BY <1>4, <1>7, BypassSet
  <2>2. QED
    BY <2>1
<1>10. Len(t) = Len(s) /\ ToSet(t) \subseteq ToSet(s) \cup {prev}
  BY <1>6, <1>8, <1>9
<1>11. QED
  BY <1>1, <1>2, <1>3, <1>5, <1>6, <1>10

\* prev is the only new fan-in.
Skipped(ns, after, x, prev) ==
    \A n \in DOMAIN after :
        /\ n \in DOMAIN ns /\ after[n].type = ns[n].type
        /\ ToSet(after[n].fi) \subseteq ToSet(ns[n].fi) \cup {prev}
        /\ x \notin ToSet(ns[n].fi) => after[n].fi = ns[n].fi

\* That is what skipping does.
LEMMA SkippedNodes ==
    ASSUME NEW ns, Typed(ns), NEW x \in DOMAIN ns, NEW prev \in DOMAIN ns, NEW front \in BOOLEAN,
           NEW after, Skips(ns, after, x, prev, front)
    PROVE  Skipped(ns, after, x, prev)
BY SkippedNode DEF Skipped

\* Some node of every set reads no other one of it.
Loopless(ns) ==
    \A S \in SUBSET DOMAIN ns : S # {} => \E n \in S : ToSet(ns[n].fi) \cap S = {}

\* Skipping a node closes no loop.
LEMMA LooplessSkip ==
    ASSUME NEW ns, Typed(ns), Loopless(ns), NEW x \in DOMAIN ns, NEW prev \in DOMAIN ns,
           prev \in ToSet(ns[x].fi), NEW front \in BOOLEAN,
           NEW after, Skips(ns, after, x, prev, front)
    PROVE  Loopless(after)
<1>0. Skipped(ns, after, x, prev)
  BY SkippedNodes
<1> SUFFICES ASSUME NEW S \in SUBSET DOMAIN after, S # {}
             PROVE  \E n \in S : ToSet(after[n].fi) \cap S = {}
  BY DEF Loopless
<1>1. DOMAIN after \subseteq DOMAIN ns
  BY DEF Skips
<1>2. ASSUME NEW n \in S
      PROVE  /\ ToSet(after[n].fi) \subseteq ToSet(ns[n].fi) \cup {prev}
             /\ x \notin ToSet(ns[n].fi) => after[n].fi = ns[n].fi
  BY <1>0 DEF Skipped
<1>3. CASE prev \in S
  <2>1. PICK n \in S \cup {x} : ToSet(ns[n].fi) \cap (S \cup {x}) = {}
    <3>1. S \cup {x} \in SUBSET DOMAIN ns /\ S \cup {x} # {}
      BY <1>1
    <3>2. QED
      BY <3>1 DEF Loopless
  <2>2. n # x
    BY <1>3, <2>1
  <2>3. n \in S /\ x \notin ToSet(ns[n].fi)
    BY <2>1, <2>2
  <2>4. QED
    BY <1>2, <2>1, <2>3
<1>4. CASE prev \notin S
  <2>1. PICK n \in S : ToSet(ns[n].fi) \cap S = {}
    BY <1>1 DEF Loopless
  <2>2. QED
    BY <1>2, <1>4, <2>1
<1>5. QED
  BY <1>3, <1>4

\* No node reads itself.
LEMMA NoSelfLoop ==
    ASSUME NEW ns, Loopless(ns), NEW x \in DOMAIN ns
    PROVE  x \notin ToSet(ns[x].fi)
<1>1. PICK n \in {x} : ToSet(ns[n].fi) \cap {x} = {}
  <2>1. {x} \in SUBSET DOMAIN ns /\ {x} # {}
    OBVIOUS
  <2>2. QED
    BY <2>1 DEF Loopless
<1>2. QED
  BY <1>1

\* What Simplification skips or deletes has one fan-in at most.
Single(ns) ==
    \A n \in DOMAIN ns : ns[n].type \in {"output", "wire", "BUF", "INV"} => Len(ns[n].fi) <= 1

\* Nor do they get more by skipping another.
LEMMA SingleSkip ==
    ASSUME NEW ns, Typed(ns), Single(ns), NEW x \in DOMAIN ns, NEW prev \in DOMAIN ns,
           NEW front \in BOOLEAN, NEW after, Skips(ns, after, x, prev, front)
    PROVE  Single(after)
BY SkippedNode DEF Single

\* The driver of a node that has one.
LEMMA Driver ==
    ASSUME NEW ns, Typed(ns), Loopless(ns), NEW x \in DOMAIN ns, ns[x].fi # <<>>
    PROVE  /\ ns[x].fi[1] \in DOMAIN ns /\ ns[x].fi[1] # x
           /\ ns[x].fi[1] \in ToSet(ns[x].fi)
           /\ Len(ns[x].fi) <= 1 => ns[x].fi = <<ns[x].fi[1]>>
<1>1. PICK s : s = ns[x].fi
  OBVIOUS
<1>2. s \in Seq(DOMAIN ns)
  BY <1>1 DEF Typed, Node
<1>3. s # <<>>
  BY <1>1
<1>4. 1 \in 1..Len(s) /\ Len(s) \in Nat \ {0}
  BY <1>2, <1>3
<1>5. s[1] \in DOMAIN ns
  BY <1>2, <1>4
<1>6. s[1] \in ToSet(s)
  BY <1>2, <1>4 DEF ToSet
<1>7. ASSUME Len(s) <= 1 PROVE s = <<s[1]>>
  <2>1. Len(s) = 1
    <3>1. PICK k \in Nat \ {0} : k = Len(s)
      BY <1>4
    <3>2. k <= 1
      BY <1>7, <3>1
    <3>3. QED
      BY <3>1, <3>2
  <2>2. PICK e : e = s[1]
    OBVIOUS
  <2>3. <<e>> \in Seq(DOMAIN ns) /\ Len(<<e>>) = 1 /\ <<e>>[1] = e
    BY <1>5, <2>2
  <2>4. \A i \in 1..Len(s) : s[i] = <<e>>[i]
    BY <2>1, <2>2, <2>3
  <2>5. s = <<e>>
    BY <1>2, <2>1, <2>3, <2>4, SeqEqual
  <2>6. QED
    BY <2>2, <2>5
<1>8. x \notin ToSet(s)
  BY <1>1, NoSelfLoop
<1>9. QED
  BY <1>1, <1>5, <1>6, <1>7, <1>8

--------------------------------------------------------------------------------
(* The netlist grows.                                                      *)

\* Sequences over a larger set,
LEMMA SeqGrows ==
    ASSUME NEW D, NEW E, D \subseteq E, NEW s \in Seq(D)
    PROVE  s \in Seq(E)
<1>1. \A i \in 1..Len(s) : s[i] \in E
  OBVIOUS
<1>2. s = [i \in 1..Len(s) |-> s[i]] /\ Len(s) \in Nat
  OBVIOUS
<1>3. QED
  BY <1>1, <1>2

\* and nodes over one.
LEMMA NodeGrows ==
    ASSUME NEW D, NEW E, D \subseteq E, NEW v \in Node(D)
    PROVE  v \in Node(E)
<1>1. v.fi \in Seq(E) /\ v.fo \in Seq(E)
  BY SeqGrows DEF Node
<1>2. QED
  BY <1>1 DEF Node

\* What is no node occurs nowhere.
LEMMA Absent ==
    ASSUME NEW D, NEW s \in Seq(D), NEW n, n \notin D
    PROVE  Occurrences(s, n) = 0
<1>1. n \notin ToSet(s)
  BY DEF ToSet
<1>2. QED
  BY <1>1, Occurring

\* after has the nodes of ns and the new ones of N, that are of the type given.
Extends(ns, after, N, type) ==
    /\ DOMAIN after = DOMAIN ns \cup N
    /\ \A n \in DOMAIN after : after[n] = IF n \in DOMAIN ns THEN ns[n] ELSE NewNode(type)

\* New nodes have no edges.
LEMMA ExtendedGraph ==
    ASSUME NEW ns, Typed(ns), Mirror(ns), NEW N, NEW type \in Types,
           NEW after, Extends(ns, after, N, type)
    PROVE  Typed(after) /\ Mirror(after)
<1>1. PICK D, E : D = DOMAIN ns /\ E = DOMAIN after
  OBVIOUS
<1>2. D \subseteq E
  BY <1>1 DEF Extends
<1>3. <<>> \in Seq(E)
  OBVIOUS
<1>4. NewNode(type) \in Node(E) /\ NewNode(type).fi = <<>> /\ NewNode(type).fo = <<>>
  BY <1>3 DEF NewNode, Node
<1>5. ASSUME NEW n \in D
      PROVE  /\ after[n] = ns[n] /\ ns[n] \in Node(D)
             /\ ns[n].fi \in Seq(D) /\ ns[n].fo \in Seq(D)
  BY <1>1, <1>2 DEF Extends, Typed, Node
<1>6. ASSUME NEW n \in E, n \notin D PROVE after[n] = NewNode(type)
  BY <1>1, <1>6 DEF Extends
<1>7. Typed(after)
  <2> SUFFICES ASSUME NEW n \in E PROVE after[n] \in Node(E)
    BY <1>1 DEF Typed
  <2>1. CASE n \in D
    BY <1>2, <1>5, <2>1, NodeGrows
  <2>2. CASE n \notin D
    BY <1>4, <1>6, <2>2
  <2>3. QED
    BY <2>1, <2>2
<1>8. ASSUME NEW n PROVE Occurrences(<<>>, n) = 0
  <2>1. {i \in DOMAIN <<>> : <<>>[i] = n} = {}
    OBVIOUS
  <2>2. QED
    BY <2>1, FS_EmptySet DEF Occurrences
<1>9. ASSUME NEW n \in E, NEW m \in E
      PROVE  Occurrences(after[n].fo, m) = Occurrences(after[m].fi, n)
  <2>1. CASE n \in D /\ m \in D
    BY <1>1, <1>5, <2>1 DEF Mirror
  <2>2. CASE n \in D /\ m \notin D
    <3>1. Occurrences(ns[n].fo, m) = 0
      BY <1>5, <2>2, Absent
    <3>2. after[m].fi = <<>> /\ after[n] = ns[n]
      BY <1>4, <1>5, <1>6, <2>2
    <3>3. QED
      BY <1>8, <3>1, <3>2
  <2>3. CASE n \notin D /\ m \in D
    <3>1. Occurrences(ns[m].fi, n) = 0
      BY <1>5, <2>3, Absent
    <3>2. after[n].fo = <<>> /\ after[m] = ns[m]
      BY <1>4, <1>5, <1>6, <2>3
    <3>3. QED
      BY <1>8, <3>1, <3>2
  <2>4. CASE n \notin D /\ m \notin D
    <3>1. after[n].fo = <<>> /\ after[m].fi = <<>>
      BY <1>4, <1>6, <2>4
    <3>2. QED
      BY <1>8, <3>1
  <2>5. QED
    BY <2>1, <2>2, <2>3, <2>4
<1>10. Mirror(after)
  BY <1>1, <1>9 DEF Mirror
<1>11. QED
  BY <1>7, <1>10

\* One more element.
LEMMA OccurrencesAppended ==
    ASSUME NEW T, NEW s \in Seq(T), NEW e \in T, NEW n
    PROVE  Occurrences(Append(s, e), n) = Occurrences(s, n) + IF n = e THEN 1 ELSE 0
<1>1. PICK t : t = Append(s, e)
  OBVIOUS
<1>2. t \in Seq(T)
  BY <1>1
<1>3. Count(t, {n}) = Count(s, {n}) + IF e \in {n} THEN 1 ELSE 0
  BY <1>1, CountAppend
<1>4. Occurrences(t, n) = Count(t, {n}) /\ Occurrences(s, n) = Count(s, {n})
  BY <1>2, Occurring
<1>5. QED
  BY <1>1, <1>3, <1>4

\* The same element again and again.
LEMMA OccurrencesTimes ==
    ASSUME NEW T, NEW e \in T, NEW k \in Nat, NEW n
    PROVE  Times(e, k) \in Seq(T) /\ Occurrences(Times(e, k), n) = IF n = e THEN k ELSE 0
<1>1. PICK t : t = Times(e, k)
  OBVIOUS
<1>2. t \in Seq(T) /\ Count(t, {n}) = IF e \in {n} THEN k ELSE 0
  BY <1>1, CountTimes
<1>3. Occurrences(t, n) = Count(t, {n})
  BY <1>2, Occurring
<1>4. QED
  BY <1>1, <1>2, <1>3

\* The gate g of a new node, connected: out is driven by g, which reads ins.
ConnectedNode(r, v, E, n, g, out, ins) ==
    /\ r \in Node(E)
    /\ r.type = v.type /\ r.inv = v.inv
    /\ r.fi = IF n = g THEN v.fi \o ins ELSE IF n = out THEN Append(v.fi, g) ELSE v.fi
    /\ r.fo = IF n = g THEN Append(v.fo, out) ELSE v.fo \o Times(g, Occurrences(ins, n))

\* Connect at one node.
LEMMA ConnectAt ==
    ASSUME NEW E, NEW v \in Node(E), NEW g \in E, NEW out \in E, NEW ins \in Seq(E), NEW n, NEW r,
           r = [v EXCEPT !.fi = IF n = g THEN @ \o ins ELSE IF n = out THEN Append(@, g) ELSE @,
                         !.fo = IF n = g THEN Append(@, out)
                                ELSE @ \o Times(g, Occurrences(ins, n))]
    PROVE  ConnectedNode(r, v, E, n, g, out, ins)
<1>1. v.fi \in Seq(E) /\ v.fo \in Seq(E)
  BY DEF Node
<1>2. PICK a : a = IF n = g THEN v.fi \o ins ELSE IF n = out THEN Append(v.fi, g) ELSE v.fi
  OBVIOUS
<1>3. PICK k \in Nat : k = Occurrences(ins, n)
  BY Occurring
<1>4. PICK w : w = Times(g, k)
  OBVIOUS
<1>5. w \in Seq(E)
  BY <1>4, OccurrencesTimes
<1>6. PICK b : b = IF n = g THEN Append(v.fo, out) ELSE v.fo \o w
  OBVIOUS
<1>7. a \in Seq(E)
  <2>1. v.fi \o ins \in Seq(E) /\ Append(v.fi, g) \in Seq(E)
    BY <1>1, ConcatProperties
  <2>2. QED
    BY <1>1, <1>2, <2>1
<1>8. b \in Seq(E)
  <2>1. v.fo \o w \in Seq(E) /\ Append(v.fo, out) \in Seq(E)
    BY <1>1, <1>5, ConcatProperties
  <2>2. QED
    BY <1>6, <2>1
<1>9. r = [v EXCEPT !.fi = a, !.fo = b]
  BY <1>2, <1>3, <1>4, <1>6
<1>10. r \in Node(E) /\ r.type = v.type /\ r.inv = v.inv /\ r.fi = a /\ r.fo = b
  BY <1>7, <1>8, <1>9 DEF Node
<1>11. QED
  BY <1>2, <1>3, <1>4, <1>6, <1>10 DEF ConnectedNode

\* A new gate g connected to the nets pins, the output first.
Connected(ns, after, g, pins, type) ==
    /\ DOMAIN after = DOMAIN ns \cup {g}
    /\ after[g].type = type /\ after[g].fi = Tail(pins) /\ after[g].inv = 0
    /\ \A n \in DOMAIN ns :
           /\ after[n].type = ns[n].type /\ after[n].inv = ns[n].inv
           /\ after[n].fi = IF n = Head(pins) THEN Append(ns[n].fi, g) ELSE ns[n].fi

\* Connect adds every edge in both directions.
LEMMA ConnectedGraph ==
    ASSUME NEW ns, Typed(ns), Mirror(ns), NEW g, g \notin DOMAIN ns,
           NEW pins \in Seq(DOMAIN ns), pins # <<>>, NEW type \in Types,
           NEW with, Extends(ns, with, {g}, type), NEW after, after = Connect(with, g, pins)
    PROVE  Typed(after) /\ Mirror(after) /\ Connected(ns, after, g, pins, type)
<1>1. PICK D, E : D = DOMAIN ns /\ E = DOMAIN with
  OBVIOUS
<1>2. E = D \cup {g} /\ g \notin D
  BY <1>1 DEF Extends
<1>3. Typed(with) /\ Mirror(with)
  BY ExtendedGraph
<1>4. PICK out, ins : out = Head(pins) /\ ins = Tail(pins)
  OBVIOUS
<1>5. out \in D /\ ins \in Seq(D)
  BY <1>1, <1>4
<1>6. ins \in Seq(E) /\ out \in E /\ g \in E
  BY <1>2, <1>5, SeqGrows
<1>7. DOMAIN after = E
  BY <1>1 DEF Connect
<1>8. ASSUME NEW n \in E PROVE ConnectedNode(after[n], with[n], E, n, g, out, ins)
  <2>1. with[n] \in Node(E)
    BY <1>1, <1>3 DEF Typed
  <2>2. after[n] = [with[n] EXCEPT !.fi = IF n = g THEN @ \o ins
                                          ELSE IF n = out THEN Append(@, g) ELSE @,
                                   !.fo = IF n = g THEN Append(@, out)
                                          ELSE @ \o Times(g, Occurrences(ins, n))]
    BY <1>1, <1>4 DEF Connect
  <2>3. QED
    BY <1>6, <2>1, <2>2, ConnectAt
<1>9. Typed(after)
  BY <1>7, <1>8 DEF Typed, ConnectedNode
<1>10. with[g] = NewNode(type)
  BY <1>1, <1>2 DEF Extends
<1>11. ASSUME NEW n \in D
       PROVE  with[n] = ns[n] /\ ns[n].fi \in Seq(D) /\ ns[n].fo \in Seq(D) /\ n # g /\ n \in E
  BY <1>1, <1>2 DEF Extends, Typed, Node
<1>12. after[g].type = type /\ after[g].fi = ins /\ after[g].fo = <<out>> /\ after[g].inv = 0
  <2>1. ConnectedNode(after[g], with[g], E, g, g, out, ins)
    BY <1>6, <1>8
  <2>2. with[g].type = type /\ with[g].inv = 0 /\ with[g].fi = <<>> /\ with[g].fo = <<>>
    BY <1>10 DEF NewNode
  <2>3. after[g].fi = <<>> \o ins /\ after[g].fo = Append(<<>>, out)
    BY <2>1, <2>2 DEF ConnectedNode
  <2>4. <<>> \o ins = ins
    BY <1>5, ConcatEmptySeq
  <2>5. Append(<<>>, out) = <<out>>
    OBVIOUS
  <2>6. QED
    BY <2>1, <2>2, <2>3, <2>4, <2>5 DEF ConnectedNode
<1>13. ASSUME NEW n \in D
       PROVE  /\ after[n].type = ns[n].type /\ after[n].inv = ns[n].inv
              /\ after[n].fi = IF n = out THEN Append(ns[n].fi, g) ELSE ns[n].fi
              /\ after[n].fo = ns[n].fo \o Times(g, Occurrences(ins, n))
  <2>1. ConnectedNode(after[n], with[n], E, n, g, out, ins)
    BY <1>8, <1>11
  <2>2. with[n] = ns[n] /\ n # g
    BY <1>11
  <2>3. QED
    BY <2>1, <2>2 DEF ConnectedNode
<1>14. Connected(ns, after, g, pins, type)
  <2>1. DOMAIN after = DOMAIN ns \cup {g}
    BY <1>1, <1>2, <1>7
  <2>2. QED
    BY <1>1, <1>4, <1>12, <1>13, <2>1 DEF Connected
<1>15. ASSUME NEW n PROVE Occurrences(after[g].fi, n) = Occurrences(ins, n)
  BY <1>12
<1>16. ASSUME NEW m \in E PROVE Occurrences(after[g].fo, m) = IF m = out THEN 1 ELSE 0
  BY <1>6, <1>12, OnlyFanIn
<1>17. ASSUME NEW n \in D, NEW m \in E
       PROVE  Occurrences(after[n].fi, m)
                 = Occurrences(ns[n].fi, m) + IF n = out /\ m = g THEN 1 ELSE 0
  <2>1. PICK s : s = ns[n].fi
    OBVIOUS
  <2>2. s \in Seq(E)
    BY <1>2, <1>11, <2>1, SeqGrows
  <2>3. Occurrences(s, m) \in Nat
    BY <2>2, Occurring
  <2>4. CASE n = out
    <3>1. after[n].fi = Append(s, g)
      BY <1>13, <2>1, <2>4
    <3>2. Occurrences(Append(s, g), m) = Occurrences(s, m) + IF m = g THEN 1 ELSE 0
      BY <1>6, <2>2, OccurrencesAppended
    <3>3. QED
      BY <2>1, <2>4, <3>1, <3>2
  <2>5. CASE n # out
    <3>1. after[n].fi = s
      BY <1>13, <2>1, <2>5
    <3>2. QED
      BY <2>1, <2>3, <2>5, <3>1
  <2>6. QED
    BY <2>4, <2>5
<1>18. ASSUME NEW n \in D, NEW m \in E
       PROVE  Occurrences(after[n].fo, m)
                 = Occurrences(ns[n].fo, m) + IF m = g THEN Occurrences(ins, n) ELSE 0
  <2>1. PICK s : s = ns[n].fo
    OBVIOUS
  <2>2. PICK k \in Nat : k = Occurrences(ins, n)
    BY <1>6, Occurring
  <2>3. PICK w : w = Times(g, k)
    OBVIOUS
  <2>4. w \in Seq(E) /\ Occurrences(w, m) = IF m = g THEN k ELSE 0
    BY <1>6, <2>3, OccurrencesTimes
  <2>5. s \in Seq(E)
    BY <1>2, <1>11, <2>1, SeqGrows
  <2>6. Occurrences(s \o w, m) = Occurrences(s, m) + Occurrences(w, m)
    BY <2>4, <2>5, OccurrencesJoined
  <2>7. after[n].fo = s \o w
    BY <1>13, <2>1, <2>2, <2>3
  <2>8. QED
    BY <2>1, <2>2, <2>4, <2>6, <2>7
<1>19. ASSUME NEW n \in D
       PROVE  /\ Occurrences(ns[n].fi, g) = 0 /\ Occurrences(ns[n].fo, g) = 0
              /\ \A m : Occurrences(ns[n].fo, m) \in Nat /\ Occurrences(ns[n].fi, m) \in Nat
  BY <1>2, <1>11, Absent, Occurring
<1>20. Occurrences(ins, g) = 0 /\ out # g /\ \A n : Occurrences(ins, n) \in Nat
  BY <1>2, <1>5, Absent, Occurring
<1>21. ASSUME NEW n \in E, NEW m \in E
       PROVE  Occurrences(after[n].fo, m) = Occurrences(after[m].fi, n)
  <2>1. CASE n = g /\ m = g
    BY <1>15, <1>16, <1>20, <2>1
  <2>2. CASE n = g /\ m \in D
    BY <1>16, <1>17, <1>19, <2>2
  <2>3. CASE n \in D /\ m = g
    BY <1>15, <1>18, <1>19, <1>20, <2>3
  <2>4. CASE n \in D /\ m \in D
    <3>1. m # g /\ n # g
      BY <1>2, <2>4
    <3>2. Occurrences(ns[n].fo, m) = Occurrences(ns[m].fi, n)
      BY <1>1, <2>4 DEF Mirror
    <3>3. Occurrences(after[n].fo, m) = Occurrences(ns[n].fo, m) + 0
      BY <1>18, <2>4, <3>1
    <3>4. Occurrences(after[m].fi, n) = Occurrences(ns[m].fi, n) + 0
      BY <1>17, <2>4, <3>1
    <3>5. QED
      BY <1>19, <2>4, <3>2, <3>3, <3>4
  <2>5. QED
    BY <1>2, <2>1, <2>2, <2>3, <2>4
<1>22. Mirror(after)
  BY <1>7, <1>21 DEF Mirror
<1>23. QED
  BY <1>9, <1>14, <1>22

--------------------------------------------------------------------------------
(* The statements read so far.                                             *)

GateNames(f, k) == {f[i].name : i \in {j \in GateLines(f) : j < k}}

\* A gate whose line was read reads its pins.
LineRead(f, ns, i) ==
    /\ ToSet(f[i].names) \subseteq DOMAIN ns
    /\ f[i].name \in DOMAIN ns
    /\ ns[f[i].name].type = f[i].op
    /\ ns[f[i].name].fi = Tail(f[i].names)

\* A net reads the gate that drives it, once the gate's line was read.
NetRead(f, ns, n, k) ==
    /\ ns[n].type \in PortTypes
    /\ \/ ns[n].fi = <<>> /\ \A i \in Drivers(f, n) : k <= i
       \/ \E i \in Drivers(f, n) : i < k /\ ns[n].fi = <<f[i].name>>

Reading(f, ns, k) ==
    /\ k \in DOMAIN f
    /\ DOMAIN ns \subseteq Declared(f) \cup GateNames(f, k)
    /\ \A i \in GateLines(f) : i < k => LineRead(f, ns, i)
    /\ \A n \in DOMAIN ns \cap Declared(f) : NetRead(f, ns, n, k)

Listed(nl, ns) == nl \in Seq(DOMAIN ns) /\ IsInjective(nl)

GraphInv ==
    /\ file \in Files /\ at \in Nat \ {0}
    /\ Typed(nodes) /\ Mirror(nodes)
    /\ pc = "read" => Reading(file, nodes, line) /\ Listed(netlist, nodes)
    /\ pc \in {"outputs", "wires", "done"} =>
           Loopless(nodes) /\ Single(nodes) /\ Listed(netlist, nodes)

--------------------------------------------------------------------------------
(* Lines of a file.                                                        *)

\* What a line of a file holds,
LEMMA FileLine ==
    ASSUME NEW f \in Files, NEW i \in DOMAIN f
    PROVE  /\ Len(f) \in Nat /\ i \in 1..Len(f)
           /\ f[i].op \in STRING /\ f[i].name \in STRING /\ f[i].names \in Seq(STRING)
           /\ f[i].op = "endmodule" <=> i = Len(f)
           /\ f[i].op \in PortTypes => IsInjective(f[i].names)
<1>1. Plain(f)
  BY FilesAssumption
<1>2. PICK R : R = [op : STRING, names : Seq(STRING), name : STRING]
  OBVIOUS
<1>6. f \in Seq(R)
  BY <1>1, <1>2 DEF Plain
<1>7. Len(f) \in Nat /\ i \in 1..Len(f) /\ f[i] \in R
  BY <1>6
<1>3. /\ Len(f) \in Nat /\ i \in 1..Len(f)
      /\ f[i].op \in STRING /\ f[i].name \in STRING /\ f[i].names \in Seq(STRING)
  BY <1>2, <1>7
<1>4. (f[i].op = "endmodule" <=> i = Len(f)) /\ (f[i].op \in PortTypes => IsInjective(f[i].names))
  BY <1>1 DEF Plain
<1>5. QED
  BY <1>3, <1>4

\* the line of a gate,
LEMMA GateLine ==
    ASSUME NEW f \in Files, NEW i \in GateLines(f)
    PROVE  /\ i \in DOMAIN f /\ i \in Nat /\ f[i].op \in GateTypes
           /\ f[i].names \in Seq(STRING) /\ f[i].names # <<>>
           /\ Head(f[i].names) \in ToSet(f[i].names)
           /\ ToSet(Tail(f[i].names)) \subseteq ToSet(f[i].names)
           /\ Len(Tail(f[i].names)) = Arity(f[i].op)
           /\ f[i].name \notin Declared(f)
<1>1. Plain(f)
  BY FilesAssumption
<1>2. i \in DOMAIN f /\ f[i].op \in GateTypes
  BY DEF GateLines
<1>3. PICK s : s = f[i].names
  OBVIOUS
<1>4. s \in Seq(STRING) /\ i \in Nat
  BY <1>2, <1>3, FileLine
<1>5. PICK a : a = Arity(f[i].op)
  OBVIOUS
<1>6. a \in 0..3
  BY <1>2, <1>5 DEF Arity, GateTypes
<1>7. Len(s) = a + 1 /\ f[i].name \notin Declared(f)
  BY <1>1, <1>3, <1>5 DEF Plain
<1>8. s # <<>> /\ 1 \in 1..Len(s)
  BY <1>4, <1>6, <1>7
<1>9. Head(s) \in ToSet(s)
  BY <1>4, <1>8 DEF ToSet
<1>10. Len(Tail(s)) = a /\ \A j \in 1..a : Tail(s)[j] = s[j + 1]
  BY <1>4, <1>6, <1>7, <1>8, HeadTailProperties
<1>11. ToSet(Tail(s)) \subseteq ToSet(s)
  <2> SUFFICES ASSUME NEW n \in ToSet(Tail(s)) PROVE n \in ToSet(s)
    OBVIOUS
  <2>1. Tail(s) \in Seq(STRING)
    BY <1>4, <1>8
  <2>2. PICK j \in 1..a : n = Tail(s)[j]
    BY <1>10, <2>1 DEF ToSet
  <2>3. j + 1 \in 1..Len(s) /\ n = s[j + 1]
    BY <1>6, <1>7, <1>10, <2>2
  <2>4. QED
    BY <1>4, <2>3 DEF ToSet
<1>12. QED
  BY <1>2, <1>3, <1>4, <1>5, <1>7, <1>8, <1>9, <1>10, <1>11

\* and two of them.
LEMMA TwoGateLines ==
    ASSUME NEW f \in Files, NEW i \in GateLines(f), NEW j \in GateLines(f)
    PROVE  /\ f[i].name \notin ToSet(f[j].names)
           /\ f[i].name = f[j].name => i = j
           /\ Head(f[i].names) = Head(f[j].names) => i = j
BY FilesAssumption DEF Plain

\* One line later.
LEMMA GateNamesNext ==
    ASSUME NEW f \in Files, NEW k \in DOMAIN f
    PROVE  GateNames(f, k + 1)
              = GateNames(f, k) \cup IF k \in GateLines(f) THEN {f[k].name} ELSE {}
<1>1. \A i \in GateLines(f) : i \in Nat
  BY GateLine
<1>2. k \in Nat
  BY FileLine
<1>3. {j \in GateLines(f) : j < k + 1}
         = {j \in GateLines(f) : j < k} \cup IF k \in GateLines(f) THEN {k} ELSE {}
  BY <1>1, <1>2
<1>4. QED
  BY <1>3 DEF GateNames

--------------------------------------------------------------------------------
(* Declarations.                                                           *)

\* New nets are listed once.
LEMMA DeclarationListed ==
    ASSUME NEW T, NEW nl \in Seq(T), IsInjective(nl), NEW s \in Seq(STRING), IsInjective(s),
           NEW new, new = Without(s, T)
    PROVE  /\ ToSet(new) = ToSet(s) \ T
           /\ Listed(nl \o new, [n \in T \cup ToSet(new) |-> n])
<1>1. ToSet(new) = ToSet(s) \ T
  BY WithoutSet
<1>2. PICK E : E = T \cup ToSet(new)
  OBVIOUS
<1>3. new \in Seq(STRING)
  BY WithoutCount
<1>4. new \in Seq(E)
  <2>1. \A i \in 1..Len(new) : new[i] \in E
    BY <1>2, <1>3 DEF ToSet
  <2>2. new = [i \in 1..Len(new) |-> new[i]] /\ Len(new) \in Nat
    BY <1>3
  <2>3. QED
    BY <2>1, <2>2
<1>5. nl \in Seq(E)
  BY <1>2, SeqGrows
<1>6. nl \o new \in Seq(E)
  BY <1>4, <1>5, ConcatProperties
<1>7. ASSUME NEW n PROVE Count(nl \o new, {n}) <= 1
  <2>1. Count(nl \o new, {n}) = Count(nl, {n}) + Count(new, {n})
    BY <1>4, <1>5, CountJoined
  <2>2. Count(nl, {n}) <= 1 /\ Count(s, {n}) <= 1
    BY InjectiveCounts
  <2>3. Count(nl, {n}) \in Nat /\ (Count(nl, {n}) = 0 <=> n \notin ToSet(nl))
    BY Occurring
  <2>4. Count(s, {n}) \in Nat
    BY Occurring
  <2>5. Count(new, {n}) = Count(s, {n} \ T)
    BY WithoutCount
  <2>6. CASE n \in T
    <3>1. {n} \ T = {}
      BY <2>6
    <3>2. PICK k \in Nat : k = Len(s)
      OBVIOUS
    <3>3. CountTo(s, k, {}) = 0
      BY CountSome
    <3>4. Count(new, {n}) = 0
      BY <2>5, <3>1, <3>2, <3>3 DEF Count
    <3>5. QED
      BY <2>1, <2>2, <2>3, <3>4
  <2>7. CASE n \notin T
    <3>1. {n} \ T = {n}
      BY <2>7
    <3>2. Count(new, {n}) = Count(s, {n})
      BY <2>5, <3>1
    <3>3. n \notin ToSet(nl)
      BY <2>7 DEF ToSet
    <3>4. QED
      BY <2>1, <2>2, <2>3, <2>4, <3>2, <3>3
  <2>8. QED
    BY <2>6, <2>7
<1>8. IsInjective(nl \o new)
  BY <1>6, <1>7, InjectiveCounts
<1>9. QED
  BY <1>1, <1>2, <1>6, <1>8 DEF Listed

\* Only endmodule is the last line.
LEMMA NextLine ==
    ASSUME NEW f \in Files, NEW k \in DOMAIN f, f[k].op # "endmodule"
    PROVE  k + 1 \in DOMAIN f /\ k \in Nat
<1>1. Len(f) \in Nat /\ k \in 1..Len(f) /\ k # Len(f)
  BY FileLine
<1>2. DOMAIN f = 1..Len(f)
  <2>1. Plain(f)
    BY FilesAssumption
  <2>2. QED
    BY <2>1 DEF Plain
<1>3. QED
  BY <1>1, <1>2

\* A declaration connects nothing.
LEMMA ReadingDeclared ==
    ASSUME NEW f \in Files, NEW ns, NEW k, Reading(f, ns, k), f[k].op \in PortTypes,
           NEW N, N = ToSet(f[k].names) \ DOMAIN ns,
           NEW after, Extends(ns, after, N, f[k].op)
    PROVE  Reading(f, after, k + 1)
<1>1. k \in DOMAIN f
  BY DEF Reading
<1>2. f[k].op # "endmodule" /\ f[k].op \notin GateTypes
  BY DEF PortTypes, GateTypes
<1>3. k + 1 \in DOMAIN f /\ k \in Nat
  BY <1>1, <1>2, NextLine
<1>4. k \notin GateLines(f)
  BY <1>2 DEF GateLines
<1>5. DOMAIN ns \subseteq DOMAIN after
  BY DEF Extends
<1>6. N \subseteq Declared(f)
  BY <1>1 DEF Declared
<1>7. DOMAIN after \subseteq Declared(f) \cup GateNames(f, k + 1)
  <2>1. GateNames(f, k) \subseteq GateNames(f, k + 1)
    BY <1>1, GateNamesNext
  <2>2. QED
    BY <1>6, <2>1 DEF Reading, Extends
<1>8. ASSUME NEW i \in GateLines(f), i < k + 1 PROVE i < k /\ LineRead(f, ns, i)
  <2>1. i \in Nat /\ i # k
    BY <1>4, GateLine
  <2>2. i < k
    BY <1>3, <1>8, <2>1
  <2>3. QED
    BY <2>2 DEF Reading
<1>9. ASSUME NEW i \in GateLines(f), i < k + 1 PROVE LineRead(f, after, i)
  <2>1. LineRead(f, ns, i)
    BY <1>8, <1>9
  <2>2. after[f[i].name] = ns[f[i].name]
    BY <1>5, <2>1 DEF LineRead, Extends
  <2>3. QED
    BY <1>5, <2>1, <2>2 DEF LineRead
<1>10. ASSUME NEW n \in DOMAIN after \cap Declared(f) PROVE NetRead(f, after, n, k + 1)
  <2>1. ASSUME NEW i \in Drivers(f, n)
        PROVE  i \in GateLines(f) /\ i \in Nat /\ i # k /\ Head(f[i].names) = n
    BY <1>4, GateLine DEF Drivers
  <2>2. CASE n \in DOMAIN ns
    <3>1. NetRead(f, ns, n, k)
      BY <1>10, <2>2 DEF Reading
    <3>2. after[n] = ns[n]
      BY <1>5, <2>2 DEF Extends
    <3>3. \A i \in Drivers(f, n) : i < k <=> i < k + 1
      BY <1>3, <2>1
    <3>4. \A i \in Drivers(f, n) : k <= i => k + 1 <= i
      BY <1>3, <2>1
    <3>5. QED
      BY <3>1, <3>2, <3>3, <3>4 DEF NetRead
  <2>3. CASE n \notin DOMAIN ns
    <3>1. after[n] = NewNode(f[k].op)
      BY <1>10, <2>3 DEF Extends
    <3>2. after[n].type \in PortTypes /\ after[n].fi = <<>>
      BY <3>1 DEF NewNode
    <3>3. ASSUME NEW i \in Drivers(f, n) PROVE k + 1 <= i
      <4>1. i < k + 1 => n \in DOMAIN ns
        <5> SUFFICES ASSUME i < k + 1 PROVE n \in DOMAIN ns
          OBVIOUS
        <5>1. LineRead(f, ns, i)
          BY <1>8, <2>1
        <5>2. Head(f[i].names) \in ToSet(f[i].names)
          BY <2>1, GateLine
        <5>3. QED
          BY <2>1, <5>1, <5>2 DEF LineRead
      <4>2. QED
        BY <1>3, <2>1, <2>3, <4>1
    <3>4. QED
      BY <3>2, <3>3 DEF NetRead
  <2>4. QED
    BY <2>2, <2>3
<1>11. QED
  BY <1>3, <1>7, <1>9, <1>10 DEF Reading

\* A gate that was not read yet is no node.
LEMMA NewGate ==
    ASSUME NEW f \in Files, NEW ns, NEW k, Reading(f, ns, k), f[k].op \in GateTypes
    PROVE  f[k].name \notin DOMAIN ns
<1>1. k \in DOMAIN f /\ k \in GateLines(f)
  BY DEF Reading, GateLines
<1>2. k \in Nat /\ f[k].name \notin Declared(f)
  BY <1>1, GateLine
<1>3. QED
  BY <1>1, <1>2, TwoGateLines DEF Reading, GateNames

\* A gate is connected to its pins, and the net it drives to the gate.
LEMMA ReadingGate ==
    ASSUME NEW f \in Files, NEW ns, NEW k, Reading(f, ns, k), f[k].op \in GateTypes,
           ToSet(f[k].names) \subseteq DOMAIN ns,
           NEW after, Connected(ns, after, f[k].name, f[k].names, f[k].op)
    PROVE  Reading(f, after, k + 1)
<1>1. k \in DOMAIN f /\ k \in GateLines(f)
  BY DEF Reading, GateLines
<1>2. f[k].op # "endmodule"
  BY DEF GateTypes
<1>3. k + 1 \in DOMAIN f /\ k \in Nat
  BY <1>1, <1>2, NextLine
<1>4. DOMAIN after = DOMAIN ns \cup {f[k].name}
  BY DEF Connected
<1>5. f[k].name \notin Declared(f)
  BY <1>1, GateLine
<1>6. DOMAIN after \subseteq Declared(f) \cup GateNames(f, k + 1)
  <2>1. GateNames(f, k + 1) = GateNames(f, k) \cup {f[k].name}
    BY <1>1, GateNamesNext
  <2>2. QED
    BY <1>4, <2>1 DEF Reading
<1>8. ASSUME NEW i \in GateLines(f), i < k + 1, i # k PROVE i < k /\ LineRead(f, ns, i)
  <2>1. i \in Nat
    BY GateLine
  <2>2. i < k
    BY <1>3, <1>8, <2>1
  <2>3. QED
    BY <2>2 DEF Reading
<1>9. ASSUME NEW i \in GateLines(f), i < k + 1 PROVE LineRead(f, after, i)
  <2>1. CASE i = k
    BY <1>4, <2>1 DEF LineRead, Connected
  <2>2. CASE i # k
    <3>1. LineRead(f, ns, i)
      BY <1>8, <1>9, <2>2
    <3>2. f[i].name # Head(f[k].names)
      BY <1>1, GateLine, TwoGateLines
    <3>3. QED
      BY <1>4, <3>1, <3>2 DEF LineRead, Connected
  <2>3. QED
    BY <2>1, <2>2
<1>10. ASSUME NEW n \in DOMAIN after \cap Declared(f) PROVE NetRead(f, after, n, k + 1)
  <2>1. n \in DOMAIN ns /\ NetRead(f, ns, n, k)
    BY <1>4, <1>5, <1>10 DEF Reading
  <2>2. ASSUME NEW i \in Drivers(f, n)
        PROVE  i \in GateLines(f) /\ i \in Nat /\ Head(f[i].names) = n
    BY GateLine DEF Drivers
  <2>3. CASE n = Head(f[k].names)
    <3>1. k \in Drivers(f, n)
      BY <1>1, <2>3 DEF Drivers
    <3>2. \A i \in Drivers(f, n) : i = k
      BY <1>1, <2>2, <2>3, TwoGateLines
    <3>3. ns[n].fi = <<>>
      BY <1>3, <2>1, <3>2 DEF NetRead
    <3>4. after[n].fi = Append(<<>>, f[k].name) /\ after[n].type = ns[n].type
      BY <2>1, <2>3, <3>3 DEF Connected
    <3>5. Append(<<>>, f[k].name) = <<f[k].name>>
      OBVIOUS
    <3>6. k < k + 1
      BY <1>3
    <3>7. QED
      BY <2>1, <3>1, <3>4, <3>5, <3>6 DEF NetRead
  <2>4. CASE n # Head(f[k].names)
    <3>1. \A i \in Drivers(f, n) : i # k
      BY <2>2, <2>4
    <3>2. after[n].fi = ns[n].fi /\ after[n].type = ns[n].type
      BY <2>1, <2>4 DEF Connected
    <3>3. \A i \in Drivers(f, n) : (i < k <=> i < k + 1) /\ (k <= i => k + 1 <= i)
      BY <1>3, <2>2, <3>1
    <3>4. QED
      BY <2>1, <3>2, <3>3 DEF NetRead
  <2>5. QED
    BY <2>3, <2>4
<1>11. QED
  BY <1>3, <1>6, <1>9, <1>10 DEF Reading

\* The whole file was read: the graph has the loops of the file, none.
LEMMA ReadGraph ==
    ASSUME NEW f \in Files, NEW ns, Typed(ns), NEW k, Reading(f, ns, k), f[k].op = "endmodule"
    PROVE  Loopless(ns) /\ Single(ns)
<1>1. k \in DOMAIN f /\ k = Len(f) /\ Len(f) \in Nat
  BY FileLine DEF Reading
<1>2. ASSUME NEW i \in GateLines(f) PROVE i < k /\ LineRead(f, ns, i)
  <2>1. i \in 1..Len(f) /\ f[i].op # "endmodule"
    BY GateLine, FileLine DEF GateTypes
  <2>2. i < k
    BY <1>1, <1>2, <2>1
  <2>3. QED
    BY <2>2 DEF Reading
<1>3. ASSUME NEW n \in DOMAIN ns, n \notin Declared(f)
      PROVE  \E i \in GateLines(f) : n = f[i].name /\ LineRead(f, ns, i)
  <2>1. n \in GateNames(f, k)
    BY <1>3 DEF Reading
  <2>2. QED
    BY <1>2, <2>1 DEF GateNames
<1>4. ASSUME NEW n \in DOMAIN ns, n \in Declared(f)
      PROVE  /\ ns[n].type \in PortTypes
             /\ ns[n].fi = <<>> \/ \E i \in Drivers(f, n) : ns[n].fi = <<f[i].name>>
  BY <1>4 DEF Reading, NetRead
<1>5. ASSUME NEW g \in DOMAIN ns, g \notin Declared(f)
      PROVE  /\ ToSet(ns[g].fi) \subseteq Declared(f)
             /\ ns[g].type \in {"BUF", "INV"} => Len(ns[g].fi) = 1
  <2>1. PICK i \in GateLines(f) : g = f[i].name /\ LineRead(f, ns, i)
    BY <1>3, <1>5
  <2>2. ns[g].fi = Tail(f[i].names) /\ ns[g].type = f[i].op
    BY <2>1 DEF LineRead
  <2>3. ToSet(Tail(f[i].names)) \subseteq ToSet(f[i].names) /\ Len(Tail(f[i].names)) = Arity(f[i].op)
    BY GateLine
  <2>4. ToSet(f[i].names) \subseteq Declared(f)
    <3> SUFFICES ASSUME NEW m \in ToSet(f[i].names) PROVE m \in Declared(f)
      OBVIOUS
    <3>1. m \in DOMAIN ns
      BY <2>1 DEF LineRead
    <3>2. QED
      BY <1>3, <3>1, TwoGateLines
  <2>5. f[i].op \in {"BUF", "INV"} => Arity(f[i].op) = 1
    BY DEF Arity
  <2>6. QED
    BY <2>2, <2>3, <2>4, <2>5
<1>6. Loopless(ns)
  <2> SUFFICES ASSUME NEW S \in SUBSET DOMAIN ns, S # {},
                      \A n \in S : ToSet(ns[n].fi) \cap S # {}
               PROVE  FALSE
    BY DEF Loopless
  <2>1. PICK T : T = S \cap Declared(f)
    OBVIOUS
  <2>2. T # {}
    <3>1. PICK n \in S : TRUE
      OBVIOUS
    <3>2. PICK m \in ToSet(ns[n].fi) : m \in S
      OBVIOUS
    <3>3. n \in Declared(f) \/ m \in Declared(f)
      BY <1>5, <3>2
    <3>4. QED
      BY <2>1, <3>2, <3>3
  <2>3. PICK n \in T : \A i \in Drivers(f, n) : ToSet(Tail(f[i].names)) \cap T = {}
    <3>1. NoLoop(f)
      BY FilesAssumption DEF Plain
    <3>2. T \in (SUBSET Declared(f)) \ {{}}
      BY <2>1, <2>2
    <3>3. QED
      BY <3>1, <3>2 DEF NoLoop
  <2>4. n \in S /\ n \in DOMAIN ns /\ n \in Declared(f)
    BY <2>1, <2>3
  <2>5. PICK g \in ToSet(ns[n].fi) : g \in S
    BY <2>4
  <2>6. PICK i \in Drivers(f, n) : ns[n].fi = <<f[i].name>>
    <3>1. ns[n].fi # <<>>
      BY <2>5 DEF ToSet
    <3>2. QED
      BY <1>4, <2>4, <3>1
  <2>7. g = f[i].name /\ i \in GateLines(f)
    BY <2>5, <2>6 DEF ToSet, Drivers
  <2>8. ns[g].fi = Tail(f[i].names) /\ g \notin Declared(f)
    BY <1>2, <2>7, GateLine DEF LineRead
  <2>9. PICK m \in ToSet(ns[g].fi) : m \in S
    BY <2>5
  <2>10. m \in T
    BY <1>5, <2>1, <2>5, <2>8, <2>9
  <2>11. QED
    BY <2>3, <2>6, <2>8, <2>9, <2>10
<1>7. Single(ns)
  <2> SUFFICES ASSUME NEW n \in DOMAIN ns, ns[n].type \in {"output", "wire", "BUF", "INV"}
               PROVE  Len(ns[n].fi) <= 1
    BY DEF Single
  <2>1. CASE n \in Declared(f)
    <3>1. CASE ns[n].fi = <<>>
      <4>1. Len(<<>>) <= 1
        OBVIOUS
      <4>2. QED
        BY <3>1, <4>1
    <3>2. ASSUME NEW i \in Drivers(f, n), ns[n].fi = <<f[i].name>> PROVE Len(ns[n].fi) <= 1
      <4>1. PICK g : g = f[i].name
        OBVIOUS
      <4>2. Len(<<g>>) <= 1
        OBVIOUS
      <4>3. QED
        BY <3>2, <4>1, <4>2
    <3>3. QED
      BY <1>4, <2>1, <3>1, <3>2
  <2>2. CASE n \notin Declared(f)
    <3>1. PICK i \in GateLines(f) : n = f[i].name /\ LineRead(f, ns, i)
      BY <1>3, <2>2
    <3>2. ns[n].type \in GateTypes
      BY <3>1, GateLine DEF LineRead
    <3>3. Len(ns[n].fi) = 1
      BY <1>5, <2>2, <3>2 DEF GateTypes
    <3>4. QED
      BY <3>3
  <2>3. QED
    BY <2>1, <2>2
<1>8. QED
  BY <1>6, <1>7

--------------------------------------------------------------------------------
(* Every step keeps the graph.                                             *)

\* Before the first line there is no node.
LEMMA GraphInit == Init => GraphInv
<1> SUFFICES ASSUME Init PROVE GraphInv
  OBVIOUS
<1>1. file \in Files /\ line = 1 /\ nodes = <<>> /\ netlist = <<>> /\ pc = "read" /\ at = 1
  BY DEF Init
<1>2. DOMAIN nodes = {}
  BY <1>1
<1>3. Typed(nodes) /\ Mirror(nodes)
  BY <1>2 DEF Typed, Mirror
<1>4. line \in DOMAIN file
  <2>1. Plain(file)
    BY <1>1, FilesAssumption
  <2>2. file # <<>> /\ DOMAIN file = 1..Len(file) /\ Len(file) \in Nat
    BY <2>1 DEF Plain
  <2>3. file \in Seq([op : STRING, names : Seq(STRING), name : STRING])
    BY <2>1 DEF Plain
  <2>4. Len(file) # 0
    BY <2>2, <2>3
  <2>5. QED
    BY <1>1, <2>2, <2>4
<1>5. \A i \in GateLines(file) : i \in Nat /\ ~(i < line)
  <2>1. \A i \in GateLines(file) : i \in 1..Len(file) /\ i \in Nat
    BY <1>1, GateLine, FileLine
  <2>2. QED
    BY <1>1, <2>1
<1>6. Reading(file, nodes, line)
  BY <1>2, <1>4, <1>5 DEF Reading
<1>7. Listed(netlist, nodes)
  BY <1>1, <1>2 DEF Listed, IsInjective
<1>8. QED
  BY <1>1, <1>3, <1>6, <1>7 DEF GraphInv

\* input, output, wire: more nodes, no edges.
LEMMA GraphDeclaration == GraphInv /\ ReadDeclaration => GraphInv'
<1> SUFFICES ASSUME GraphInv, ReadDeclaration PROVE GraphInv'
  OBVIOUS
<1>1. PICK new : new = Without(file[line].names, DOMAIN nodes)
  OBVIOUS
<1>2. /\ pc = "read" /\ pc' = "read" /\ file' = file /\ line' = line + 1 /\ at' = at
      /\ file[line].op \in PortTypes
      /\ netlist' = netlist \o new
      /\ nodes' = [n \in DOMAIN nodes \cup ToSet(new) |->
                      IF n \in DOMAIN nodes THEN nodes[n] ELSE NewNode(file[line].op)]
  BY <1>1 DEF ReadDeclaration
<1>3. /\ file \in Files /\ at \in Nat \ {0} /\ Typed(nodes) /\ Mirror(nodes)
      /\ Reading(file, nodes, line) /\ Listed(netlist, nodes)
  BY <1>2 DEF GraphInv
<1>4. /\ file[line].op \in Types /\ file[line].names \in Seq(STRING)
      /\ IsInjective(file[line].names)
  <2>1. line \in DOMAIN file
    BY <1>3 DEF Reading
  <2>2. QED
    BY <1>2, <1>3, <2>1, FileLine DEF Types
<1>5. /\ ToSet(new) = ToSet(file[line].names) \ DOMAIN nodes
      /\ Listed(netlist \o new, [n \in DOMAIN nodes \cup ToSet(new) |-> n])
  <2>1. netlist \in Seq(DOMAIN nodes) /\ IsInjective(netlist)
    BY <1>3 DEF Listed
  <2>2. QED
    BY <1>1, <1>4, <2>1, DeclarationListed
<1>6. Extends(nodes, nodes', ToSet(new), file[line].op)
  BY <1>2 DEF Extends
<1>7. Typed(nodes') /\ Mirror(nodes')
  BY <1>3, <1>4, <1>6, ExtendedGraph
<1>8. Reading(file, nodes', line + 1)
  BY <1>2, <1>3, <1>5, <1>6, ReadingDeclared
<1>9. Listed(netlist', nodes')
  BY <1>2, <1>5 DEF Listed
<1>10. QED
  BY <1>2, <1>3, <1>7, <1>8, <1>9 DEF GraphInv, Typed, Mirror

\* Reading a gate connects it.
LEMMA GateConnected ==
    ASSUME GraphInv, ReadGate
    PROVE  /\ Typed(nodes') /\ Mirror(nodes')
           /\ Connected(nodes, nodes', file[line].name, file[line].names, file[line].op)
<1>1. PICK g, pins, type : g = file[line].name /\ pins = file[line].names /\ type = file[line].op
  OBVIOUS
<1>2. PICK with : with = [n \in DOMAIN nodes \cup {g} |-> IF n = g THEN NewNode(type) ELSE nodes[n]]
  OBVIOUS
<1>3. /\ pc = "read" /\ type \in GateTypes /\ ToSet(pins) \subseteq DOMAIN nodes
      /\ nodes' = Connect(with, g, pins)
  BY <1>1, <1>2 DEF ReadGate, KnownGate
<1>4. /\ file \in Files /\ Typed(nodes) /\ Mirror(nodes) /\ Reading(file, nodes, line)
  BY <1>3 DEF GraphInv
<1>5. line \in GateLines(file)
  BY <1>1, <1>3, <1>4 DEF Reading, GateLines
<1>6. g \notin DOMAIN nodes
  BY <1>1, <1>3, <1>4, NewGate
<1>7. Extends(nodes, with, {g}, type)
  BY <1>2, <1>6 DEF Extends
<1>8. pins \in Seq(STRING) /\ pins # <<>> /\ type \in Types
  <2>1. type \in Types
    BY <1>3 DEF Types
  <2>2. file[line].names \in Seq(STRING) /\ file[line].names # <<>>
    BY <1>4, <1>5, GateLine
  <2>3. QED
    BY <1>1, <2>1, <2>2
<1>9. pins \in Seq(DOMAIN nodes)
  <2>1. \A i \in 1..Len(pins) : pins[i] \in DOMAIN nodes
    BY <1>3, <1>8 DEF ToSet
  <2>2. pins = [i \in 1..Len(pins) |-> pins[i]] /\ Len(pins) \in Nat
    BY <1>8
  <2>3. QED
    BY <2>1, <2>2
<1>10. Typed(nodes') /\ Mirror(nodes') /\ Connected(nodes, nodes', g, pins, type)
  BY <1>3, <1>4, <1>6, <1>7, <1>8, <1>9, ConnectedGraph
<1>11. QED
  BY <1>1, <1>10

\* A gate: one more node and its edges.
LEMMA GraphGate == GraphInv /\ ReadGate => GraphInv'
<1> SUFFICES ASSUME GraphInv, ReadGate PROVE GraphInv'
  OBVIOUS
<1>1. PICK g, pins, type : g = file[line].name /\ pins = file[line].names /\ type = file[line].op
  OBVIOUS
<1>3. /\ pc = "read" /\ pc' = "read" /\ file' = file /\ line' = line + 1 /\ at' = at
      /\ type \in GateTypes /\ ToSet(pins) \subseteq DOMAIN nodes
      /\ netlist' = Append(netlist, g)
  BY <1>1 DEF ReadGate, KnownGate
<1>4. /\ file \in Files /\ at \in Nat \ {0} /\ Typed(nodes) /\ Mirror(nodes)
      /\ Reading(file, nodes, line) /\ Listed(netlist, nodes)
  BY <1>3 DEF GraphInv
<1>6. g \notin DOMAIN nodes
  BY <1>1, <1>3, <1>4, NewGate
<1>10. Typed(nodes') /\ Mirror(nodes') /\ Connected(nodes, nodes', g, pins, type)
  BY <1>1, GateConnected
<1>11. Reading(file, nodes', line + 1)
  BY <1>1, <1>3, <1>4, <1>10, ReadingGate
<1>12. Listed(netlist', nodes')
  <2>1. PICK D, E : D = DOMAIN nodes /\ E = DOMAIN nodes \cup {g}
    OBVIOUS
  <2>2. netlist \in Seq(D) /\ IsInjective(netlist)
    BY <1>4, <2>1 DEF Listed
  <2>3. netlist \in Seq(E) /\ g \in E
    BY <2>1, <2>2, SeqGrows
  <2>4. ASSUME NEW n PROVE Count(Append(netlist, g), {n}) <= 1
    <3>1. Count(Append(netlist, g), {n}) = Count(netlist, {n}) + IF g \in {n} THEN 1 ELSE 0
      BY <2>3, CountAppend
    <3>2. Count(netlist, {n}) <= 1
      BY <2>2, InjectiveCounts
    <3>3. Count(netlist, {n}) \in Nat /\ (Count(netlist, {n}) = 0 <=> n \notin ToSet(netlist))
      BY <2>2, Occurring
    <3>4. g \notin ToSet(netlist)
      BY <1>6, <2>1, <2>2 DEF ToSet
    <3>5. QED
      BY <3>1, <3>2, <3>3, <3>4
  <2>5. Append(netlist, g) \in Seq(E)
    BY <2>3
  <2>6. IsInjective(Append(netlist, g))
    BY <2>4, <2>5, InjectiveCounts
  <2>7. DOMAIN nodes' = E
    BY <1>10, <2>1 DEF Connected
  <2>8. QED
    BY <1>3, <2>5, <2>6, <2>7 DEF Listed
<1>13. QED
  BY <1>3, <1>4, <1>10, <1>11, <1>12 DEF GraphInv, Typed, Mirror

\* endmodule: the graph has no loop.
LEMMA GraphEndModule == GraphInv /\ EndModule => GraphInv'
<1> SUFFICES ASSUME GraphInv, EndModule PROVE GraphInv'
  OBVIOUS
<1>1. /\ pc = "read" /\ pc' = "outputs" /\ file[line].op = "endmodule"
      /\ file' = file /\ line' = line /\ at' = at /\ nodes' = nodes /\ netlist' = netlist
  BY DEF EndModule
<1>2. /\ file \in Files /\ at \in Nat \ {0} /\ Typed(nodes) /\ Mirror(nodes)
      /\ Reading(file, nodes, line) /\ Listed(netlist, nodes)
  BY <1>1 DEF GraphInv
<1>3. Loopless(nodes) /\ Single(nodes)
  BY <1>1, <1>2, ReadGraph
<1>4. QED
  BY <1>1, <1>2, <1>3 DEF GraphInv, Typed, Mirror, Loopless, Single, Listed

\* The members of _gate["output"] are outputs.
LEMMA OutputAt ==
    ASSUME netlist \in Seq(DOMAIN nodes), NEW k \in 1..Len(Gate("output"))
    PROVE  Gate("output")[k] \in DOMAIN nodes /\ nodes[Gate("output")[k]].type = "output"
<1>1. PICK S : S = {n \in DOMAIN nodes : nodes[n].type # "output"}
  OBVIOUS
<1>2. PICK s : s = Gate("output")
  OBVIOUS
<1>3. s = Without(netlist, S)
  BY <1>1, <1>2 DEF Gate
<1>4. s \in Seq(DOMAIN nodes)
  BY <1>3, WithoutCount
<1>5. ToSet(s) = ToSet(netlist) \ S
  BY <1>3, WithoutSet
<1>6. k \in 1..Len(s)
  BY <1>2
<1>7. s[k] \in DOMAIN nodes /\ s[k] \in ToSet(s)
  BY <1>4, <1>6 DEF ToSet
<1>8. s[k] \notin S
  BY <1>5, <1>7
<1>9. QED
  BY <1>1, <1>2, <1>7, <1>8

\* The output x reads prev alone; its readers read prev instead.
Fixing(x, prev) ==
    /\ nodes[x].type = "output" /\ nodes[x].fi = <<prev>> /\ prev \in ToSet(nodes[x].fi)
    /\ DOMAIN nodes' = DOMAIN nodes
    /\ Typed(nodes') /\ Mirror(nodes') /\ Skips(nodes, nodes', x, prev, FALSE)

\* FixOutput is such a step.
LEMMA OutputFixed ==
    ASSUME GraphInv, FixOutput
    PROVE  \E x, prev \in DOMAIN nodes : Fixing(x, prev)
<1>1. PICK x : x = Gate("output")[at]
  OBVIOUS
<1>2. PICK prev : prev = nodes[x].fi[1]
  OBVIOUS
<1>3. /\ pc = "outputs" /\ at <= Len(Gate("output")) /\ nodes[x].fi # <<>>
      /\ nodes' = FixedNodes(nodes, x, prev)
  BY <1>1, <1>2 DEF FixOutput, NoFanIn, FixedNodes
<1>4. /\ at \in Nat \ {0} /\ Typed(nodes) /\ Mirror(nodes)
      /\ Loopless(nodes) /\ Single(nodes) /\ netlist \in Seq(DOMAIN nodes)
  BY <1>3 DEF GraphInv, Listed
<1>5. x \in DOMAIN nodes /\ nodes[x].type = "output"
  <2>1. PICK L : L = Len(Gate("output"))
    OBVIOUS
  <2>2. L \in Nat
    <3>1. Gate("output") \in Seq(DOMAIN nodes)
      BY <1>4, WithoutCount DEF Gate
    <3>2. QED
      BY <2>1, <3>1
  <2>3. at \in 1..L
    BY <1>3, <1>4, <2>1, <2>2
  <2>4. QED
    BY <1>1, <1>4, <2>1, <2>3, OutputAt
<1>6. /\ prev \in DOMAIN nodes /\ x # prev /\ prev \in ToSet(nodes[x].fi)
      /\ Len(nodes[x].fi) <= 1 => nodes[x].fi = <<prev>>
  BY <1>2, <1>3, <1>4, <1>5, Driver
<1>7. nodes[x].fi = <<prev>>
  BY <1>4, <1>5, <1>6 DEF Single
<1>8. /\ DOMAIN nodes' = DOMAIN nodes
      /\ Typed(nodes') /\ Mirror(nodes') /\ Skips(nodes, nodes', x, prev, FALSE)
  BY <1>3, <1>4, <1>5, <1>6, FixedOutput
<1>9. QED
  BY <1>5, <1>6, <1>7, <1>8 DEF Fixing

\* FixOutput: an output is skipped.
LEMMA GraphFixOutput == GraphInv /\ FixOutput => GraphInv'
<1> SUFFICES ASSUME GraphInv, FixOutput PROVE GraphInv'
  OBVIOUS
<1>1. /\ pc = "outputs" /\ pc' = "outputs" /\ at' = at + 1
      /\ file' = file /\ line' = line /\ netlist' = netlist
  BY DEF FixOutput
<1>2. /\ file \in Files /\ at \in Nat \ {0} /\ Typed(nodes) /\ Mirror(nodes)
      /\ Loopless(nodes) /\ Single(nodes) /\ Listed(netlist, nodes)
  BY <1>1 DEF GraphInv
<1>3. PICK x \in DOMAIN nodes, prev \in DOMAIN nodes : Fixing(x, prev)
  BY OutputFixed
<1>4. /\ prev \in ToSet(nodes[x].fi) /\ DOMAIN nodes' = DOMAIN nodes
      /\ Typed(nodes') /\ Mirror(nodes') /\ Skips(nodes, nodes', x, prev, FALSE)
  BY <1>3 DEF Fixing
<1>5. Loopless(nodes')
  BY <1>2, <1>4, LooplessSkip
<1>6. Single(nodes')
  BY <1>2, <1>4, SingleSkip
<1>7. Listed(netlist', nodes')
  BY <1>1, <1>2, <1>4 DEF Listed
<1>8. at' \in Nat \ {0}
  BY <1>1, <1>2
<1>9. QED
  BY <1>1, <1>2, <1>4, <1>5, <1>6, <1>7, <1>8
     DEF GraphInv, Typed, Mirror, Loopless, Single, Listed

\* A node taken out of the list is not in what is left.
LEMMA RemovedListed ==
    ASSUME NEW D, NEW nl \in Seq(D), IsInjective(nl), NEW k \in 1..Len(nl), NEW x, x = nl[k],
           NEW left, left = RemoveAt(nl, k)
    PROVE  left \in Seq(D \ {x}) /\ IsInjective(left)
<1>1. PICK L \in Nat : L = Len(nl)
  OBVIOUS
<1>2. /\ left \in Seq(D) /\ Len(left) = L - 1
      /\ \A i \in 1..(L - 1) : left[i] = IF i < k THEN nl[i] ELSE nl[i + 1]
  BY <1>1, Removed
<1>3. \A i, j \in 1..L : nl[i] = nl[j] => i = j
  BY <1>1 DEF IsInjective
<1> DEFINE s(i) == IF i < k THEN i ELSE i + 1
<1>4. k \in 1..L
  BY <1>1
<1>5. ASSUME NEW i \in 1..(L - 1) PROVE s(i) \in 1..L /\ s(i) # k /\ left[i] = nl[s(i)]
  <2>1. s(i) \in 1..L /\ s(i) # k
    BY <1>4
  <2>2. left[i] = nl[s(i)]
    BY <1>2
  <2>3. QED
    BY <2>1, <2>2
<1>6. ASSUME NEW i \in 1..(L - 1), NEW j \in 1..(L - 1), s(i) = s(j) PROVE i = j
  BY <1>4, <1>6
<1> HIDE DEF s
<1>7. x \notin ToSet(left)
  <2> SUFFICES ASSUME NEW i \in 1..(L - 1), left[i] = x PROVE FALSE
    BY <1>2 DEF ToSet
  <2>1. nl[s(i)] = nl[k] /\ s(i) \in 1..L /\ k \in 1..L /\ s(i) # k
    BY <1>4, <1>5
  <2>2. QED
    BY <1>3, <2>1
<1>8. left \in Seq(D \ {x})
  BY <1>2, <1>7, Missing
<1>9. \A i, j \in 1..(L - 1) : left[i] = left[j] => i = j
  BY <1>3, <1>5, <1>6
<1>10. IsInjective(left)
  BY <1>2, <1>9 DEF IsInjective
<1>11. QED
  BY <1>8, <1>10

\* The node x at k reads prev alone, which takes its place.
Deleting(k, x, prev, front) ==
    /\ x = netlist[k] /\ NextRemovable(k) /\ at' = k /\ netlist' = RemoveAt(netlist, k)
    /\ nodes[x].type \in {"wire", "BUF", "INV"} /\ (front <=> nodes[x].type = "INV")
    /\ nodes[x].fi = <<prev>> /\ prev \in ToSet(nodes[x].fi)
    /\ DOMAIN nodes' = DOMAIN nodes \ {x}
    /\ Typed(nodes') /\ Mirror(nodes') /\ Skips(nodes, nodes', x, prev, front)

\* DeleteNode is such a step.
LEMMA NodeDeleted ==
    ASSUME GraphInv, DeleteNode
    PROVE  \E k \in 1..Len(netlist), x, prev \in DOMAIN nodes, front \in BOOLEAN :
               Deleting(k, x, prev, front)
<1>1. PICK k \in at..Len(netlist) :
        /\ pc = "wires" /\ NextRemovable(k) /\ ~NoFanIn(netlist[k])
        /\ nodes' = [n \in DOMAIN nodes \ {netlist[k]} |->
                        Redirect(Unhook(nodes, netlist[k], nodes[netlist[k]].fi[1]), netlist[k],
                                 nodes[netlist[k]].fi[1], nodes[netlist[k]].type = "INV")[n]]
        /\ netlist' = RemoveAt(netlist, k) /\ at' = k
  BY DEF DeleteNode
<1>2. PICK x : x = netlist[k]
  OBVIOUS
<1>3. PICK prev : prev = nodes[x].fi[1]
  OBVIOUS
<1>4. PICK front \in BOOLEAN : front <=> nodes[x].type = "INV"
  OBVIOUS
<1>5. front = (nodes[x].type = "INV")
  BY <1>4
<1>6. nodes' = DeletedNodes(nodes, x, prev, front)
  BY <1>1, <1>2, <1>3, <1>5 DEF DeletedNodes
<1>7. nodes[x].fi # <<>> /\ nodes[x].type \in {"wire", "BUF", "INV"}
  BY <1>1, <1>2 DEF NoFanIn, NextRemovable, Removable
<1>8. /\ at \in Nat \ {0} /\ Typed(nodes) /\ Mirror(nodes)
      /\ Loopless(nodes) /\ Single(nodes) /\ Listed(netlist, nodes)
  BY <1>1 DEF GraphInv
<1>9. netlist \in Seq(DOMAIN nodes) /\ IsInjective(netlist) /\ Len(netlist) \in Nat
  BY <1>8 DEF Listed
<1>10. k \in 1..Len(netlist)
  BY <1>8, <1>9
<1>11. x \in DOMAIN nodes
  BY <1>2, <1>9, <1>10
<1>12. /\ prev \in DOMAIN nodes /\ x # prev /\ prev \in ToSet(nodes[x].fi)
       /\ Len(nodes[x].fi) <= 1 => nodes[x].fi = <<prev>>
  BY <1>3, <1>7, <1>8, <1>11, Driver
<1>13. nodes[x].fi = <<prev>>
  BY <1>7, <1>8, <1>11, <1>12 DEF Single
<1>14. Typed(nodes') /\ Mirror(nodes') /\ Skips(nodes, nodes', x, prev, front)
  BY <1>6, <1>8, <1>11, <1>12, <1>13, DeletedNode
<1>15. DOMAIN nodes' = DOMAIN nodes \ {x}
  BY <1>6 DEF DeletedNodes
<1>16. Deleting(k, x, prev, front)
  BY <1>1, <1>2, <1>4, <1>7, <1>12, <1>13, <1>14, <1>15 DEF Deleting
<1>17. QED
  BY <1>10, <1>11, <1>12, <1>16

\* DeleteNode: a node is skipped and freed.
LEMMA GraphDeleteNode == GraphInv /\ DeleteNode => GraphInv'
<1> SUFFICES ASSUME GraphInv, DeleteNode PROVE GraphInv'
  OBVIOUS
<1>1. pc = "wires" /\ pc' = "wires" /\ file' = file /\ line' = line
  BY DEF DeleteNode
<1>2. /\ file \in Files /\ Typed(nodes) /\ Mirror(nodes)
      /\ Loopless(nodes) /\ Single(nodes) /\ Listed(netlist, nodes)
  BY <1>1 DEF GraphInv
<1>3. PICK k \in 1..Len(netlist), x \in DOMAIN nodes, prev \in DOMAIN nodes, front \in BOOLEAN :
          Deleting(k, x, prev, front)
  BY NodeDeleted
<1>4. /\ x = netlist[k] /\ at' = k /\ netlist' = RemoveAt(netlist, k)
      /\ prev \in ToSet(nodes[x].fi) /\ DOMAIN nodes' = DOMAIN nodes \ {x}
      /\ Typed(nodes') /\ Mirror(nodes') /\ Skips(nodes, nodes', x, prev, front)
  BY <1>3 DEF Deleting
<1>5. Loopless(nodes')
  BY <1>2, <1>4, LooplessSkip
<1>6. Single(nodes')
  BY <1>2, <1>4, SingleSkip
<1>7. netlist \in Seq(DOMAIN nodes) /\ IsInjective(netlist) /\ Len(netlist) \in Nat
  BY <1>2 DEF Listed
<1>8. Listed(netlist', nodes')
  <2>1. netlist' \in Seq(DOMAIN nodes \ {x}) /\ IsInjective(netlist')
    BY <1>4, <1>7, RemovedListed
  <2>2. QED
    BY <1>4, <2>1 DEF Listed
<1>9. at' \in Nat \ {0}
  BY <1>4, <1>7
<1>10. QED
  BY <1>1, <1>2, <1>4, <1>5, <1>6, <1>8, <1>9
     DEF GraphInv, Typed, Mirror, Loopless, Single, Listed

\* The other steps leave the graph alone.
LEMMA GraphOtherStep ==
    GraphInv /\ (ReadError \/ OutputsFixed \/ FanInError \/ TraceInputs \/ UNCHANGED vars) => GraphInv'
<1> SUFFICES ASSUME GraphInv, ReadError \/ OutputsFixed \/ FanInError \/ TraceInputs \/ UNCHANGED vars
             PROVE  GraphInv'
  OBVIOUS
<1>1. UNCHANGED <<file, line, netlist, nodes>> /\ at' \in {at, 1}
  BY DEF ReadError, OutputsFixed, FanInError, TraceInputs, Err, vars
<1>2. \/ pc' = "err"
      \/ pc' \in {"wires", "done"} /\ pc \in {"outputs", "wires"}
      \/ pc' = pc
  BY DEF ReadError, OutputsFixed, FanInError, TraceInputs, Err, vars
<1>3. at' \in Nat \ {0}
  BY <1>1 DEF GraphInv
<1>4. QED
  BY <1>1, <1>2, <1>3 DEF GraphInv, Typed, Mirror, Loopless, Single, Listed

\* Every step.
LEMMA GraphNext == GraphInv /\ [Next]_vars => GraphInv'
<1> SUFFICES ASSUME GraphInv, [Next]_vars PROVE GraphInv'
  OBVIOUS
<1>1. CASE ReadDeclaration
  BY <1>1, GraphDeclaration
<1>2. CASE ReadGate
  BY <1>2, GraphGate
<1>3. CASE EndModule
  BY <1>3, GraphEndModule
<1>4. CASE FixOutput
  BY <1>4, GraphFixOutput
<1>5. CASE DeleteNode
  BY <1>5, GraphDeleteNode
<1>6. CASE ReadError \/ OutputsFixed \/ FanInError \/ TraceInputs \/ UNCHANGED vars
  BY <1>6, GraphOtherStep
<1>7. QED
  BY <1>1, <1>2, <1>3, <1>4, <1>5, <1>6 DEF Next, Parse, Simplify, Ended

\* _fi and _fo describe the same edges through parsing and Simplification.
THEOREM EdgesAreMirrored == Spec => []EdgesMirrored
<1>1. GraphInv => EdgesMirrored
  BY MirroredGraph DEF GraphInv
<1>2. QED
  BY <1>1, GraphInit, GraphNext, PTL DEF Spec

--------------------------------------------------------------------------------
(* What the nodes compute, as the set of those that carry 1.               *)

\* Two sets that agree on the fan-ins.
LEMMA OnesSame ==
    ASSUME NEW s, Len(s) \in Nat, NEW k \in 0..Len(s), NEW A, NEW B,
           \A i \in 1..Len(s) : s[i] \in A <=> s[i] \in B
    PROVE  Ones(s, k, A) = Ones(s, k, B)
<1>1. PICK L \in Nat : L = Len(s)
  OBVIOUS
<1>2. CountTo(s, L, A) = CountTo(s, L, B)
  BY <1>1, CountSame
<1>3. \A i \in 1..k : s[i] \in A <=> s[i] \in B
  OBVIOUS
<1>4. CountTo(s, k, A) = CountTo(s, k, B)
  BY <1>3, CountSame
<1>5. QED
  BY <1>1, <1>2, <1>4 DEF Ones, Count

\* A node n carries 1 when the nodes in On do.
Carried(ns, n, ones, On) ==
    IF ns[n].type = "input" THEN n \in ones ELSE Passes(ns[n].type, Ones(ns[n].fi, ns[n].inv, On))

Solution(ns, ones, On) ==
    /\ On \subseteq DOMAIN ns
    /\ \A n \in DOMAIN ns : n \in On <=> Carried(ns, n, ones, On)

\* Nodes have the fan-ins of their type, and no more of them are inverted.
Shaped(ns) ==
    \A n \in DOMAIN ns :
        /\ ns[n].type # "input" => Len(ns[n].fi) = Arity(ns[n].type)
        /\ ns[n].inv <= Len(ns[n].fi)

\* A graph without loops has one solution at most,
LEMMA SolutionsAgree ==
    ASSUME NEW ns, Typed(ns), Loopless(ns), Shaped(ns), NEW ones, NEW A, NEW B,
           Solution(ns, ones, A), Solution(ns, ones, B)
    PROVE  A = B
<1> DEFINE S == {n \in DOMAIN ns : ~(n \in A <=> n \in B)}
<1>1. CASE S = {}
  BY <1>1 DEF Solution
<1>2. CASE S # {}
  <2>1. PICK n \in S : ToSet(ns[n].fi) \cap S = {}
    <3>1. S \in SUBSET DOMAIN ns
      OBVIOUS
    <3> HIDE DEF S
    <3>2. QED
      BY <1>2, <3>1 DEF Loopless
  <2>2. n \in DOMAIN ns /\ ~(n \in A <=> n \in B)
    OBVIOUS
  <2>3. PICK s, k : s = ns[n].fi /\ k = ns[n].inv
    OBVIOUS
  <2>4. s \in Seq(DOMAIN ns) /\ k \in Nat /\ Len(s) \in Nat /\ k <= Len(s)
    BY <2>2, <2>3 DEF Typed, Node, Shaped
  <2>5. \A i \in 1..Len(s) : s[i] \in A <=> s[i] \in B
    BY <2>1, <2>3, <2>4 DEF ToSet
  <2>6. k \in 0..Len(s)
    BY <2>4
  <2>7. Ones(s, k, A) = Ones(s, k, B)
    BY <2>4, <2>5, <2>6, OnesSame
  <2>8. Carried(ns, n, ones, A) <=> Carried(ns, n, ones, B)
    BY <2>3, <2>7 DEF Carried
  <2>9. QED
    BY <2>2, <2>8 DEF Solution
<1>3. QED
  BY <1>1, <1>2

\* Gates have a value when their fan-ins have.
LEMMA GateBoolean ==
    ASSUME NEW type \in GateTypes \cup {"output", "wire"}, NEW g,
           \A i \in 1..Arity(type) : g[i] \in BOOLEAN
    PROVE  GateValue(type, g) \in BOOLEAN
<1>1. CASE type \in {"output", "wire", "BUF"}
  <2>1. g[1] \in BOOLEAN
    BY <1>1 DEF Arity
  <2>2. GateValue(type, g) = g[1]
    BY <1>1 DEF GateValue
  <2>3. QED
    BY <2>1, <2>2
<1>2. CASE type = "INV"
  BY <1>2 DEF GateValue
<1>3. CASE type = "AND"
  BY <1>3 DEF GateValue
<1>4. CASE type = "XOR"
  BY <1>4 DEF GateValue
<1>5. CASE type = "FACARRY"
  BY <1>5 DEF GateValue
<1>6. CASE type = "ZEROBUF"
  BY <1>6 DEF GateValue
<1>7. CASE type = "ONEBUF"
  BY <1>7 DEF GateValue
<1>8. QED
  BY <1>1, <1>2, <1>3, <1>4, <1>5, <1>6, <1>7 DEF GateTypes

\* The recursive definition of a node's signal.
FanIns(ns, n, sig) == [i \in DOMAIN ns[n].fi |-> sig[ns[n].fi[i]] # (i <= ns[n].inv)]
Signals(ns, ones, sig) ==
    sig = [n \in DOMAIN ns |-> IF ns[n].type = "input" THEN n \in ones
                               ELSE GateValue(ns[n].type, FanIns(ns, n, sig))]

\* A node has one then.
LEMMA SignalBoolean ==
    ASSUME NEW ns, Typed(ns), Shaped(ns), NEW n \in DOMAIN ns, ns[n].type # "input", NEW sig
    PROVE  GateValue(ns[n].type, FanIns(ns, n, sig)) \in BOOLEAN
<1>1. PICK type, s, g : type = ns[n].type /\ s = ns[n].fi /\ g = FanIns(ns, n, sig)
  OBVIOUS
<1>2. type \in GateTypes \cup {"output", "wire"} /\ Len(s) = Arity(type)
  BY <1>1 DEF Shaped, Typed, Node, Types, PortTypes
<1>3. s \in Seq(DOMAIN ns)
  BY <1>1 DEF Typed, Node
<1>4. DOMAIN s = 1..Arity(type)
  BY <1>2, <1>3
<1>5. \A i \in DOMAIN s : g[i] \in BOOLEAN
  BY <1>1 DEF FanIns
<1>6. GateValue(type, g) \in BOOLEAN
  BY <1>2, <1>4, <1>5, GateBoolean
<1>7. QED
  BY <1>1, <1>6

\* and it is what OutputValue finds,
LEMMA SignalsExist ==
    ASSUME NEW ns, Typed(ns), Loopless(ns), Shaped(ns), NEW ones
    PROVE  \E sig : Signals(ns, ones, sig)
<1> DEFINE X == DOMAIN ns
           fi == [n \in X |-> ns[n].fi]
           Value(n, g) == IF ns[n].type = "input" THEN n \in ones
                          ELSE GateValue(ns[n].type, [i \in DOMAIN fi[n] |-> g[i] # (i <= ns[n].inv)])
           Args == UNION {{<<n, g>> : g \in [DOMAIN fi[n] -> BOOLEAN]} : n \in X}
           step == [a \in Args |-> Value(a[1], a[2])]
<1>1. ASSUME NEW n \in X PROVE fi[n] = ns[n].fi /\ fi[n] \in Seq(X)
  BY DEF Typed, Node
<1>2. ASSUME NEW n \in X, NEW i \in DOMAIN fi[n] PROVE fi[n][i] \in X /\ fi[n][i] \in ToSet(ns[n].fi)
  BY <1>1 DEF ToSet
<1>3. Founded(X, fi)
  <2>1. ASSUME NEW S \in SUBSET X, S # {}
        PROVE  \E n \in S : \A i \in DOMAIN fi[n] : fi[n][i] \notin S
    <3>1. PICK n \in S : ToSet(ns[n].fi) \cap S = {}
      BY <2>1 DEF Loopless
    <3>2. n \in X
      OBVIOUS
    <3> HIDE DEF fi, X
    <3>3. QED
      BY <1>2, <3>1, <3>2
  <2> HIDE DEF fi
  <2>2. QED
    BY <1>2, <2>1 DEF Founded
<1>4. ASSUME NEW n \in X, NEW g \in [DOMAIN fi[n] -> BOOLEAN] PROVE step[<<n, g>>] = Value(n, g)
  <2> HIDE DEF fi, X, Value
  <2>1. <<n, g>> \in Args
    OBVIOUS
  <2> HIDE DEF Args
  <2>2. QED
    BY <2>1
<1>5. ASSUME NEW n \in X, NEW g PROVE Value(n, g) \in BOOLEAN
  <2>1. CASE ns[n].type = "input"
    BY <2>1
  <2>2. CASE ns[n].type # "input"
    <3>1. PICK type, h : type = ns[n].type /\ h = [i \in DOMAIN fi[n] |-> g[i] # (i <= ns[n].inv)]
      OBVIOUS
    <3>2. type \in GateTypes \cup {"output", "wire"} /\ Len(fi[n]) = Arity(type)
      BY <2>2, <3>1 DEF Shaped, Typed, Node, Types, PortTypes
    <3>3. DOMAIN fi[n] = 1..Arity(type)
      BY <1>1, <3>2
    <3>4. \A i \in 1..Arity(type) : h[i] \in BOOLEAN
      BY <3>1, <3>3
    <3>5. GateValue(type, h) \in BOOLEAN
      BY <3>2, <3>4, GateBoolean
    <3>6. QED
      BY <2>2, <3>1, <3>5
  <2>3. QED
    BY <2>1, <2>2
<1> HIDE DEF step, Value
<1>6. StaysIn(X, fi, BOOLEAN, step)
  <2> HIDE DEF X, fi
  <2>1. QED
    BY <1>4, <1>5 DEF StaysIn
<1>7. PICK f \in [X -> BOOLEAN] : Obeys(f, X, fi, step)
  <2> HIDE DEF X, fi
  <2>1. QED
    BY <1>3, <1>6, SolutionExists
<1>8. ASSUME NEW n \in X
      PROVE  f[n] = IF ns[n].type = "input" THEN n \in ones ELSE GateValue(ns[n].type, FanIns(ns, n, f))
  <2>1. PICK g : g = [i \in DOMAIN fi[n] |-> f[fi[n][i]]]
    OBVIOUS
  <2>2. g \in [DOMAIN fi[n] -> BOOLEAN]
    BY <1>2, <1>7, <2>1
  <2>3. f[n] = Value(n, g)
    <3>1. f[n] = step[<<n, g>>]
      BY <1>7, <2>1 DEF Obeys
    <3>2. QED
      BY <1>4, <2>2, <3>1
  <2>4. [i \in DOMAIN fi[n] |-> g[i] # (i <= ns[n].inv)] = FanIns(ns, n, f)
    BY <1>1, <2>1 DEF FanIns
  <2>5. QED
    BY <2>3, <2>4 DEF Value
<1>9. Signals(ns, ones, f)
  BY <1>7, <1>8 DEF Signals
<1>10. QED
  BY <1>9

\* so the nodes with a true signal are the solution.
LEMMA SignalsSolve ==
    ASSUME NEW ns, Typed(ns), Shaped(ns), NEW ones, NEW sig, Signals(ns, ones, sig)
    PROVE  /\ \A n \in DOMAIN ns : sig[n] \in BOOLEAN
           /\ Solution(ns, ones, {n \in DOMAIN ns : sig[n]})
<1>1. ASSUME NEW n \in DOMAIN ns
      PROVE  sig[n] = IF ns[n].type = "input" THEN n \in ones
                      ELSE GateValue(ns[n].type, FanIns(ns, n, sig))
  BY DEF Signals
<1>2. ASSUME NEW n \in DOMAIN ns PROVE sig[n] \in BOOLEAN
  <2>1. CASE ns[n].type = "input"
    <3>1. sig[n] = (n \in ones)
      BY <1>1, <2>1
    <3>2. (n \in ones) \in BOOLEAN
      OBVIOUS
    <3>3. QED
      BY <3>1, <3>2, Zenon
  <2>2. CASE ns[n].type # "input"
    BY <1>1, <2>2, SignalBoolean
  <2>3. QED
    BY <2>1, <2>2
<1>3. PICK On : On = {n \in DOMAIN ns : sig[n]}
  OBVIOUS
<1>4. ASSUME NEW n \in DOMAIN ns PROVE n \in On <=> sig[n]
  BY <1>3
<1>5. ASSUME NEW n \in DOMAIN ns PROVE n \in On <=> Carried(ns, n, ones, On)
  <2>1. CASE ns[n].type = "input"
    BY <1>1, <1>4, <2>1 DEF Carried
  <2>2. CASE ns[n].type # "input"
    <3>1. PICK type, s, k, g :
             type = ns[n].type /\ s = ns[n].fi /\ k = ns[n].inv /\ g = FanIns(ns, n, sig)
      OBVIOUS
    <3>2. type \in GateTypes \cup {"output", "wire"} /\ Len(s) = Arity(type) /\ k <= Len(s)
      BY <2>2, <3>1 DEF Shaped, Typed, Node, Types, PortTypes
    <3>3. s \in Seq(DOMAIN ns) /\ k \in Nat
      BY <3>1 DEF Typed, Node
    <3>4. k \in 0..Len(s)
      BY <3>2, <3>3
    <3>5. Carries(g, s, k, On)
      <4>1. g \in [DOMAIN s -> BOOLEAN]
        BY <3>1 DEF FanIns
      <4>2. ASSUME NEW i \in DOMAIN s PROVE g[i] <=> ((s[i] \in On) # (i <= k))
        <5>1. s[i] \in DOMAIN ns
          BY <3>3
        <5>2. sig[s[i]] \in BOOLEAN /\ (s[i] \in On <=> sig[s[i]])
          BY <1>2, <1>4, <5>1
        <5>3. g[i] = (sig[s[i]] # (i <= k))
          BY <3>1 DEF FanIns
        <5>4. PICK p \in BOOLEAN, q \in BOOLEAN : (p <=> s[i] \in On) /\ (q <=> i <= k)
          OBVIOUS
        <5>5. sig[s[i]] = p
          BY <5>2, <5>4
        <5>6. (i <= k) = q /\ (s[i] \in On) = p
          BY <5>4
        <5>7. g[i] = (p # q) /\ (((s[i] \in On) # (i <= k)) = (p # q))
          BY <5>3, <5>5, <5>6, Zenon
        <5>8. QED
          BY <5>7, Zenon
      <4>3. QED
        BY <4>1, <4>2 DEF Carries
    <3>6. GateValue(type, g) <=> Passes(type, Ones(s, k, On))
      BY <3>2, <3>3, <3>4, <3>5, GateCounts
    <3>7. sig[n] <=> GateValue(type, g)
      BY <1>1, <2>2, <3>1
    <3>8. Carried(ns, n, ones, On) <=> Passes(type, Ones(s, k, On))
      BY <2>2, <3>1 DEF Carried
    <3>9. QED
      BY <1>4, <3>6, <3>7, <3>8
  <2>3. QED
    BY <2>1, <2>2
<1>6. Solution(ns, ones, On)
  BY <1>3, <1>5 DEF Solution
<1>7. QED
  BY <1>2, <1>3, <1>6

\* OutputValue takes the one there is.
LEMMA OutputValueSolves ==
    ASSUME NEW ns, Typed(ns), Loopless(ns), Shaped(ns), NEW ones
    PROVE  Signals(ns, ones, OutputValue(ns, ones))
<1>1. PICK sig : Signals(ns, ones, sig)
  BY SignalsExist
<1>2. OutputValue(ns, ones) = CHOOSE v : Signals(ns, ones, v)
  BY DEF OutputValue, Signals, FanIns
<1>3. QED
  BY <1>1, <1>2

--------------------------------------------------------------------------------
(* What the nets of a file compute: the same, on a netlist of nets alone.  *)

DriverOf(f, net) == f[CHOOSE i \in Drivers(f, net) : TRUE]
NetNodes(f) ==
    [net \in Declared(f) |->
        IF net \in Inputs(f) THEN [type |-> "input", fi |-> <<>>, fo |-> <<>>, inv |-> 0]
        ELSE [type |-> DriverOf(f, net).op, fi |-> Tail(DriverOf(f, net).names),
              fo |-> <<>>, inv |-> 0]]

\* Driven(f, net, v): v is the node of net.
Driven(f, net, v) ==
    /\ v.inv = 0 /\ v.fo = <<>>
    /\ net \in Inputs(f) => v.type = "input" /\ v.fi = <<>>
    /\ net \notin Inputs(f) =>
           \E i \in Drivers(f, net) : /\ i \in GateLines(f) /\ DriverOf(f, net) = f[i]
                                      /\ v.type = f[i].op /\ v.fi = Tail(f[i].names)

\* NetNodes at one net.
LEMMA NetNode ==
    ASSUME NEW f \in Files, WellFormed(f), NEW net \in Declared(f)
    PROVE  Driven(f, net, NetNodes(f)[net])
<1>1. PICK v : v = NetNodes(f)[net]
  OBVIOUS
<1>2. CASE net \in Inputs(f)
  <2>1. v = [type |-> "input", fi |-> <<>>, fo |-> <<>>, inv |-> 0]
    BY <1>1, <1>2 DEF NetNodes
  <2>2. QED
    BY <1>1, <1>2, <2>1 DEF Driven
<1>3. CASE net \notin Inputs(f)
  <2>1. Drivers(f, net) # {}
    BY <1>3 DEF WellFormed
  <2>2. PICK i : i = CHOOSE d \in Drivers(f, net) : TRUE
    OBVIOUS
  <2>3. i \in Drivers(f, net)
    BY <2>1, <2>2
  <2>4. i \in GateLines(f) /\ DriverOf(f, net) = f[i]
    BY <2>2, <2>3 DEF Drivers, DriverOf
  <2>5. v = [type |-> f[i].op, fi |-> Tail(f[i].names), fo |-> <<>>, inv |-> 0]
    BY <1>1, <1>3, <2>4 DEF NetNodes
  <2>6. QED
    BY <1>1, <1>3, <2>3, <2>4, <2>5 DEF Driven
<1>4. QED
  BY <1>2, <1>3

\* They form a netlist without loops, as the file does.
LEMMA NetGraph ==
    ASSUME NEW f \in Files, WellFormed(f)
    PROVE  /\ DOMAIN NetNodes(f) = Declared(f)
           /\ Typed(NetNodes(f)) /\ Loopless(NetNodes(f)) /\ Shaped(NetNodes(f))
<1>1. PICK ns, D : ns = NetNodes(f) /\ D = Declared(f)
  OBVIOUS
<1>2. DOMAIN ns = D
  BY <1>1 DEF NetNodes
<1>3. ASSUME NEW n \in D PROVE Driven(f, n, ns[n])
  BY <1>1, NetNode
<1>4. ASSUME NEW i \in GateLines(f)
      PROVE  /\ Tail(f[i].names) \in Seq(D)
             /\ f[i].op \in GateTypes /\ Len(Tail(f[i].names)) = Arity(f[i].op)
  <2>1. PICK s : s = f[i].names
    OBVIOUS
  <2>2. s \in Seq(STRING) /\ s # <<>> /\ f[i].op \in GateTypes /\ Len(Tail(s)) = Arity(f[i].op)
    BY <2>1, GateLine
  <2>3. ToSet(s) \subseteq D
    BY <1>1, <2>1 DEF WellFormed
  <2>4. s \in Seq(D)
    <3>1. \A j \in 1..Len(s) : s[j] \in D
      BY <2>2, <2>3 DEF ToSet
    <3>2. s = [j \in 1..Len(s) |-> s[j]] /\ Len(s) \in Nat
      BY <2>2
    <3>3. QED
      BY <3>1, <3>2
  <2>5. Tail(s) \in Seq(D)
    BY <2>2, <2>4
  <2>6. QED
    BY <2>1, <2>2, <2>5
<1>5. Typed(ns)
  <2> SUFFICES ASSUME NEW n \in D PROVE ns[n] \in Node(D)
    BY <1>2 DEF Typed
  <2>1. <<>> \in Seq(D)
    OBVIOUS
  <2>2. CASE n \in Inputs(f)
    <3>1. ns[n] = [type |-> "input", fi |-> <<>>, fo |-> <<>>, inv |-> 0]
      BY <1>1, <2>2 DEF NetNodes
    <3>2. "input" \in Types
      BY DEF Types, PortTypes
    <3>3. QED
      BY <2>1, <3>1, <3>2 DEF Node
  <2>3. CASE n \notin Inputs(f)
    <3>1. PICK i \in GateLines(f) : DriverOf(f, n) = f[i]
      BY <1>3, <2>3 DEF Driven
    <3>2. ns[n] = [type |-> f[i].op, fi |-> Tail(f[i].names), fo |-> <<>>, inv |-> 0]
      BY <1>1, <2>3, <3>1 DEF NetNodes
    <3>3. f[i].op \in Types
      BY GateLine DEF Types
    <3>4. QED
      BY <1>4, <2>1, <3>2, <3>3 DEF Node
  <2>4. QED
    BY <2>2, <2>3
<1>6. Shaped(ns)
  <2> SUFFICES ASSUME NEW n \in D
               PROVE  /\ ns[n].type # "input" => Len(ns[n].fi) = Arity(ns[n].type)
                      /\ ns[n].inv <= Len(ns[n].fi)
    BY <1>2 DEF Shaped
  <2>1. ns[n].fi \in Seq(D) /\ ns[n].inv = 0
    BY <1>2, <1>3, <1>5 DEF Typed, Node, Driven
  <2>2. ns[n].inv <= Len(ns[n].fi)
    <3>1. Len(ns[n].fi) \in Nat
      BY <2>1
    <3>2. QED
      BY <2>1, <3>1
  <2>3. CASE n \in Inputs(f)
    BY <1>3, <2>2, <2>3 DEF Driven
  <2>4. CASE n \notin Inputs(f)
    <3>1. PICK i \in GateLines(f) : ns[n].type = f[i].op /\ ns[n].fi = Tail(f[i].names)
      BY <1>3, <2>4 DEF Driven
    <3>2. QED
      BY <1>4, <2>2, <3>1
  <2>5. QED
    BY <2>3, <2>4
<1>7. Loopless(ns)
  <2> SUFFICES ASSUME NEW S \in SUBSET D, S # {} PROVE \E n \in S : ToSet(ns[n].fi) \cap S = {}
    BY <1>2 DEF Loopless
  <2>1. NoLoop(f)
    BY FilesAssumption DEF Plain
  <2>2. PICK n \in S : \A i \in Drivers(f, n) : ToSet(Tail(f[i].names)) \cap S = {}
    BY <1>1, <2>1 DEF NoLoop
  <2>3. Driven(f, n, ns[n])
    BY <1>3
  <2>4. CASE n \in Inputs(f)
    <3>1. ToSet(ns[n].fi) = {}
      BY <2>3, <2>4 DEF Driven, ToSet
    <3>2. QED
      BY <3>1
  <2>5. CASE n \notin Inputs(f)
    BY <2>2, <2>3, <2>5 DEF Driven
  <2>6. QED
    BY <2>4, <2>5
<1>8. QED
  BY <1>1, <1>2, <1>5, <1>6, <1>7

\* The recursive definition of NetValue.
NetFanIns(f, net, v) ==
    [i \in DOMAIN Tail(DriverOf(f, net).names) |-> v[Tail(DriverOf(f, net).names)[i]]]
NetSignals(f, ones, v) ==
    v = [net \in Declared(f) |-> IF net \in Inputs(f) THEN net \in ones
                                 ELSE GateValue(DriverOf(f, net).op, NetFanIns(f, net, v))]

\* No inversion is no change.
LEMMA NotInverted ==
    ASSUME NEW f \in Files, WellFormed(f), NEW net \in Declared(f), net \notin Inputs(f),
           NEW v, \A i \in DOMAIN NetNodes(f)[net].fi : v[NetNodes(f)[net].fi[i]] \in BOOLEAN
    PROVE  /\ FanIns(NetNodes(f), net, v) = NetFanIns(f, net, v)
           /\ NetNodes(f)[net].type = DriverOf(f, net).op
<1>1. Driven(f, net, NetNodes(f)[net])
  BY NetNode
<1>2. PICK s : s = NetNodes(f)[net].fi
  OBVIOUS
<1>3. /\ s = Tail(DriverOf(f, net).names) /\ NetNodes(f)[net].inv = 0
      /\ NetNodes(f)[net].type = DriverOf(f, net).op
  BY <1>1, <1>2 DEF Driven
<1>4. s \in Seq(Declared(f))
  BY <1>2, NetGraph DEF Typed, Node
<1>5. ASSUME NEW i \in DOMAIN s PROVE (v[s[i]] # (i <= 0)) = v[s[i]]
  <2>1. ~(i <= 0)
    BY <1>4
  <2>2. (i <= 0) = FALSE
    BY <2>1
  <2>3. PICK b \in BOOLEAN : b = v[s[i]]
    BY <1>2
  <2>4. (b # FALSE) = b
    OBVIOUS
  <2>5. QED
    BY <2>2, <2>3, <2>4
<1>6. [i \in DOMAIN s |-> v[s[i]] # (i <= 0)] = [i \in DOMAIN s |-> v[s[i]]]
  BY <1>5
<1>7. FanIns(NetNodes(f), net, v) = [i \in DOMAIN s |-> v[s[i]] # (i <= 0)]
  BY <1>2, <1>3 DEF FanIns
<1>8. NetFanIns(f, net, v) = [i \in DOMAIN s |-> v[s[i]]]
  BY <1>3 DEF NetFanIns
<1>9. QED
  BY <1>3, <1>6, <1>7, <1>8

\* Every net has a value.
LEMMA NetSignalsBoolean ==
    ASSUME NEW f \in Files, WellFormed(f), NEW ones, NEW v, NetSignals(f, ones, v)
    PROVE  \A net \in Declared(f) : v[net] \in BOOLEAN
<1> DEFINE S == {net \in Declared(f) : v[net] \notin BOOLEAN}
<1> SUFFICES ASSUME S # {} PROVE FALSE
  OBVIOUS
<1>1. PICK ns : ns = NetNodes(f)
  OBVIOUS
<1>2. DOMAIN ns = Declared(f) /\ Typed(ns) /\ Loopless(ns) /\ Shaped(ns)
  BY <1>1, NetGraph
<1>3. PICK net \in S : ToSet(ns[net].fi) \cap S = {}
  <2>1. S \in SUBSET DOMAIN ns
    BY <1>2
  <2> HIDE DEF S
  <2>2. QED
    BY <1>2, <2>1 DEF Loopless
<1>4. net \in Declared(f) /\ v[net] \notin BOOLEAN
  OBVIOUS
<1>5. v[net] = IF net \in Inputs(f) THEN net \in ones
               ELSE GateValue(DriverOf(f, net).op, NetFanIns(f, net, v))
  BY <1>4 DEF NetSignals
<1>6. net \notin Inputs(f)
  <2> SUFFICES ASSUME net \in Inputs(f) PROVE FALSE
    OBVIOUS
  <2>1. v[net] = (net \in ones)
    BY <1>5
  <2>2. (net \in ones) \in BOOLEAN
    OBVIOUS
  <2>3. QED
    BY <1>4, <2>1, <2>2, Zenon
<1>7. \A i \in DOMAIN ns[net].fi : v[ns[net].fi[i]] \in BOOLEAN
  <2>1. ns[net].fi \in Seq(Declared(f))
    BY <1>2, <1>4 DEF Typed, Node
  <2>2. \A i \in DOMAIN ns[net].fi : ns[net].fi[i] \in Declared(f) /\ ns[net].fi[i] \notin S
    BY <1>3, <2>1 DEF ToSet
  <2>3. QED
    BY <2>2
<1>8. FanIns(ns, net, v) = NetFanIns(f, net, v) /\ ns[net].type = DriverOf(f, net).op
  BY <1>1, <1>4, <1>6, <1>7, NotInverted
<1>9. ns[net].type # "input"
  <2>1. Driven(f, net, ns[net])
    BY <1>1, <1>4, NetNode
  <2>2. ns[net].type \in GateTypes
    BY <1>6, <2>1, GateLine DEF Driven
  <2>3. QED
    BY <2>2 DEF GateTypes
<1>10. GateValue(ns[net].type, FanIns(ns, net, v)) \in BOOLEAN
  BY <1>2, <1>4, <1>9, SignalBoolean
<1>11. v[net] = GateValue(ns[net].type, FanIns(ns, net, v))
  BY <1>5, <1>6, <1>8
<1>12. QED
  BY <1>4, <1>10, <1>11

\* The signals of these nodes are what the nets compute,
LEMMA SignalsAreNets ==
    ASSUME NEW f \in Files, WellFormed(f), NEW ones, NEW v,
           \A net \in Declared(f) : v[net] \in BOOLEAN
    PROVE  Signals(NetNodes(f), ones, v) <=> NetSignals(f, ones, v)
<1>1. PICK ns : ns = NetNodes(f)
  OBVIOUS
<1>2. DOMAIN ns = Declared(f) /\ Typed(ns)
  BY <1>1, NetGraph
<1>3. ASSUME NEW net \in Declared(f)
      PROVE  (IF ns[net].type = "input" THEN net \in ones ELSE GateValue(ns[net].type, FanIns(ns, net, v)))
                = (IF net \in Inputs(f) THEN net \in ones
                   ELSE GateValue(DriverOf(f, net).op, NetFanIns(f, net, v)))
  <2>1. Driven(f, net, ns[net])
    BY <1>1, NetNode
  <2>2. CASE net \in Inputs(f)
    BY <2>1, <2>2 DEF Driven
  <2>3. CASE net \notin Inputs(f)
    <3>1. ns[net].type \in GateTypes
      BY <2>1, <2>3, GateLine DEF Driven
    <3>2. ns[net].type # "input"
      BY <3>1 DEF GateTypes
    <3>3. \A i \in DOMAIN ns[net].fi : v[ns[net].fi[i]] \in BOOLEAN
      <4>1. ns[net].fi \in Seq(Declared(f))
        BY <1>2 DEF Typed, Node
      <4>2. QED
        BY <4>1
    <3>4. FanIns(ns, net, v) = NetFanIns(f, net, v) /\ ns[net].type = DriverOf(f, net).op
      BY <1>1, <2>3, <3>3, NotInverted
    <3>5. QED
      BY <2>3, <3>2, <3>4
  <2>4. QED
    BY <2>2, <2>3
<1>4. [net \in Declared(f) |-> IF ns[net].type = "input" THEN net \in ones
                               ELSE GateValue(ns[net].type, FanIns(ns, net, v))]
         = [net \in Declared(f) |-> IF net \in Inputs(f) THEN net \in ones
                                    ELSE GateValue(DriverOf(f, net).op, NetFanIns(f, net, v))]
  BY <1>3
<1>5. QED
  BY <1>1, <1>2, <1>4 DEF Signals, NetSignals

\* so NetValue is their solution.
LEMMA NetValueSolves ==
    ASSUME NEW f \in Files, WellFormed(f), NEW ones
    PROVE  /\ \A net \in Declared(f) : NetValue(f, ones)[net] \in BOOLEAN
           /\ Solution(NetNodes(f), ones, {net \in Declared(f) : NetValue(f, ones)[net]})
<1>1. PICK ns : ns = NetNodes(f)
  OBVIOUS
<1>2. DOMAIN ns = Declared(f) /\ Typed(ns) /\ Loopless(ns) /\ Shaped(ns)
  BY <1>1, NetGraph
<1>3. PICK sig : Signals(ns, ones, sig)
  BY <1>2, SignalsExist
<1>4. \A net \in Declared(f) : sig[net] \in BOOLEAN
  BY <1>2, <1>3, SignalsSolve
<1>5. NetSignals(f, ones, sig)
  BY <1>1, <1>3, <1>4, SignalsAreNets
<1>6. NetValue(f, ones) = CHOOSE v : NetSignals(f, ones, v)
  BY DEF NetValue, NetSignals, NetFanIns, DriverOf
<1>7. PICK v : v = NetValue(f, ones)
  OBVIOUS
<1>8. NetSignals(f, ones, v)
  BY <1>5, <1>6, <1>7
<1>9. \A net \in Declared(f) : v[net] \in BOOLEAN
  BY <1>8, NetSignalsBoolean
<1>10. Signals(ns, ones, v)
  BY <1>1, <1>8, <1>9, SignalsAreNets
<1>11. Solution(ns, ones, {net \in Declared(f) : v[net]})
  <2>1. Solution(ns, ones, {net \in DOMAIN ns : v[net]})
    BY <1>2, <1>10, SignalsSolve
  <2>2. QED
    BY <1>2, <2>1
<1>12. QED
  BY <1>1, <1>7, <1>9, <1>11

--------------------------------------------------------------------------------
(* Skipping x changes no value when prev carries what x does, inverted when *)
(* the fan-ins are moved to the front.                                     *)

Alike(On, x, prev, front) == x \in On <=> IF front THEN prev \notin On ELSE prev \in On

\* x is not among the inverted fan-ins.
NotInverting(v, x) == \A i \in 1..v.inv : v.fi[i] # x

\* When prev is like x, as many fan-ins carry 1 as before.
LEMMA BypassOnes ==
    ASSUME NEW T, NEW s \in Seq(T), NEW x \in T, NEW prev \in T, NEW front \in BOOLEAN,
           NEW k \in 0..Len(s), \A i \in 1..k : s[i] # x, NEW On, Alike(On, x, prev, front),
           NEW t, t = Bypass(s, x, prev, front),
           NEW j, j = k + IF front THEN Occurrences(s, x) ELSE 0
    PROVE  j \in 0..Len(t) /\ Ones(t, j, On) = Ones(s, k, On)
<1>1. PICK r : r = Occurrences(s, x)
  OBVIOUS
<1>2. r \in Nat /\ k \in Nat
  <2>1. Occurrences(s, x) \in Nat
    BY Occurring
  <2>2. Len(s) \in Nat
    OBVIOUS
  <2>3. k \in Nat
    BY <2>2
  <2>4. QED
    BY <1>1, <2>1, <2>3
<1>3. j = IF front THEN k + Occurrences(s, x) ELSE k
  BY <1>2
<1>4. Prefixed(t, j, s, k, x, prev, front)
  <2>1. PICK h : h = IF front THEN k + Occurrences(s, x) ELSE k
    OBVIOUS
  <2>2. Prefixed(Bypass(s, x, prev, front), IF front THEN k + Occurrences(s, x) ELSE k,
                 s, k, x, prev, front)
    BY BypassPrefix
  <2>3. QED
    BY <1>3, <2>2
<1>5. /\ j \in 0..Len(t)
      /\ CountTo(t, j, On) = CountTo(s, k, On) + IF front /\ prev \in On THEN r ELSE 0
  BY <1>1, <1>4 DEF Prefixed
<1>6. Count(t, On) = Count(s, On \ {x}) + IF prev \in On THEN r ELSE 0
  <2>1. BypassCounts(t, s, x, prev)
    BY BypassCount
  <2>2. QED
    BY <1>1, <2>1 DEF BypassCounts
<1>7. Count(s, On) = Count(s, On \ {x}) + IF x \in On THEN r ELSE 0
  <2>1. CASE x \in On
    BY <1>1, <2>1, CountBut
  <2>2. CASE x \notin On
    <3>1. On \ {x} = On
      BY <2>2
    <3>2. Count(s, On) \in Nat
      <4>1. PICK L \in Nat : L = Len(s)
        OBVIOUS
      <4>2. CountTo(s, L, On) \in Nat
        BY CountNat
      <4>3. QED
        BY <4>1, <4>2 DEF Count
    <3>3. Count(s, On) + 0 = Count(s, On)
      BY <3>2
    <3>4. QED
      BY <2>2, <3>1, <3>3
  <2>3. QED
    BY <2>1, <2>2
<1>8. PICK a \in Nat, c \in Nat : a = CountTo(s, k, On) /\ c = Count(s, On \ {x})
  <2>1. CountTo(s, k, On) \in Nat
    BY <1>2, CountNat
  <2>2. PICK L \in Nat : L = Len(s)
    OBVIOUS
  <2>3. CountTo(s, L, On \ {x}) \in Nat
    BY CountNat
  <2>4. Count(s, On \ {x}) \in Nat
    BY <2>2, <2>3 DEF Count
  <2>5. QED
    BY <2>1, <2>4
<1>12. /\ Ones(t, j, On) = (j - CountTo(t, j, On)) + (Count(t, On) - CountTo(t, j, On))
       /\ Ones(s, k, On) = (k - CountTo(s, k, On)) + (Count(s, On) - CountTo(s, k, On))
  BY DEF Ones
<1>9. CASE front
  <2>1. CASE prev \in On
    <3>1. x \notin On
      BY <1>9, <2>1 DEF Alike
    <3>2. CountTo(t, j, On) = a + r /\ Count(t, On) = c + r /\ Count(s, On) = c /\ j = k + r
      <4>1. CountTo(t, j, On) = a + r /\ Count(t, On) = c + r /\ j = k + r
        BY <1>1, <1>3, <1>5, <1>6, <1>8, <1>9, <2>1
      <4>2. Count(s, On) = c
        BY <1>7, <1>8, <3>1
      <4>3. QED
        BY <4>1, <4>2
    <3>3. Ones(t, j, On) = ((k + r) - (a + r)) + ((c + r) - (a + r))
      BY <1>12, <3>2
    <3>5. Ones(s, k, On) = (k - a) + (c - a)
      BY <1>8, <1>12, <3>2
    <3>6. ((k + r) - (a + r)) + ((c + r) - (a + r)) = (k - a) + (c - a)
      BY ONLY <1>2, <1>8
    <3>4. QED
      BY <1>5, <3>3, <3>5, <3>6
  <2>2. CASE prev \notin On
    <3>1. x \in On
      BY <1>9, <2>2 DEF Alike
    <3>2. CountTo(t, j, On) = a + 0 /\ Count(t, On) = c + 0 /\ Count(s, On) = c + r /\ j = k + r
      BY <1>1, <1>3, <1>5, <1>6, <1>7, <1>8, <1>9, <2>2, <3>1
    <3>3. Ones(t, j, On) = ((k + r) - (a + 0)) + ((c + 0) - (a + 0))
      BY <1>12, <3>2
    <3>5. Ones(s, k, On) = (k - a) + ((c + r) - a)
      BY <1>8, <1>12, <3>2
    <3>6. ((k + r) - (a + 0)) + ((c + 0) - (a + 0)) = (k - a) + ((c + r) - a)
      BY ONLY <1>2, <1>8
    <3>4. QED
      BY <1>5, <3>3, <3>5, <3>6
  <2>3. QED
    BY <2>1, <2>2
<1>10. CASE ~front
  <2>1. x \in On <=> prev \in On
    BY <1>10 DEF Alike
  <2>2. CountTo(t, j, On) = a + 0 /\ Count(t, On) = Count(s, On) /\ j = k
    BY <1>3, <1>5, <1>6, <1>7, <1>8, <1>10, <2>1
  <2>3. QED
    BY <1>2, <1>5, <1>8, <2>2 DEF Ones
<1>11. QED
  BY <1>9, <1>10

\* So for every node that is left.
LEMMA SkippedOnes ==
    ASSUME NEW ns, Typed(ns), Shaped(ns), NEW x \in DOMAIN ns, NEW prev \in DOMAIN ns,
           NEW front \in BOOLEAN, NEW after, Skips(ns, after, x, prev, front),
           NEW n \in DOMAIN after, NotInverting(ns[n], x), NEW On, Alike(On, x, prev, front)
    PROVE  /\ after[n].inv \in 0..Len(after[n].fi)
           /\ Ones(after[n].fi, after[n].inv, On) = Ones(ns[n].fi, ns[n].inv, On)
<1>1. n \in DOMAIN ns /\ Reader(after[n], ns[n], x, prev, front)
  BY DEF Skips
<1>2. PICK D, s, k : D = DOMAIN ns /\ s = ns[n].fi /\ k = ns[n].inv
  OBVIOUS
<1>3. s \in Seq(D) /\ k \in Nat /\ Len(s) \in Nat /\ k <= Len(s)
  BY <1>1, <1>2 DEF Typed, Node, Shaped
<1>4. k \in 0..Len(s)
  BY <1>3
<1>5. PICK t, j : t = after[n].fi /\ j = after[n].inv
  OBVIOUS
<1>6. /\ x \in ToSet(s) => t = Bypass(s, x, prev, front)
      /\ x \notin ToSet(s) => t = s
      /\ j = k + IF front THEN Occurrences(s, x) ELSE 0
  BY <1>1, <1>2, <1>5 DEF Reader
<1>7. CASE x \in ToSet(s)
  <2>1. \A i \in 1..k : s[i] # x
    BY <1>2 DEF NotInverting
  <2>2. x \in D /\ prev \in D
    BY <1>2
  <2>3. j \in 0..Len(t) /\ Ones(t, j, On) = Ones(s, k, On)
    BY <1>3, <1>4, <1>6, <1>7, <2>1, <2>2, BypassOnes
  <2>4. QED
    BY <1>2, <1>5, <2>3
<1>8. CASE x \notin ToSet(s)
  <2>1. Occurrences(s, x) = 0
    BY <1>3, <1>8, Occurring
  <2>2. t = s /\ j = k
    BY <1>3, <1>6, <1>8, <2>1
  <2>3. QED
    BY <1>2, <1>4, <1>5, <2>2
<1>9. QED
  BY <1>7, <1>8

\* Nodes keep their shape and what they carry.
LEMMA SkipSolution ==
    ASSUME NEW ns, Typed(ns), Shaped(ns), NEW x \in DOMAIN ns, NEW prev \in DOMAIN ns,
           NEW front \in BOOLEAN, NEW after, Typed(after), Skips(ns, after, x, prev, front),
           \A n \in DOMAIN after : NotInverting(ns[n], x),
           NEW ones, NEW On, Solution(ns, ones, On), Alike(On, x, prev, front)
    PROVE  Shaped(after) /\ Solution(after, ones, On \cap DOMAIN after)
<1>1. PICK E : E = DOMAIN after
  OBVIOUS
<1>2. PICK Left : Left = On \cap E
  OBVIOUS
<1>3. ASSUME NEW n \in E
      PROVE  /\ n \in DOMAIN ns
             /\ Len(after[n].fi) = Len(ns[n].fi)
             /\ after[n].type = ns[n].type
  BY <1>1, SkippedNode
<1>4. ASSUME NEW n \in E
      PROVE  /\ after[n].inv \in 0..Len(after[n].fi)
             /\ Ones(after[n].fi, after[n].inv, On) = Ones(ns[n].fi, ns[n].inv, On)
  BY <1>1, SkippedOnes
<1>5. ASSUME NEW n \in E PROVE after[n].fi \in Seq(E) /\ after[n].inv \in Nat
  BY <1>1 DEF Typed, Node
<1>6. ASSUME NEW n \in E
      PROVE  Ones(after[n].fi, after[n].inv, Left) = Ones(after[n].fi, after[n].inv, On)
  <2>1. PICK s, k : s = after[n].fi /\ k = after[n].inv
    OBVIOUS
  <2>2. s \in Seq(E) /\ Len(s) \in Nat /\ k \in 0..Len(s)
    BY <1>4, <1>5, <2>1
  <2>3. \A i \in 1..Len(s) : s[i] \in Left <=> s[i] \in On
    BY <1>2, <2>2
  <2>4. Ones(s, k, Left) = Ones(s, k, On)
    BY <2>2, <2>3, OnesSame
  <2>5. QED
    BY <2>1, <2>4
<1>7. ASSUME NEW n \in E PROVE n \in Left <=> Carried(after, n, ones, Left)
  <2>1. n \in Left <=> n \in On
    BY <1>2
  <2>2. n \in On <=> Carried(ns, n, ones, On)
    BY <1>3 DEF Solution
  <2>3. Carried(ns, n, ones, On) <=> Carried(after, n, ones, Left)
    BY <1>3, <1>4, <1>6 DEF Carried
  <2>4. QED
    BY <2>1, <2>2, <2>3
<1>8. Solution(after, ones, Left)
  BY <1>1, <1>2, <1>7 DEF Solution
<1>9. Shaped(after)
  <2> SUFFICES ASSUME NEW n \in E
               PROVE  /\ after[n].type # "input" => Len(after[n].fi) = Arity(after[n].type)
                      /\ after[n].inv <= Len(after[n].fi)
    BY <1>1 DEF Shaped
  <2>1. after[n].inv <= Len(after[n].fi)
    BY <1>4
  <2>2. QED
    BY <1>3, <2>1 DEF Shaped
<1>10. QED
  BY <1>1, <1>2, <1>8, <1>9

\* A single fan-in.
LEMMA OnesOne ==
    ASSUME NEW x, NEW On
    PROVE  Ones(<<x>>, 0, On) = IF x \in On THEN 1 ELSE 0
<1>1. CountTo(<<x>>, 0, On) = 0
  BY CountZero
<1>2. Count(<<x>>, On) = IF x \in On THEN 1 ELSE 0
  BY CountOne
<1>3. QED
  BY <1>1, <1>2 DEF Ones

\* A node with one fan-in carries what its driver does, an inverter the opposite.
LEMMA DriverAlike ==
    ASSUME NEW ns, NEW x \in DOMAIN ns, NEW prev, ns[x].fi = <<prev>>, ns[x].inv = 0,
           ns[x].type \in {"output", "wire", "BUF", "INV"}, NEW ones, NEW On, Solution(ns, ones, On),
           NEW front \in BOOLEAN, front <=> ns[x].type = "INV"
    PROVE  Alike(On, x, prev, front)
<1>1. Ones(<<prev>>, 0, On) = IF prev \in On THEN 1 ELSE 0
  BY OnesOne
<1>2. x \in On <=> Passes(ns[x].type, Ones(<<prev>>, 0, On))
  BY DEF Solution, Carried
<1>3. CASE ns[x].type = "INV"
  <2>1. x \in On <=> Ones(<<prev>>, 0, On) = 0
    BY <1>2, <1>3 DEF Passes
  <2>2. QED
    BY <1>1, <1>3, <2>1 DEF Alike
<1>4. CASE ns[x].type # "INV"
  <2>1. x \in On <=> Ones(<<prev>>, 0, On) = 1
    BY <1>2, <1>4 DEF Passes
  <2>2. QED
    BY <1>1, <1>4, <2>1 DEF Alike
<1>5. QED
  BY <1>3, <1>4

--------------------------------------------------------------------------------
(* The nodes of a mapped file: what was read of it.                        *)

\* What a declared net is.
Port(f, net) == IF net \in Inputs(f) THEN "input" ELSE IF net \in Outputs(f) THEN "output" ELSE "wire"

\* The wires come before the gates.
WiresFirst(nl, ns) ==
    \A i, j \in DOMAIN nl : i < j /\ ns[nl[i]].type \in GateTypes => ns[nl[j]].type # "wire"

ReadNets(f, ns, nl, k) ==
    /\ ToSet(nl) = DOMAIN ns
    /\ \A n \in DOMAIN ns : ns[n].inv = 0
    /\ \A i \in DOMAIN f : i < k /\ f[i].op \in PortTypes => ToSet(f[i].names) \subseteq DOMAIN ns
    /\ \A n \in DOMAIN ns \cap Declared(f) : ns[n].type = Port(f, n)
    /\ WiresFirst(nl, ns)

--------------------------------------------------------------------------------
(* The nodes of a mapped file: what Simplification leaves of them.         *)

Apart(ns) ==
    \A n, m \in DOMAIN ns : {ns[n].type, ns[m].type} \subseteq {"INV", "BUF"} =>
        /\ m \notin ToSet(ns[n].fi)
        /\ \A p \in ToSet(ns[n].fi) : ns[p].type \in PortTypes => m \notin ToSet(ns[p].fi)

\* Nothing is inverted yet, and nets read gates.
NetsRead(ns) ==
    \A n \in DOMAIN ns : /\ ns[n].inv = 0
                         /\ ns[n].type \in PortTypes =>
                                \A m \in ToSet(ns[n].fi) : ns[m].type \notin PortTypes

\* Inverted fan-ins stay, what goes has none.
Inverted(ns) ==
    \A n \in DOMAIN ns :
        /\ ns[n].type \in {"wire", "BUF", "INV"} => ns[n].inv = 0
        /\ \A i \in 1..ns[n].inv : ns[ns[n].fi[i]].type \notin {"wire", "BUF", "INV"}

OutputsKept(f, ns) == \A o \in Outputs(f) : o \in DOMAIN ns /\ ns[o].type = "output"

Simplifying(f, ns, nl, early) ==
    /\ Shaped(ns) /\ OutputsKept(f, ns) /\ Apart(ns) /\ Inverted(ns)
    /\ ToSet(nl) = DOMAIN ns /\ WiresFirst(nl, ns)
    /\ (early \/ \E n \in DOMAIN ns : ns[n].type = "wire") => NetsRead(ns)

\* The nodes compute the file's function.
Computing(f, ns) ==
    \A ones \in SUBSET Inputs(f) : \E On \in SUBSET DOMAIN ns :
        /\ Solution(ns, ones, On)
        /\ \A o \in Outputs(f) : o \in On <=> NetValue(f, ones)[o]

ComputeInv ==
    WellFormed(file) =>
        /\ pc = "read" => ReadNets(file, nodes, netlist, line)
        /\ pc \in {"outputs", "wires", "done"} =>
               Simplifying(file, nodes, netlist, pc = "outputs") /\ Computing(file, nodes)
        /\ pc = "wires" => \A k \in DOMAIN netlist : k < at => ~Removable(netlist[k])

\* More nodes at the end of the list, no wire among them after a gate.
LEMMA WiresFirstJoined ==
    ASSUME NEW T, NEW s \in Seq(T), NEW t \in Seq(T), NEW ns, WiresFirst(s, ns),
           \A n \in ToSet(s) \cup ToSet(t), m \in ToSet(t) :
               ns[n].type \in GateTypes => ns[m].type # "wire"
    PROVE  WiresFirst(s \o t, ns)
<1>1. PICK a \in Nat, b \in Nat : a = Len(s) /\ b = Len(t)
  OBVIOUS
<1>2. PICK u : u = s \o t
  OBVIOUS
<1>3. /\ u \in Seq(T) /\ Len(u) = a + b
      /\ \A i \in 1..(a + b) : u[i] = IF i <= a THEN s[i] ELSE t[i - a]
  BY <1>1, <1>2, ConcatProperties
<1>4. DOMAIN u = 1..(a + b) /\ DOMAIN s = 1..a /\ DOMAIN t = 1..b
  BY <1>1, <1>3
<1>5. ASSUME NEW i \in 1..(a + b) PROVE u[i] \in ToSet(s) \cup ToSet(t)
  <2>1. CASE i <= a
    <3>1. i \in 1..a /\ u[i] = s[i]
      BY <1>1, <1>3, <2>1
    <3>2. QED
      BY <1>4, <3>1 DEF ToSet
  <2>2. CASE ~(i <= a)
    <3>1. i - a \in 1..b /\ u[i] = t[i - a]
      BY <1>1, <1>3, <2>2
    <3>2. QED
      BY <1>4, <3>1 DEF ToSet
  <2>3. QED
    BY <2>1, <2>2
<1>6. ASSUME NEW i \in 1..(a + b), NEW j \in 1..(a + b), i < j, ns[u[i]].type \in GateTypes
      PROVE  ns[u[j]].type # "wire"
  <2>1. CASE j <= a
    <3>1. i \in 1..a /\ j \in 1..a /\ u[i] = s[i] /\ u[j] = s[j]
      BY <1>1, <1>3, <1>6, <2>1
    <3>2. QED
      BY <1>4, <1>6, <3>1 DEF WiresFirst
  <2>2. CASE ~(j <= a)
    <3>1. j - a \in 1..b /\ u[j] = t[j - a]
      BY <1>1, <1>3, <2>2
    <3>2. u[j] \in ToSet(t)
      BY <1>4, <3>1 DEF ToSet
    <3>3. QED
      BY <1>5, <1>6, <3>2
  <2>3. QED
    BY <2>1, <2>2
<1>7. QED
  BY <1>2, <1>4, <1>6 DEF WiresFirst

\* The members of two sequences, one after the other.
LEMMA ToSetJoined ==
    ASSUME NEW T, NEW s \in Seq(T), NEW t \in Seq(T)
    PROVE  ToSet(s \o t) = ToSet(s) \cup ToSet(t)
<1>1. PICK u : u = s \o t
  OBVIOUS
<1>2. u \in Seq(T)
  BY <1>1, ConcatProperties
<1>3. ASSUME NEW n PROVE n \notin ToSet(u) <=> n \notin ToSet(s) /\ n \notin ToSet(t)
  <2>1. Occurrences(u, n) = Occurrences(s, n) + Occurrences(t, n)
    BY <1>1, OccurrencesJoined
  <2>2. Occurrences(s, n) \in Nat /\ Occurrences(t, n) \in Nat
    BY Occurring
  <2>3. /\ Occurrences(u, n) = 0 <=> n \notin ToSet(u)
        /\ Occurrences(s, n) = 0 <=> n \notin ToSet(s)
        /\ Occurrences(t, n) = 0 <=> n \notin ToSet(t)
    BY <1>2, Occurring
  <2>4. QED
    BY <2>1, <2>2, <2>3
<1>4. QED
  BY <1>1, <1>3

\* A declaration: a net is what its first line says.
LEMMA ReadNetsDeclared ==
    ASSUME NEW f \in Files, AsMapped(f), NEW ns, NEW nl \in Seq(DOMAIN ns), NEW k,
           Reading(f, ns, k), ReadNets(f, ns, nl, k), f[k].op \in PortTypes,
           NEW new, new = Without(f[k].names, DOMAIN ns),
           NEW after, Extends(ns, after, ToSet(new), f[k].op)
    PROVE  ReadNets(f, after, nl \o new, k + 1)
<1>1. k \in DOMAIN f /\ k \in Nat /\ f[k].names \in Seq(STRING)
  BY FileLine DEF Reading
<1>2. PICK D, E : D = DOMAIN ns /\ E = DOMAIN after
  OBVIOUS
<1>3. new \in Seq(STRING) /\ ToSet(new) = ToSet(f[k].names) \ D
  BY <1>1, <1>2, WithoutCount, WithoutSet
<1>4. E = D \cup ToSet(f[k].names)
  BY <1>2, <1>3 DEF Extends
<1>5. nl \in Seq(E) /\ new \in Seq(E)
  <2>1. \A i \in 1..Len(new) : new[i] \in E
    BY <1>3, <1>4 DEF ToSet
  <2>2. new = [i \in 1..Len(new) |-> new[i]] /\ Len(new) \in Nat
    BY <1>3
  <2>3. QED
    BY <1>2, <1>4, <2>1, <2>2, SeqGrows
<1>6. ToSet(nl \o new) = E
  <2>1. ToSet(nl \o new) = ToSet(nl) \cup ToSet(new)
    BY <1>5, ToSetJoined
  <2>2. ToSet(nl) = D
    BY <1>2 DEF ReadNets
  <2>3. QED
    BY <1>3, <1>4, <2>1, <2>2
<1>7. ASSUME NEW n \in D PROVE after[n] = ns[n]
  BY <1>2, <1>4 DEF Extends
<1>8. ASSUME NEW n \in E, n \notin D
      PROVE  n \in ToSet(f[k].names) /\ after[n].type = f[k].op /\ after[n].inv = 0
  BY <1>2, <1>4, <1>8 DEF Extends, NewNode
<1>9. \A n \in E : after[n].inv = 0
  BY <1>2, <1>7, <1>8 DEF ReadNets
<1>10. ASSUME NEW i \in DOMAIN f, i < k + 1, f[i].op \in PortTypes PROVE ToSet(f[i].names) \subseteq E
  <2>1. i \in Nat
    BY FileLine
  <2>2. CASE i = k
    BY <1>4, <2>2
  <2>3. CASE i # k
    <3>1. i < k
      BY <1>1, <1>10, <2>1, <2>3
    <3>2. QED
      BY <1>2, <1>4, <1>10, <3>1 DEF ReadNets
  <2>4. QED
    BY <2>2, <2>3
<1>11. ASSUME NEW n \in E \cap Declared(f) PROVE after[n].type = Port(f, n)
  <2>1. CASE n \in D
    BY <1>2, <1>7, <1>11, <2>1 DEF ReadNets
  <2>2. CASE n \notin D
    <3>1. n \in ToSet(f[k].names) /\ after[n].type = f[k].op
      BY <1>8, <2>2
    <3>2. CASE f[k].op = "input"
      <4>1. n \in Inputs(f)
        BY <1>1, <3>1, <3>2 DEF Inputs
      <4>2. QED
        BY <3>1, <3>2, <4>1 DEF Port
    <3>3. CASE f[k].op = "output"
      <4>1. n \in Outputs(f)
        BY <1>1, <3>1, <3>3 DEF Outputs
      <4>2. n \notin Inputs(f)
        BY <4>1 DEF AsMapped
      <4>3. QED
        BY <3>1, <3>3, <4>1, <4>2 DEF Port
    <3>4. CASE f[k].op = "wire"
      <4>1. ASSUME NEW i \in DOMAIN f, f[i].op \in {"input", "output"} PROVE n \notin ToSet(f[i].names)
        <5>1. i < k
          BY <1>1, <3>4, <4>1 DEF AsMapped
        <5>2. ToSet(f[i].names) \subseteq D
          BY <1>2, <4>1, <5>1 DEF ReadNets, PortTypes
        <5>3. QED
          BY <2>2, <5>2
      <4>2. n \notin Inputs(f) /\ n \notin Outputs(f)
        BY <4>1 DEF Inputs, Outputs
      <4>3. QED
        BY <3>1, <3>4, <4>2 DEF Port
    <3>5. QED
      BY <3>2, <3>3, <3>4 DEF PortTypes
  <2>3. QED
    BY <2>1, <2>2
<1>12. WiresFirst(nl, after)
  <2> SUFFICES ASSUME NEW i \in DOMAIN nl, NEW j \in DOMAIN nl, i < j,
                      after[nl[i]].type \in GateTypes
               PROVE  after[nl[j]].type # "wire"
    BY DEF WiresFirst
  <2>1. nl[i] \in D /\ nl[j] \in D
    BY <1>2
  <2>2. QED
    BY <1>7, <2>1 DEF ReadNets, WiresFirst
<1>13. ASSUME NEW n \in ToSet(nl) \cup ToSet(new), NEW m \in ToSet(new), after[n].type \in GateTypes
       PROVE  after[m].type # "wire"
  <2>1. m \in E /\ m \notin D /\ n \in E
    BY <1>2, <1>3, <1>4 DEF ReadNets
  <2>2. SUFFICES ASSUME f[k].op = "wire" PROVE FALSE
    BY <1>8, <2>1
  <2>3. n \in D /\ ns[n].type \in GateTypes
    BY <1>7, <1>8, <1>13, <2>1, <2>2 DEF GateTypes
  <2>4. n \notin Declared(f)
    BY <1>2, <2>3 DEF Reading, NetRead, PortTypes, GateTypes
  <2>5. PICK i \in GateLines(f) : i < k
    BY <1>2, <2>3, <2>4 DEF Reading, GateNames
  <2>6. i \in DOMAIN f /\ i \in Nat /\ f[i].op \in GateTypes
    BY GateLine
  <2>7. k < i
    BY <1>1, <2>2, <2>6 DEF AsMapped
  <2>8. QED
    BY <1>1, <2>5, <2>6, <2>7
<1>14. WiresFirst(nl \o new, after)
  BY <1>5, <1>12, <1>13, WiresFirstJoined
<1>15. QED
  BY <1>2, <1>6, <1>9, <1>10, <1>11, <1>14 DEF ReadNets

\* A gate: it is no net and stands behind the wires.
LEMMA ReadNetsGate ==
    ASSUME NEW f \in Files, NEW ns, NEW nl \in Seq(DOMAIN ns), NEW k,
           Reading(f, ns, k), ReadNets(f, ns, nl, k), f[k].op \in GateTypes,
           NEW after, Connected(ns, after, f[k].name, f[k].names, f[k].op)
    PROVE  ReadNets(f, after, Append(nl, f[k].name), k + 1)
<1>1. k \in GateLines(f) /\ k \in DOMAIN f /\ k \in Nat /\ f[k].name \notin Declared(f)
  <2>1. k \in GateLines(f)
    BY DEF Reading, GateLines
  <2>2. QED
    BY <2>1, GateLine
<1>2. PICK D, E, g : D = DOMAIN ns /\ E = DOMAIN after /\ g = f[k].name
  OBVIOUS
<1>3. E = D \cup {g} /\ after[g].type \in GateTypes /\ after[g].inv = 0
  BY <1>2 DEF Connected
<1>4. ASSUME NEW n \in D PROVE after[n].type = ns[n].type /\ after[n].inv = ns[n].inv
  BY <1>2 DEF Connected
<1>5. nl \in Seq(E) /\ <<g>> \in Seq(E) /\ Append(nl, g) = nl \o <<g>>
  <2>1. nl \in Seq(E)
    BY <1>2, <1>3, SeqGrows
  <2>2. g \in E
    BY <1>3
  <2>3. QED
    BY <2>1, <2>2
<1>6. ToSet(<<g>>) = {g}
  BY DEF ToSet
<1>7. ToSet(Append(nl, g)) = E
  <2>3. PICK t : t = <<g>>
    OBVIOUS
  <2>5. nl \in Seq(E) /\ t \in Seq(E)
    BY <1>5, <2>3
  <2>4. ToSet(nl \o t) = ToSet(nl) \cup ToSet(t)
    BY ONLY <2>5, ToSetJoined
  <2>1. ToSet(nl \o <<g>>) = ToSet(nl) \cup {g}
    BY <1>6, <2>3, <2>4
  <2>2. QED
    BY <1>2, <1>3, <1>5, <2>1 DEF ReadNets
<1>8. \A n \in E : after[n].inv = 0
  BY <1>2, <1>3, <1>4 DEF ReadNets
<1>9. ASSUME NEW i \in DOMAIN f, i < k + 1, f[i].op \in PortTypes PROVE ToSet(f[i].names) \subseteq E
  <2>1. i \in Nat
    BY FileLine
  <2>2. i # k
    BY <1>9 DEF PortTypes, GateTypes
  <2>3. i < k
    BY <1>1, <1>9, <2>1, <2>2
  <2>4. QED
    BY <1>2, <1>3, <1>9, <2>3 DEF ReadNets
<1>10. \A n \in E \cap Declared(f) : after[n].type = Port(f, n)
  BY <1>1, <1>2, <1>3, <1>4 DEF ReadNets
<1>11. WiresFirst(nl, after)
  <2> SUFFICES ASSUME NEW i \in DOMAIN nl, NEW j \in DOMAIN nl, i < j,
                      after[nl[i]].type \in GateTypes
               PROVE  after[nl[j]].type # "wire"
    BY DEF WiresFirst
  <2>1. nl[i] \in D /\ nl[j] \in D
    BY <1>2
  <2>2. QED
    BY <1>4, <2>1 DEF ReadNets, WiresFirst
<1>12. after[g].type # "wire"
  BY <1>3 DEF GateTypes
<1>13. WiresFirst(nl \o <<g>>, after)
  BY <1>5, <1>6, <1>11, <1>12, WiresFirstJoined
<1>14. QED
  BY <1>2, <1>5, <1>7, <1>8, <1>9, <1>10, <1>13 DEF ReadNets

--------------------------------------------------------------------------------
(* The whole file was read.                                                *)

\* A node of a file that was read: a gate with its line's pins, or a net.
GateOf(f, ns, g, i) ==
    /\ i \in GateLines(f) /\ g = f[i].name
    /\ ns[g].type = f[i].op /\ f[i].op \in GateTypes
    /\ ns[g].fi = Tail(f[i].names) /\ ns[g].inv = 0

NetOf(f, ns, n) ==
    /\ ns[n].type = Port(f, n) /\ ns[n].inv = 0
    /\ n \in Inputs(f) => ns[n].fi = <<>>
    /\ n \notin Inputs(f) =>
           \E i \in Drivers(f, n) : GateOf(f, ns, f[i].name, i) /\ ns[n].fi = <<f[i].name>>

\* All nets and gates of f are nodes of ns, and they are all of them.
Whole(f, ns) ==
    /\ DOMAIN ns = Declared(f) \cup {f[i].name : i \in GateLines(f)}
    /\ \A i \in GateLines(f) : GateOf(f, ns, f[i].name, i)
    /\ \A n \in Declared(f) : NetOf(f, ns, n)

\* At endmodule that is what was read.
LEMMA ReadWhole ==
    ASSUME NEW f \in Files, WellFormed(f), NEW ns, NEW nl, NEW k,
           Reading(f, ns, k), ReadNets(f, ns, nl, k), f[k].op = "endmodule"
    PROVE  Whole(f, ns)
<1>1. k \in DOMAIN f /\ k = Len(f) /\ Len(f) \in Nat
  BY FileLine DEF Reading
<1>2. ASSUME NEW i \in DOMAIN f, f[i].op # "endmodule" PROVE i < k /\ i \in Nat
  <2>1. i \in 1..Len(f) /\ i # Len(f)
    BY <1>2, FileLine
  <2>2. QED
    BY <1>1, <2>1
<1>3. ASSUME NEW i \in GateLines(f) PROVE i < k /\ i \in Nat /\ LineRead(f, ns, i)
  <2>1. i \in DOMAIN f /\ f[i].op # "endmodule"
    BY GateLine DEF GateTypes
  <2>2. QED
    BY <1>2, <2>1 DEF Reading
<1>4. Declared(f) \subseteq DOMAIN ns
  <2> SUFFICES ASSUME NEW i \in DOMAIN f, f[i].op \in PortTypes PROVE ToSet(f[i].names) \subseteq DOMAIN ns
    BY DEF Declared
  <2>1. i < k
    BY <1>2 DEF PortTypes
  <2>2. QED
    BY <2>1 DEF ReadNets
<1>5. DOMAIN ns = Declared(f) \cup {f[i].name : i \in GateLines(f)}
  <2>1. {f[i].name : i \in GateLines(f)} \subseteq DOMAIN ns
    BY <1>3 DEF LineRead
  <2>2. GateNames(f, k) \subseteq {f[i].name : i \in GateLines(f)}
    BY DEF GateNames
  <2>3. QED
    BY <1>4, <2>1, <2>2 DEF Reading
<1>6. ASSUME NEW i \in GateLines(f) PROVE GateOf(f, ns, f[i].name, i)
  <2>1. f[i].name \in DOMAIN ns
    BY <1>5
  <2>2. QED
    BY <1>3, <2>1, GateLine DEF GateOf, LineRead, ReadNets
<1>7. ASSUME NEW n \in Declared(f) PROVE NetOf(f, ns, n)
  <2>1. n \in DOMAIN ns \cap Declared(f)
    BY <1>4
  <2>2. ns[n].type = Port(f, n) /\ ns[n].inv = 0
    BY <2>1 DEF ReadNets
  <2>3. ASSUME n \notin Inputs(f)
        PROVE  \E i \in Drivers(f, n) : GateOf(f, ns, f[i].name, i) /\ ns[n].fi = <<f[i].name>>
    <3>1. PICK d \in Drivers(f, n) : TRUE
      BY <2>3 DEF WellFormed
    <3>2. d \in GateLines(f)
      BY <3>1 DEF Drivers
    <3>3. d < k /\ d \in Nat
      BY <1>3, <3>2
    <3>4. ~(k <= d)
      BY <1>1, <3>3
    <3>5. PICK i \in Drivers(f, n) : ns[n].fi = <<f[i].name>>
      BY <2>1, <3>1, <3>4 DEF Reading, NetRead
    <3>6. i \in GateLines(f)
      BY <3>5 DEF Drivers
    <3>7. QED
      BY <1>6, <3>5, <3>6
  <2>4. ASSUME n \in Inputs(f) PROVE ns[n].fi = <<>>
    <3>1. \A i \in Drivers(f, n) : FALSE
      <4>1. \A i \in GateLines(f) : Head(f[i].names) \notin Inputs(f)
        BY FilesAssumption DEF AsMapped
      <4>2. QED
        BY <2>4, <4>1 DEF Drivers
    <3>2. QED
      BY <2>1, <3>1 DEF Reading, NetRead
  <2>5. QED
    BY <2>2, <2>3, <2>4 DEF NetOf
<1>8. QED
  BY <1>5, <1>6, <1>7 DEF Whole

\* Pins are nets.
LEMMA PinsDeclared ==
    ASSUME NEW f \in Files, WellFormed(f), NEW i \in GateLines(f)
    PROVE  /\ Head(f[i].names) \in Declared(f)
           /\ ToSet(Tail(f[i].names)) \subseteq Declared(f)
BY GateLine DEF WellFormed

\* So gates have their fan-ins, nets their drivers, and nothing is inverted.
LEMMA WholeShape ==
    ASSUME NEW f \in Files, WellFormed(f), NEW ns, Typed(ns), Whole(f, ns)
    PROVE  Shaped(ns) /\ NetsRead(ns) /\ Inverted(ns) /\ OutputsKept(f, ns)
<1>1. PICK D : D = DOMAIN ns
  OBVIOUS
<1>2. ASSUME NEW n \in D
      PROVE  \/ n \in Declared(f) /\ NetOf(f, ns, n)
             \/ n \notin Declared(f) /\ \E i \in GateLines(f) : GateOf(f, ns, n, i)
  <2>1. CASE n \in Declared(f)
    BY <2>1 DEF Whole
  <2>2. CASE n \notin Declared(f)
    <3>1. PICK i \in GateLines(f) : n = f[i].name
      BY <1>1, <2>2 DEF Whole
    <3>2. GateOf(f, ns, n, i)
      BY <3>1 DEF Whole
    <3>3. QED
      BY <2>2, <3>2
  <2>3. QED
    BY <2>1, <2>2
<1>3. \A n \in D : ns[n].inv = 0
  BY <1>2 DEF NetOf, GateOf
<1>4. Inverted(ns)
  <2>1. 1..0 = {}
    OBVIOUS
  <2>2. QED
    BY <1>1, <1>3, <2>1 DEF Inverted
<1>5. ASSUME NEW n \in Declared(f), n \notin Inputs(f)
      PROVE  \E g : ns[n].fi = <<g>> /\ ns[g].type \in GateTypes
  BY <1>5 DEF Whole, NetOf, GateOf
<1>6. ASSUME NEW n \in D, n \notin Declared(f)
      PROVE  ns[n].type \in GateTypes /\ Len(ns[n].fi) = Arity(ns[n].type)
  <2>1. PICK i \in GateLines(f) : GateOf(f, ns, n, i)
    BY <1>2, <1>6
  <2>2. f[i].op \in GateTypes /\ Len(Tail(f[i].names)) = Arity(f[i].op)
    BY GateLine
  <2>3. ns[n].type = f[i].op /\ ns[n].fi = Tail(f[i].names)
    BY <2>1 DEF GateOf
  <2>4. QED
    BY <2>2, <2>3
<1>7. Shaped(ns)
  <2> SUFFICES ASSUME NEW n \in D
               PROVE  /\ ns[n].type # "input" => Len(ns[n].fi) = Arity(ns[n].type)
                      /\ ns[n].inv <= Len(ns[n].fi)
    BY <1>1 DEF Shaped
  <2>1. ns[n].inv <= Len(ns[n].fi)
    <3>1. PICK s : s = ns[n].fi
      OBVIOUS
    <3>2. s \in Seq(D)
      BY <1>1, <3>1 DEF Typed, Node
    <3>3. 0 <= Len(s)
      BY <3>2
    <3>4. QED
      BY <1>3, <3>1, <3>3
  <2>2. ASSUME ns[n].type # "input" PROVE Len(ns[n].fi) = Arity(ns[n].type)
    <3>1. CASE n \in Declared(f)
      <4>1. ns[n].type = Port(f, n)
        BY <1>2, <3>1 DEF NetOf
      <4>2. n \notin Inputs(f) /\ ns[n].type \in {"output", "wire"}
        BY <2>2, <4>1 DEF Port
      <4>3. PICK g : ns[n].fi = <<g>>
        BY <1>5, <3>1, <4>2
      <4>4. Len(<<g>>) = 1
        OBVIOUS
      <4>5. Arity(ns[n].type) = 1
        BY <4>2 DEF Arity
      <4>6. QED
        BY <4>3, <4>4, <4>5
    <3>2. CASE n \notin Declared(f)
      BY <1>6, <3>2
    <3>3. QED
      BY <3>1, <3>2
  <2>3. QED
    BY <2>1, <2>2
<1>8. NetsRead(ns)
  <2> SUFFICES ASSUME NEW n \in D, ns[n].type \in PortTypes, NEW m \in ToSet(ns[n].fi)
               PROVE  ns[m].type \notin PortTypes
    BY <1>1, <1>3 DEF NetsRead
  <2>1. n \in Declared(f)
    BY <1>6 DEF GateTypes, PortTypes
  <2>2. CASE n \in Inputs(f)
    <3>1. ns[n].fi = <<>>
      BY <2>1, <2>2 DEF Whole, NetOf
    <3>2. QED
      BY <3>1 DEF ToSet
  <2>3. CASE n \notin Inputs(f)
    <3>1. PICK g : ns[n].fi = <<g>> /\ ns[g].type \in GateTypes
      BY <1>5, <2>1, <2>3
    <3>2. m = g
      BY <3>1 DEF ToSet
    <3>3. QED
      BY <3>1, <3>2 DEF GateTypes, PortTypes
  <2>4. QED
    BY <2>2, <2>3
<1>9. OutputsKept(f, ns)
  <2> SUFFICES ASSUME NEW o \in Outputs(f) PROVE o \in D /\ ns[o].type = "output"
    BY <1>1 DEF OutputsKept
  <2>1. o \in Declared(f)
    BY DEF Outputs, Declared, PortTypes
  <2>2. o \notin Inputs(f)
    BY FilesAssumption DEF AsMapped
  <2>3. QED
    BY <1>1, <2>1, <2>2 DEF Whole, NetOf, Port
<1>10. QED
  BY <1>4, <1>7, <1>8, <1>9

\* Nodes of a gate type are gates of the file.
LEMMA WholeGates ==
    ASSUME NEW f \in Files, WellFormed(f), NEW ns, Whole(f, ns), NEW g \in DOMAIN ns,
           ns[g].type \in GateTypes
    PROVE  \E i \in GateLines(f) : GateOf(f, ns, g, i)
<1>1. g \notin Declared(f)
  BY DEF Whole, NetOf, Port, GateTypes
<1>2. QED
  BY <1>1 DEF Whole

\* In a mapped file no inverter or buffer is behind another.
LEMMA WholeApart ==
    ASSUME NEW f \in Files, WellFormed(f), NEW ns, Whole(f, ns)
    PROVE  Apart(ns)
<1> SUFFICES ASSUME NEW n \in DOMAIN ns, NEW m \in DOMAIN ns,
                    {ns[n].type, ns[m].type} \subseteq {"INV", "BUF"}
             PROVE  /\ m \notin ToSet(ns[n].fi)
                    /\ \A p \in ToSet(ns[n].fi) : m \notin ToSet(ns[p].fi)
  BY DEF Apart
<1>1. PICK i \in GateLines(f) : GateOf(f, ns, n, i)
  BY WholeGates DEF GateTypes
<1>2. PICK j \in GateLines(f) : GateOf(f, ns, m, j)
  BY WholeGates DEF GateTypes
<1>3. ToSet(ns[n].fi) \subseteq Declared(f)
  BY <1>1, PinsDeclared DEF GateOf
<1>4. m \notin Declared(f)
  BY <1>2, GateLine DEF GateOf
<1>5. ASSUME NEW p \in ToSet(ns[n].fi), m \in ToSet(ns[p].fi) PROVE FALSE
  <2>1. p \in Declared(f) /\ NetOf(f, ns, p)
    BY <1>3 DEF Whole
  <2>2. p \notin Inputs(f)
    <3>1. m \notin ToSet(<<>>)
      BY DEF ToSet
    <3>2. QED
      BY <1>5, <2>1, <3>1 DEF NetOf
  <2>3. PICK d \in Drivers(f, p) : GateOf(f, ns, f[d].name, d) /\ ns[p].fi = <<f[d].name>>
    BY <2>1, <2>2 DEF NetOf
  <2>4. m = f[d].name
    BY <1>5, <2>3 DEF ToSet
  <2>5. f[d].op = ns[m].type /\ d \in GateLines(f) /\ Head(f[d].names) = p
    BY <2>3, <2>4 DEF GateOf, Drivers
  <2>6. {f[d].op, f[i].op} \subseteq {"INV", "BUF"}
    BY <1>1, <2>5 DEF GateOf
  <2>7. p \notin ToSet(Tail(f[i].names))
    BY <1>1, <2>5, <2>6, FilesAssumption DEF AsMapped
  <2>8. QED
    BY <1>1, <2>7 DEF GateOf
<1>6. QED
  BY <1>3, <1>4, <1>5

\* A gate carries what the net it drives does.
LEMMA WholeCarries ==
    ASSUME NEW f \in Files, WellFormed(f), NEW ns, Typed(ns), Whole(f, ns), NEW ones,
           NEW N, Solution(NetNodes(f), ones, N),
           NEW On, On = N \cup {f[i].name : i \in {i \in GateLines(f) : Head(f[i].names) \in N}}
    PROVE  Solution(ns, ones, On)
<1>1. N \subseteq Declared(f)
  BY NetGraph DEF Solution
<1>2. ASSUME NEW n \in Declared(f) PROVE n \in On <=> n \in N
  <2>1. \A i \in GateLines(f) : f[i].name # n
    BY GateLine
  <2>2. QED
    BY <2>1
<1>3. ASSUME NEW i \in GateLines(f) PROVE f[i].name \in On <=> Head(f[i].names) \in N
  <2>1. f[i].name \notin N
    BY <1>1, GateLine
  <2>2. QED
    BY <2>1, TwoGateLines
<1>4. On \subseteq DOMAIN ns
  BY <1>1 DEF Whole
<1>5. ASSUME NEW n \in Declared(f) PROVE n \in N <=> Carried(NetNodes(f), n, ones, N)
  BY NetGraph DEF Solution
<1>6. ASSUME NEW n \in Declared(f), n \in Inputs(f) PROVE n \in On <=> Carried(ns, n, ones, On)
  <2>1. ns[n].type = "input"
    BY <1>6 DEF Whole, NetOf, Port
  <2>2. Driven(f, n, NetNodes(f)[n])
    BY NetNode
  <2>3. NetNodes(f)[n].type = "input"
    BY <1>6, <2>2 DEF Driven
  <2>4. QED
    BY <1>2, <1>5, <2>1, <2>3 DEF Carried
<1>7. ASSUME NEW n \in Declared(f), n \notin Inputs(f) PROVE n \in On <=> Carried(ns, n, ones, On)
  <2>1. PICK i \in Drivers(f, n) : ns[n].fi = <<f[i].name>>
    BY <1>7 DEF Whole, NetOf
  <2>2. ns[n].type \in {"output", "wire"} /\ ns[n].inv = 0
    BY <1>7 DEF Whole, NetOf, Port
  <2>3. i \in GateLines(f) /\ Head(f[i].names) = n
    BY DEF Drivers
  <2>4. PICK g : g = f[i].name
    OBVIOUS
  <2>5. Ones(<<g>>, 0, On) = IF g \in On THEN 1 ELSE 0
    BY OnesOne
  <2>6. Carried(ns, n, ones, On) <=> Passes(ns[n].type, Ones(<<g>>, 0, On))
    BY <2>1, <2>2, <2>4 DEF Carried
  <2>7. Carried(ns, n, ones, On) <=> g \in On
    <3>1. PICK type, c : type = ns[n].type /\ c = Ones(<<g>>, 0, On)
      OBVIOUS
    <3>2. Passes(type, c) <=> c = 1
      BY <2>2, <3>1 DEF Passes
    <3>3. c = 1 <=> g \in On
      BY <2>5, <3>1
    <3>4. QED
      BY <2>6, <3>1, <3>2, <3>3
  <2>8. QED
    BY <1>2, <1>3, <2>3, <2>4, <2>7
<1>8. ASSUME NEW g \in DOMAIN ns, NEW i \in GateLines(f), GateOf(f, ns, g, i)
      PROVE  g \in On <=> Carried(ns, g, ones, On)
  <2>1. PICK n : n = Head(f[i].names)
    OBVIOUS
  <2>2. n \in Declared(f) /\ n \notin Inputs(f)
    <3>1. n \notin Inputs(f)
      BY <2>1, FilesAssumption DEF AsMapped
    <3>2. QED
      BY <2>1, <3>1, PinsDeclared
  <2>3. PICK v : v = NetNodes(f)[n]
    OBVIOUS
  <2>4. v.type = f[i].op /\ v.fi = Tail(f[i].names) /\ v.inv = 0
    <3>1. Driven(f, n, v)
      BY <2>2, <2>3, NetNode
    <3>2. PICK d \in Drivers(f, n) : d \in GateLines(f) /\ v.type = f[d].op /\ v.fi = Tail(f[d].names)
      BY <2>2, <3>1 DEF Driven
    <3>3. d = i
      BY <2>1, <3>2, TwoGateLines DEF Drivers
    <3>4. QED
      BY <3>1, <3>2, <3>3 DEF Driven
  <2>5. PICK s, type : s = Tail(f[i].names) /\ type = f[i].op
    OBVIOUS
  <2>6. type # "input"
    BY <2>5, GateLine DEF GateTypes
  <2>7. Carried(NetNodes(f), n, ones, N) <=> Passes(type, Ones(s, 0, N))
    BY <2>3, <2>4, <2>5, <2>6 DEF Carried
  <2>8. Carried(ns, g, ones, On) <=> Passes(type, Ones(s, 0, On))
    BY <1>8, <2>5, <2>6 DEF Carried, GateOf
  <2>9. Ones(s, 0, N) = Ones(s, 0, On)
    <3>1. ns[g].fi = s /\ ns[g].fi \in Seq(DOMAIN ns)
      BY <1>8, <2>5 DEF GateOf, Typed, Node
    <3>2. s \in Seq(DOMAIN ns)
      BY <3>1
    <3>3. Len(s) \in Nat /\ 0 \in 0..Len(s)
      BY <3>2
    <3>4. ASSUME NEW j \in 1..Len(s) PROVE s[j] \in N <=> s[j] \in On
      <4>1. s[j] \in ToSet(s)
        BY <3>2 DEF ToSet
      <4>2. s[j] \in Declared(f)
        BY <2>5, <4>1, PinsDeclared
      <4>3. QED
        BY <1>2, <4>2
    <3>5. QED
      BY <3>3, <3>4, OnesSame
  <2>10. g \in On <=> n \in N
    BY <1>3, <1>8, <2>1 DEF GateOf
  <2>11. QED
    BY <1>5, <2>2, <2>7, <2>8, <2>9, <2>10
<1>9. ASSUME NEW n \in DOMAIN ns PROVE n \in On <=> Carried(ns, n, ones, On)
  <2>1. CASE n \in Declared(f)
    BY <1>6, <1>7, <2>1
  <2>2. CASE n \notin Declared(f)
    <3>1. PICK i \in GateLines(f) : GateOf(f, ns, n, i)
      BY <2>2 DEF Whole
    <3>2. QED
      BY <1>8, <3>1
  <2>3. QED
    BY <2>1, <2>2
<1>10. QED
  BY <1>4, <1>9 DEF Solution

\* The whole netlist computes the function of the file.
LEMMA WholeComputes ==
    ASSUME NEW f \in Files, WellFormed(f), NEW ns, Typed(ns), Whole(f, ns)
    PROVE  Computing(f, ns)
<1> SUFFICES ASSUME NEW ones \in SUBSET Inputs(f)
             PROVE  \E On \in SUBSET DOMAIN ns :
                        /\ Solution(ns, ones, On)
                        /\ \A o \in Outputs(f) : o \in On <=> NetValue(f, ones)[o]
  BY DEF Computing
<1>1. PICK value : value = NetValue(f, ones)
  OBVIOUS
<1>2. PICK N : N = {net \in Declared(f) : value[net]}
  OBVIOUS
<1>3. Solution(NetNodes(f), ones, N)
  BY <1>1, <1>2, NetValueSolves
<1>4. PICK On : On = N \cup {f[i].name : i \in {i \in GateLines(f) : Head(f[i].names) \in N}}
  OBVIOUS
<1>5. Solution(ns, ones, On)
  BY <1>3, <1>4, WholeCarries
<1>6. ASSUME NEW o \in Outputs(f) PROVE o \in On <=> value[o]
  <2>1. o \in Declared(f)
    BY DEF Outputs, Declared, PortTypes
  <2>2. \A i \in GateLines(f) : f[i].name # o
    BY <2>1, GateLine
  <2>3. QED
    BY <1>2, <1>4, <2>1, <2>2
<1>7. QED
  BY <1>1, <1>5, <1>6 DEF Solution

--------------------------------------------------------------------------------
(* A node skipped: what the nodes that are left keep.                      *)

\* Skipping a node with one fan-in keeps the function.
LEMMA ComputingSkip ==
    ASSUME NEW f, NEW ns, Typed(ns), Shaped(ns), Computing(f, ns),
           NEW x \in DOMAIN ns, NEW prev \in DOMAIN ns, ns[x].fi = <<prev>>, ns[x].inv = 0,
           ns[x].type \in {"output", "wire", "BUF", "INV"},
           NEW front \in BOOLEAN, front <=> ns[x].type = "INV",
           NEW after, Typed(after), Skips(ns, after, x, prev, front),
           \A n \in DOMAIN after : NotInverting(ns[n], x), Outputs(f) \subseteq DOMAIN after
    PROVE  Shaped(after) /\ Computing(f, after)
<1>1. ASSUME NEW ones \in SUBSET Inputs(f)
      PROVE  /\ Shaped(after)
             /\ \E On \in SUBSET DOMAIN after :
                    /\ Solution(after, ones, On)
                    /\ \A o \in Outputs(f) : o \in On <=> NetValue(f, ones)[o]
  <2>1. PICK On \in SUBSET DOMAIN ns :
            Solution(ns, ones, On) /\ \A o \in Outputs(f) : o \in On <=> NetValue(f, ones)[o]
    BY DEF Computing
  <2>2. Alike(On, x, prev, front)
    BY <2>1, DriverAlike
  <2>3. Shaped(after) /\ Solution(after, ones, On \cap DOMAIN after)
    BY <2>1, <2>2, SkipSolution
  <2>4. \A o \in Outputs(f) : o \in On \cap DOMAIN after <=> NetValue(f, ones)[o]
    BY <2>1
  <2>5. QED
    BY <2>3, <2>4
<1>2. {} \in SUBSET Inputs(f)
  OBVIOUS
<1>3. Shaped(after)
  BY <1>1, <1>2
<1>4. QED
  BY <1>1, <1>3 DEF Computing

\* Fan-ins are nodes.
LEMMA FanInKnown ==
    ASSUME NEW ns, Typed(ns), NEW n \in DOMAIN ns, NEW m \in ToSet(ns[n].fi)
    PROVE  m \in DOMAIN ns
<1>1. PICK D, s : D = DOMAIN ns /\ s = ns[n].fi
  OBVIOUS
<1>2. s \in Seq(D)
  BY <1>1 DEF Typed, Node
<1>3. QED
  BY <1>1, <1>2 DEF ToSet

\* Skipping an output or a wire: nothing is inverted, the driver is a gate.
LEMMA NetsReadSkip ==
    ASSUME NEW ns, Typed(ns), NetsRead(ns), NEW x \in DOMAIN ns, NEW prev \in DOMAIN ns,
           prev \in ToSet(ns[x].fi), ns[x].type \in PortTypes,
           NEW after, Typed(after), Skips(ns, after, x, prev, FALSE), Skipped(ns, after, x, prev)
    PROVE  NetsRead(after)
<1> SUFFICES ASSUME NEW n \in DOMAIN after
             PROVE  /\ after[n].inv = 0
                    /\ after[n].type \in PortTypes =>
                           \A m \in ToSet(after[n].fi) : after[m].type \notin PortTypes
  BY DEF NetsRead
<1>1. /\ n \in DOMAIN ns /\ after[n].type = ns[n].type
      /\ x \notin ToSet(ns[n].fi) => after[n].fi = ns[n].fi
  BY DEF Skipped
<1>2. after[n].inv = 0
  <2>1. after[n].inv = ns[n].inv + 0
    BY DEF Skips, Reader
  <2>2. QED
    BY <1>1, <2>1 DEF NetsRead
<1>3. ASSUME after[n].type \in PortTypes, NEW m \in ToSet(after[n].fi)
      PROVE  after[m].type \notin PortTypes
  <2>1. x \notin ToSet(ns[n].fi)
    BY <1>1, <1>3 DEF NetsRead
  <2>2. m \in ToSet(ns[n].fi) /\ ns[m].type \notin PortTypes
    BY <1>1, <1>3, <2>1 DEF NetsRead
  <2>3. m \in DOMAIN after
    BY FanInKnown
  <2>4. QED
    BY <2>2, <2>3 DEF Skipped
<1>4. QED
  BY <1>2, <1>3

\* So no node inverts what it reads,
LEMMA NotInvertingEarly ==
    ASSUME NEW ns, NetsRead(ns), NEW x, NEW n \in DOMAIN ns
    PROVE  NotInverting(ns[n], x)
<1>1. ns[n].inv = 0 /\ 1..0 = {}
  BY DEF NetsRead
<1>2. QED
  BY <1>1 DEF NotInverting

\* and what goes has no inverted fan-in.
LEMMA InvertedEarly == \A ns : NetsRead(ns) => Inverted(ns)
<1>1. 1..0 = {}
  OBVIOUS
<1>2. QED
  BY <1>1 DEF NetsRead, Inverted

\* Skipping a net brings no inverter or buffer behind another.
LEMMA ApartEarly ==
    ASSUME NEW ns, Typed(ns), NetsRead(ns), Apart(ns), NEW x \in DOMAIN ns, NEW prev \in DOMAIN ns,
           prev \in ToSet(ns[x].fi), ns[x].type \in PortTypes,
           NEW after, Typed(after), Skipped(ns, after, x, prev)
    PROVE  Apart(after)
<1> SUFFICES ASSUME NEW n \in DOMAIN after, NEW m \in DOMAIN after,
                    {after[n].type, after[m].type} \subseteq {"INV", "BUF"}
             PROVE  /\ m \notin ToSet(after[n].fi)
                    /\ \A p \in ToSet(after[n].fi) : after[p].type \in PortTypes => m \notin ToSet(after[p].fi)
  BY DEF Apart
<1>1. ASSUME NEW k \in DOMAIN after
      PROVE  /\ k \in DOMAIN ns /\ after[k].type = ns[k].type
             /\ ToSet(after[k].fi) \subseteq ToSet(ns[k].fi) \cup {prev}
             /\ x \notin ToSet(ns[k].fi) => after[k].fi = ns[k].fi
  BY DEF Skipped
<1>2. /\ m \notin ToSet(ns[n].fi)
      /\ \A p \in ToSet(ns[n].fi) : ns[p].type \in PortTypes => m \notin ToSet(ns[p].fi)
  BY <1>1 DEF Apart
<1>3. ns[prev].type \notin PortTypes
  BY DEF NetsRead
<1>4. m \notin ToSet(after[n].fi)
  <2>1. CASE x \in ToSet(ns[n].fi)
    <3>1. m # prev
      BY <1>2, <2>1
    <3>2. QED
      BY <1>1, <1>2, <3>1
  <2>2. CASE x \notin ToSet(ns[n].fi)
    BY <1>1, <1>2, <2>2
  <2>3. QED
    BY <2>1, <2>2
<1>5. ASSUME NEW p \in ToSet(after[n].fi), after[p].type \in PortTypes PROVE m \notin ToSet(after[p].fi)
  <2>1. p \in DOMAIN after
    BY FanInKnown
  <2>2. ns[p].type \in PortTypes
    BY <1>1, <1>5, <2>1
  <2>3. p \in ToSet(ns[n].fi)
    BY <1>1, <1>3, <2>2
  <2>4. x \notin ToSet(ns[p].fi)
    BY <1>1, <2>1, <2>2 DEF NetsRead
  <2>5. QED
    BY <1>1, <1>2, <2>1, <2>2, <2>3, <2>4
<1>6. QED
  BY <1>4, <1>5

\* Skipping a buffer or an inverter: no wire is left.
LEMMA ApartLate ==
    ASSUME NEW ns, Typed(ns), Apart(ns), NEW x \in DOMAIN ns, NEW prev \in DOMAIN ns,
           prev \in ToSet(ns[x].fi), ns[x].type \in {"INV", "BUF"},
           NEW after, Typed(after), Skipped(ns, after, x, prev)
    PROVE  Apart(after)
<1> SUFFICES ASSUME NEW n \in DOMAIN after, NEW m \in DOMAIN after,
                    {after[n].type, after[m].type} \subseteq {"INV", "BUF"}
             PROVE  /\ m \notin ToSet(after[n].fi)
                    /\ \A p \in ToSet(after[n].fi) : after[p].type \in PortTypes => m \notin ToSet(after[p].fi)
  BY DEF Apart
<1>1. ASSUME NEW k \in DOMAIN after
      PROVE  /\ k \in DOMAIN ns /\ after[k].type = ns[k].type
             /\ ToSet(after[k].fi) \subseteq ToSet(ns[k].fi) \cup {prev}
             /\ x \notin ToSet(ns[k].fi) => after[k].fi = ns[k].fi
  BY DEF Skipped
<1>2. /\ m \notin ToSet(ns[n].fi) /\ x \notin ToSet(ns[n].fi) /\ m # prev
      /\ \A p \in ToSet(ns[n].fi) : ns[p].type \in PortTypes => m \notin ToSet(ns[p].fi)
  BY <1>1 DEF Apart
<1>3. after[n].fi = ns[n].fi
  BY <1>1, <1>2
<1>4. ASSUME NEW p \in ToSet(after[n].fi), after[p].type \in PortTypes PROVE m \notin ToSet(after[p].fi)
  <2>1. p \in DOMAIN after
    BY FanInKnown
  <2>2. p \in ToSet(ns[n].fi) /\ ns[p].type \in PortTypes
    BY <1>1, <1>3, <1>4, <2>1
  <2>3. QED
    BY <1>1, <1>2, <2>1, <2>2
<1>5. QED
  BY <1>2, <1>3, <1>4

\* Its readers are gates that stay; they invert its driver, which stays too.
LEMMA InvertedSkip ==
    ASSUME NEW ns, Typed(ns), Shaped(ns), Apart(ns), Inverted(ns),
           \A n \in DOMAIN ns : ns[n].type # "wire",
           NEW x \in DOMAIN ns, NEW prev \in DOMAIN ns,
           prev \in ToSet(ns[x].fi), ns[x].type \in {"INV", "BUF"}, NEW front \in BOOLEAN,
           NEW after, Typed(after), Skips(ns, after, x, prev, front), Skipped(ns, after, x, prev), Shaped(after)
    PROVE  Inverted(after)
<1> DEFINE Gone == {"wire", "BUF", "INV"}
<1> SUFFICES ASSUME NEW n \in DOMAIN after
             PROVE  /\ after[n].type \in Gone => after[n].inv = 0
                    /\ \A i \in 1..after[n].inv : after[after[n].fi[i]].type \notin Gone
  BY DEF Inverted
<1>1. ASSUME NEW k \in DOMAIN after
      PROVE  k \in DOMAIN ns /\ after[k].type = ns[k].type
  BY DEF Skipped
<1>2. Reader(after[n], ns[n], x, prev, front)
  BY DEF Skips
<1>3. PICK D, s, k : D = DOMAIN ns /\ s = ns[n].fi /\ k = ns[n].inv
  OBVIOUS
<1>4. n \in D /\ s \in Seq(D) /\ k \in Nat /\ Len(s) \in Nat /\ k <= Len(s)
  BY <1>1, <1>3 DEF Typed, Node, Shaped
<1>5. k \in 0..Len(s)
  BY <1>4
<1>6. PICK t, j : t = after[n].fi /\ j = after[n].inv
  OBVIOUS
<1>7. /\ x \in ToSet(s) => t = Bypass(s, x, prev, front)
      /\ x \notin ToSet(s) => t = s
      /\ j = k + IF front THEN Occurrences(s, x) ELSE 0
  BY <1>2, <1>3, <1>6 DEF Reader
<1>8. Occurrences(s, x) \in Nat /\ (Occurrences(s, x) = 0 <=> x \notin ToSet(s))
  BY <1>4, Occurring
<1>9. ASSUME after[n].type \in Gone PROVE after[n].inv = 0
  <2>1. ns[n].type \in {"INV", "BUF"} /\ k = 0
    BY <1>1, <1>3, <1>9 DEF Inverted
  <2>2. x \notin ToSet(s)
    BY <1>1, <1>3, <2>1 DEF Apart
  <2>3. QED
    BY <1>6, <1>7, <1>8, <2>1, <2>2
<1>10. ns[prev].type \notin Gone
  BY DEF Apart
<1>11. \A h \in 1..k : ns[s[h]].type \notin Gone /\ s[h] # x
  BY <1>1, <1>3 DEF Inverted
<1>12. ASSUME NEW i \in 1..j PROVE t[i] = prev \/ t[i] \in {s[h] : h \in 1..k}
  <2>1. CASE x \in ToSet(s)
    <3>1. j = IF front THEN k + Occurrences(s, x) ELSE k
      BY <1>4, <1>7
    <3>2. Prefixed(Bypass(s, x, prev, front), IF front THEN k + Occurrences(s, x) ELSE k,
                   s, k, x, prev, front)
      <4>1. prev \in D
        BY <1>3
      <4>2. QED
        BY <1>4, <1>5, <1>11, <4>1, BypassPrefix
    <3>3. Prefixed(t, j, s, k, x, prev, front)
      BY <1>7, <2>1, <3>1, <3>2
    <3>4. QED
      BY <3>3 DEF Prefixed
  <2>2. CASE x \notin ToSet(s)
    <3>1. t = s /\ j = k
      BY <1>4, <1>7, <1>8, <2>2
    <3>2. QED
      BY <3>1
  <2>3. QED
    BY <2>1, <2>2
<1>13. ASSUME NEW i \in 1..j PROVE after[t[i]].type \notin Gone
  <2>1. ns[t[i]].type \notin Gone
    BY <1>10, <1>11, <1>12
  <2>2. t[i] \in DOMAIN after
    <3>1. PICK E : E = DOMAIN after
      OBVIOUS
    <3>2. t \in Seq(E)
      BY <1>6, <3>1 DEF Typed, Node
    <3>3. j \in Nat /\ j <= Len(t)
      BY <1>6, <3>1 DEF Typed, Node, Shaped
    <3>4. i \in 1..Len(t)
      BY <3>2, <3>3
    <3>5. QED
      BY <3>1, <3>2, <3>4
  <2>3. QED
    BY <1>1, <2>1, <2>2
<1>14. QED
  BY <1>6, <1>9, <1>13

--------------------------------------------------------------------------------
(* Every step keeps what the nodes compute.                                *)

\* Before the first line.
LEMMA ComputeInit == Init => ComputeInv
<1> SUFFICES ASSUME Init PROVE ComputeInv
  OBVIOUS
<1>1. /\ file \in Files /\ line = 1 /\ nodes = <<>> /\ netlist = <<>> /\ pc = "read"
  BY DEF Init
<1>2. DOMAIN nodes = {} /\ DOMAIN netlist = {} /\ ToSet(netlist) = {}
  BY <1>1 DEF ToSet
<1>3. \A i \in DOMAIN file : ~(i < line)
  <2>1. \A i \in DOMAIN file : i \in 1..Len(file) /\ Len(file) \in Nat
    BY <1>1, FileLine
  <2>2. QED
    BY <1>1, <2>1
<1>4. ReadNets(file, nodes, netlist, line)
  BY <1>2, <1>3 DEF ReadNets, WiresFirst
<1>5. QED
  BY <1>1, <1>4 DEF ComputeInv

\* input, output, wire.
LEMMA ComputeDeclaration == GraphInv /\ ComputeInv /\ ReadDeclaration => ComputeInv'
<1> SUFFICES ASSUME GraphInv, ComputeInv, ReadDeclaration, WellFormed(file) PROVE ComputeInv'
  BY DEF ComputeInv, ReadDeclaration
<1>1. PICK new : new = Without(file[line].names, DOMAIN nodes)
  OBVIOUS
<1>2. /\ pc = "read" /\ pc' = "read" /\ file' = file /\ line' = line + 1
      /\ file[line].op \in PortTypes
      /\ netlist' = netlist \o new
      /\ nodes' = [n \in DOMAIN nodes \cup ToSet(new) |->
                      IF n \in DOMAIN nodes THEN nodes[n] ELSE NewNode(file[line].op)]
  BY <1>1 DEF ReadDeclaration
<1>3. /\ file \in Files /\ AsMapped(file) /\ netlist \in Seq(DOMAIN nodes)
      /\ Reading(file, nodes, line) /\ ReadNets(file, nodes, netlist, line)
  BY <1>2, FilesAssumption DEF GraphInv, ComputeInv, Listed
<1>4. Extends(nodes, nodes', ToSet(new), file[line].op)
  BY <1>2 DEF Extends
<1>5. ReadNets(file, nodes', netlist \o new, line + 1)
  BY <1>1, <1>2, <1>3, <1>4, ReadNetsDeclared
<1>6. QED
  BY <1>2, <1>5 DEF ComputeInv

\* A gate.
LEMMA ComputeGate == GraphInv /\ ComputeInv /\ ReadGate => ComputeInv'
<1> SUFFICES ASSUME GraphInv, ComputeInv, ReadGate, WellFormed(file) PROVE ComputeInv'
  BY DEF ComputeInv, ReadGate
<1>1. PICK g, pins, type : g = file[line].name /\ pins = file[line].names /\ type = file[line].op
  OBVIOUS
<1>3. /\ pc = "read" /\ pc' = "read" /\ file' = file /\ line' = line + 1
      /\ type \in GateTypes
      /\ netlist' = Append(netlist, g)
  BY <1>1 DEF ReadGate, KnownGate
<1>4. /\ file \in Files /\ netlist \in Seq(DOMAIN nodes)
      /\ Reading(file, nodes, line) /\ ReadNets(file, nodes, netlist, line)
  BY <1>3 DEF GraphInv, ComputeInv, Listed
<1>5. Connected(nodes, nodes', g, pins, type)
  BY <1>1, GateConnected
<1>6. ReadNets(file, nodes', Append(netlist, g), line + 1)
  BY <1>1, <1>3, <1>4, <1>5, ReadNetsGate
<1>7. QED
  BY <1>3, <1>6 DEF ComputeInv

\* endmodule: what was read computes the function of the file.
LEMMA ComputeEndModule == GraphInv /\ ComputeInv /\ EndModule => ComputeInv'
<1> SUFFICES ASSUME GraphInv, ComputeInv, EndModule, WellFormed(file) PROVE ComputeInv'
  BY DEF ComputeInv, EndModule
<1>1. /\ pc = "read" /\ pc' = "outputs" /\ file[line].op = "endmodule"
      /\ file' = file /\ nodes' = nodes /\ netlist' = netlist
  BY DEF EndModule
<1>2. /\ file \in Files /\ Typed(nodes)
      /\ Reading(file, nodes, line) /\ ReadNets(file, nodes, netlist, line)
  BY <1>1 DEF GraphInv, ComputeInv
<1>3. Whole(file, nodes)
  BY <1>1, <1>2, ReadWhole
<1>4. Shaped(nodes) /\ NetsRead(nodes) /\ Inverted(nodes) /\ OutputsKept(file, nodes)
  BY <1>2, <1>3, WholeShape
<1>5. Apart(nodes)
  BY <1>2, <1>3, WholeApart
<1>6. Computing(file, nodes)
  BY <1>2, <1>3, WholeComputes
<1>7. ToSet(netlist) = DOMAIN nodes /\ WiresFirst(netlist, nodes)
  BY <1>2 DEF ReadNets
<1>8. Simplifying(file, nodes, netlist, TRUE)
  BY <1>4, <1>5, <1>7 DEF Simplifying
<1>9. QED
  BY <1>1, <1>6, <1>8 DEF ComputeInv

\* Steps that leave the nodes alone.
LEMMA ComputeOtherStep ==
    GraphInv /\ ComputeInv /\ (ReadError \/ OutputsFixed \/ FanInError \/ TraceInputs \/ UNCHANGED vars) => ComputeInv'
<1> SUFFICES ASSUME GraphInv, ComputeInv, WellFormed(file),
                    ReadError \/ OutputsFixed \/ FanInError \/ TraceInputs \/ UNCHANGED vars
             PROVE  ComputeInv'
  BY DEF ComputeInv, ReadError, OutputsFixed, FanInError, TraceInputs, Err, vars
<1>1. CASE ReadError \/ FanInError
  <2>1. pc' = "err"
    BY <1>1 DEF ReadError, FanInError, Err
  <2>2. QED
    BY <2>1 DEF ComputeInv
<1>2. CASE OutputsFixed
  <2>1. pc = "outputs" /\ pc' = "wires" /\ at' = 1 /\ UNCHANGED <<file, netlist, nodes>>
    BY <1>2 DEF OutputsFixed
  <2>2. Simplifying(file, nodes, netlist, TRUE) /\ Computing(file, nodes)
    BY <2>1 DEF ComputeInv
  <2>3. Simplifying(file, nodes, netlist, FALSE)
    BY <2>2 DEF Simplifying
  <2>4. \A k \in DOMAIN netlist : ~(k < 1)
    <3>1. netlist \in Seq(DOMAIN nodes)
      BY <2>1 DEF GraphInv, Listed
    <3>2. QED
      BY <3>1
  <2>5. QED
    BY <2>1, <2>2, <2>3, <2>4 DEF ComputeInv
<1>3. CASE TraceInputs
  <2>1. pc = "wires" /\ pc' = "done" /\ UNCHANGED <<file, netlist, nodes>>
    BY <1>3 DEF TraceInputs
  <2>2. Simplifying(file, nodes, netlist, FALSE) /\ Computing(file, nodes)
    BY <2>1 DEF ComputeInv
  <2>3. QED
    BY <2>1, <2>2 DEF ComputeInv
<1>4. CASE UNCHANGED vars
  BY <1>4 DEF ComputeInv, vars, Removable
<1>5. QED
  BY <1>1, <1>2, <1>3, <1>4

\* The list without its k-th node: the others in order.
LEMMA RemovedOrder ==
    ASSUME NEW D, NEW nl \in Seq(D), IsInjective(nl), NEW k \in 1..Len(nl), NEW x, x = nl[k],
           NEW left, left = RemoveAt(nl, k), NEW ns, WiresFirst(nl, ns),
           NEW after, \A n \in D \ {x} : after[n].type = ns[n].type
    PROVE  /\ ToSet(left) = ToSet(nl) \ {x}
           /\ WiresFirst(left, after)
           /\ \A i \in DOMAIN left : i < k => left[i] = nl[i] /\ i \in DOMAIN nl
<1>1. PICK L \in Nat : L = Len(nl)
  OBVIOUS
<1>2. /\ left \in Seq(D) /\ Len(left) = L - 1
      /\ \A i \in 1..(L - 1) : left[i] = IF i < k THEN nl[i] ELSE nl[i + 1]
  BY <1>1, Removed
<1>3. k \in 1..L /\ DOMAIN nl = 1..L /\ DOMAIN left = 1..(L - 1)
  BY <1>1, <1>2
<1>4. left \in Seq(D \ {x})
  BY RemovedListed
<1>5. ASSUME NEW i \in 1..(L - 1) PROVE left[i] \in D \ {x} /\ left[i] \in ToSet(nl)
  <2>1. left[i] \in D \ {x}
    BY <1>2, <1>4
  <2>2. CASE i < k
    <3>1. i \in 1..L /\ left[i] = nl[i]
      BY <1>2, <1>3, <2>2
    <3>2. QED
      BY <1>3, <2>1, <3>1 DEF ToSet
  <2>3. CASE ~(i < k)
    <3>1. i + 1 \in 1..L /\ left[i] = nl[i + 1]
      BY <1>2, <1>3, <2>3
    <3>2. QED
      BY <1>3, <2>1, <3>1 DEF ToSet
  <2>4. QED
    BY <2>2, <2>3
<1>6. ASSUME NEW n \in ToSet(nl), n # x PROVE n \in ToSet(left)
  <2>1. PICK i \in 1..L : n = nl[i]
    BY <1>3 DEF ToSet
  <2>2. CASE i < k
    <3>1. i \in 1..(L - 1)
      BY <1>3, <2>2
    <3>2. left[i] = n
      BY <1>2, <2>1, <2>2, <3>1
    <3>3. QED
      BY <1>3, <3>1, <3>2 DEF ToSet
  <2>3. CASE ~(i < k)
    <3>1. i # k
      BY <1>6, <2>1
    <3>2. i - 1 \in 1..(L - 1) /\ ~(i - 1 < k) /\ (i - 1) + 1 = i
      BY <1>3, <2>3, <3>1
    <3>3. left[i - 1] = n
      BY <1>2, <2>1, <3>2
    <3>4. QED
      BY <1>3, <3>2, <3>3 DEF ToSet
  <2>4. QED
    BY <2>2, <2>3
<1>7. ToSet(left) = ToSet(nl) \ {x}
  <2>1. ASSUME NEW n \in ToSet(left) PROVE n \in ToSet(nl) \ {x}
    BY <1>3, <1>5 DEF ToSet
  <2>2. QED
    BY <1>6, <2>1
<1> DEFINE s(i) == IF i < k THEN i ELSE i + 1
<1>8. ASSUME NEW i \in 1..(L - 1) PROVE s(i) \in 1..L /\ left[i] = nl[s(i)]
  <2>1. s(i) \in 1..L
    BY <1>3
  <2>2. left[i] = nl[s(i)]
    BY <1>2
  <2>3. QED
    BY <2>1, <2>2
<1>9. \A i, j \in 1..(L - 1) : i < j => s(i) < s(j)
  BY <1>3
<1> HIDE DEF s
<1>10. ASSUME NEW i \in 1..(L - 1), NEW j \in 1..(L - 1), i < j, after[left[i]].type \in GateTypes
       PROVE  after[left[j]].type # "wire"
  <2>1. ns[nl[s(i)]].type \in GateTypes
    BY <1>5, <1>8, <1>10
  <2>2. ns[nl[s(j)]].type # "wire"
    BY <1>3, <1>8, <1>9, <1>10, <2>1 DEF WiresFirst
  <2>3. QED
    BY <1>5, <1>8, <2>2
<1>11. WiresFirst(left, after)
  BY <1>3, <1>10 DEF WiresFirst
<1>12. ASSUME NEW i \in 1..(L - 1), i < k PROVE left[i] = nl[i] /\ i \in 1..L
  BY <1>1, <1>2, <1>12
<1>13. QED
  BY <1>3, <1>7, <1>11, <1>12

\* FixOutput skips a net.
LEMMA ComputeFixOutput == GraphInv /\ ComputeInv /\ FixOutput => ComputeInv'
<1> SUFFICES ASSUME GraphInv, ComputeInv, FixOutput, WellFormed(file) PROVE ComputeInv'
  BY DEF ComputeInv, FixOutput
<1>1. pc = "outputs" /\ pc' = "outputs" /\ file' = file /\ netlist' = netlist
  BY DEF FixOutput
<1>2. Typed(nodes) /\ netlist \in Seq(DOMAIN nodes)
  BY <1>1 DEF GraphInv, Listed
<1>3. Simplifying(file, nodes, netlist, TRUE) /\ Computing(file, nodes)
  BY <1>1 DEF ComputeInv
<1>4. /\ Shaped(nodes) /\ OutputsKept(file, nodes) /\ Apart(nodes) /\ NetsRead(nodes)
      /\ ToSet(netlist) = DOMAIN nodes /\ WiresFirst(netlist, nodes)
  BY <1>3 DEF Simplifying
<1>5. PICK x \in DOMAIN nodes, prev \in DOMAIN nodes : Fixing(x, prev)
  BY OutputFixed
<1>6. PICK front \in BOOLEAN : front = FALSE
  OBVIOUS
<1>7. /\ nodes[x].type = "output" /\ nodes[x].fi = <<prev>> /\ prev \in ToSet(nodes[x].fi)
      /\ DOMAIN nodes' = DOMAIN nodes
      /\ Typed(nodes') /\ Skips(nodes, nodes', x, prev, FALSE)
  BY <1>5 DEF Fixing
<1>8. Skipped(nodes, nodes', x, prev)
  BY <1>2, <1>6, <1>7, SkippedNodes
<1>9. \A n \in DOMAIN nodes' : NotInverting(nodes[n], x)
  BY <1>4, <1>7, NotInvertingEarly
<1>10. nodes[x].type \in PortTypes /\ nodes[x].inv = 0
  BY <1>4, <1>7 DEF PortTypes, NetsRead
<1>11. Shaped(nodes') /\ Computing(file, nodes')
  <2>1. front <=> nodes[x].type = "INV"
    BY <1>6, <1>7
  <2>2. nodes[x].type \in {"output", "wire", "BUF", "INV"}
    BY <1>7
  <2>3. Outputs(file) \subseteq DOMAIN nodes'
    BY <1>4, <1>7 DEF OutputsKept
  <2>4. Skips(nodes, nodes', x, prev, front)
    BY <1>6, <1>7
  <2>5. QED
    BY <1>2, <1>3, <1>4, <1>7, <1>9, <1>10, <2>1, <2>2, <2>3, <2>4, ComputingSkip
<1>12. NetsRead(nodes')
  BY <1>2, <1>4, <1>7, <1>8, <1>10, NetsReadSkip
<1>13. Inverted(nodes')
  BY <1>12, InvertedEarly
<1>14. Apart(nodes')
  BY <1>2, <1>4, <1>7, <1>8, <1>10, ApartEarly
<1>15. ASSUME NEW n \in DOMAIN nodes PROVE nodes'[n].type = nodes[n].type
  BY <1>7, <1>8 DEF Skipped
<1>16. OutputsKept(file, nodes')
  BY <1>4, <1>7, <1>15 DEF OutputsKept
<1>17. WiresFirst(netlist, nodes')
  <2> SUFFICES ASSUME NEW i \in DOMAIN netlist, NEW j \in DOMAIN netlist, i < j,
                      nodes'[netlist[i]].type \in GateTypes
               PROVE  nodes'[netlist[j]].type # "wire"
    BY DEF WiresFirst
  <2>1. netlist[i] \in DOMAIN nodes /\ netlist[j] \in DOMAIN nodes
    BY <1>2
  <2>2. QED
    BY <1>4, <1>15, <2>1 DEF WiresFirst
<1>18. Simplifying(file, nodes', netlist, TRUE)
  BY <1>4, <1>7, <1>11, <1>12, <1>13, <1>14, <1>16, <1>17 DEF Simplifying
<1>19. QED
  BY <1>1, <1>11, <1>18 DEF ComputeInv

\* Behind the wires: a buffer or inverter goes when the last wire has gone.
LEMMA NoWireLeft ==
    ASSUME NEW ns, NEW nl \in Seq(DOMAIN ns), ToSet(nl) = DOMAIN ns, WiresFirst(nl, ns),
           NEW k \in 1..Len(nl), ns[nl[k]].type \in {"BUF", "INV"},
           \A i \in DOMAIN nl : i < k => ns[nl[i]].type # "wire",
           NEW n \in DOMAIN ns
    PROVE  ns[n].type # "wire"
<1>1. PICK L \in Nat : L = Len(nl)
  OBVIOUS
<1>2. DOMAIN nl = 1..L /\ k \in 1..L
  BY <1>1
<1>3. PICK i \in 1..L : n = nl[i]
  BY <1>2 DEF ToSet
<1>4. CASE i < k
  BY <1>2, <1>3, <1>4
<1>5. CASE i = k
  BY <1>3, <1>5
<1>6. CASE k < i
  <2>1. ns[nl[k]].type \in GateTypes
    BY DEF GateTypes
  <2>2. QED
    BY <1>2, <1>3, <1>6, <2>1 DEF WiresFirst
<1>7. QED
  BY <1>2, <1>4, <1>5, <1>6

\* DeleteNode skips a wire, or without wires a buffer or an inverter.
LEMMA ComputeDeleteNode == GraphInv /\ ComputeInv /\ DeleteNode => ComputeInv'
<1> SUFFICES ASSUME GraphInv, ComputeInv, DeleteNode, WellFormed(file) PROVE ComputeInv'
  BY DEF ComputeInv, DeleteNode
<1>1. pc = "wires" /\ pc' = "wires" /\ file' = file
  BY DEF DeleteNode
<1>2. Typed(nodes) /\ netlist \in Seq(DOMAIN nodes) /\ IsInjective(netlist) /\ at \in Nat \ {0}
  BY <1>1 DEF GraphInv, Listed
<1>3. /\ Simplifying(file, nodes, netlist, FALSE) /\ Computing(file, nodes)
      /\ \A i \in DOMAIN netlist : i < at => ~Removable(netlist[i])
  BY <1>1 DEF ComputeInv
<1>4. /\ Shaped(nodes) /\ OutputsKept(file, nodes) /\ Apart(nodes) /\ Inverted(nodes)
      /\ ToSet(netlist) = DOMAIN nodes /\ WiresFirst(netlist, nodes)
      /\ (\E n \in DOMAIN nodes : nodes[n].type = "wire") => NetsRead(nodes)
  BY <1>3 DEF Simplifying
<1>5. PICK k \in 1..Len(netlist), x \in DOMAIN nodes, prev \in DOMAIN nodes, front \in BOOLEAN :
          Deleting(k, x, prev, front)
  BY NodeDeleted
<1>6. /\ x = netlist[k] /\ NextRemovable(k) /\ at' = k /\ netlist' = RemoveAt(netlist, k)
      /\ nodes[x].type \in {"wire", "BUF", "INV"} /\ (front <=> nodes[x].type = "INV")
      /\ nodes[x].fi = <<prev>> /\ prev \in ToSet(nodes[x].fi)
      /\ DOMAIN nodes' = DOMAIN nodes \ {x}
      /\ Typed(nodes') /\ Skips(nodes, nodes', x, prev, front)
  BY <1>5 DEF Deleting
<1>7. Skipped(nodes, nodes', x, prev)
  BY <1>2, <1>6, SkippedNodes
<1>8. ASSUME NEW n \in DOMAIN nodes \ {x} PROVE nodes'[n].type = nodes[n].type
  BY <1>6, <1>7 DEF Skipped
<1>9. \A n \in DOMAIN nodes' : NotInverting(nodes[n], x)
  <2> SUFFICES ASSUME NEW n \in DOMAIN nodes', NEW i \in 1..nodes[n].inv PROVE nodes[n].fi[i] # x
    BY DEF NotInverting
  <2>1. nodes[nodes[n].fi[i]].type \notin {"wire", "BUF", "INV"}
    BY <1>4, <1>6 DEF Inverted
  <2>2. QED
    BY <1>6, <2>1
<1>10. nodes[x].inv = 0
  BY <1>4, <1>6 DEF Inverted
<1>11. OutputsKept(file, nodes')
  <2> SUFFICES ASSUME NEW o \in Outputs(file) PROVE o \in DOMAIN nodes' /\ nodes'[o].type = "output"
    BY DEF OutputsKept
  <2>1. o \in DOMAIN nodes /\ nodes[o].type = "output"
    BY <1>4 DEF OutputsKept
  <2>2. o # x
    BY <1>6, <2>1
  <2>3. QED
    BY <1>6, <1>8, <2>1, <2>2
<1>12. Shaped(nodes') /\ Computing(file, nodes')
  <2>1. nodes[x].type \in {"output", "wire", "BUF", "INV"} /\ (front <=> nodes[x].type = "INV")
    BY <1>6
  <2>2. Outputs(file) \subseteq DOMAIN nodes'
    BY <1>11 DEF OutputsKept
  <2>3. QED
    BY <1>2, <1>3, <1>4, <1>6, <1>9, <1>10, <2>1, <2>2, ComputingSkip
<1>13. ASSUME NEW i \in DOMAIN netlist, i < k PROVE ~Removable(netlist[i])
  <2>1. i \in Nat /\ at <= k /\ k \in Nat
    <3>1. k \in at..Len(netlist)
      BY <1>6 DEF NextRemovable
    <3>2. QED
      BY <1>2, <3>1
  <2>2. CASE i < at
    BY <1>3, <2>2
  <2>3. CASE ~(i < at)
    <3>1. i \in at..(k - 1)
      BY <1>2, <1>13, <2>1, <2>3
    <3>2. QED
      BY <1>6, <3>1 DEF NextRemovable
  <2>4. QED
    BY <2>2, <2>3
<1>14. /\ ToSet(netlist') = DOMAIN nodes' /\ WiresFirst(netlist', nodes')
       /\ \A i \in DOMAIN netlist' : i < k => netlist'[i] = netlist[i] /\ i \in DOMAIN netlist
  <2>1. PICK D, left : D = DOMAIN nodes /\ left = RemoveAt(netlist, k)
    OBVIOUS
  <2>2. /\ ToSet(left) = ToSet(netlist) \ {x} /\ WiresFirst(left, nodes')
        /\ \A i \in DOMAIN left : i < k => left[i] = netlist[i] /\ i \in DOMAIN netlist
    BY <1>2, <1>4, <1>6, <1>8, <2>1, RemovedOrder
  <2>3. netlist' = left
    BY <1>6, <2>1
  <2>4. QED
    BY <1>4, <1>6, <2>2, <2>3
<1>15. \A i \in DOMAIN netlist' : i < k => ~Removable(netlist[i])' 
  <2> SUFFICES ASSUME NEW i \in DOMAIN netlist', i < k
               PROVE  nodes'[netlist'[i]].type \notin {"wire", "BUF", "INV"}
    BY DEF Removable
  <2>1. nodes[netlist[i]].type \notin {"wire", "BUF", "INV"} /\ netlist'[i] = netlist[i]
    BY <1>13, <1>14 DEF Removable
  <2>2. netlist'[i] \in DOMAIN nodes'
    BY <1>14 DEF ToSet
  <2>3. QED
    BY <1>6, <1>8, <2>1, <2>2
<1>16. /\ Apart(nodes') /\ Inverted(nodes')
       /\ (\E n \in DOMAIN nodes' : nodes'[n].type = "wire") => NetsRead(nodes')
  <2>1. CASE nodes[x].type = "wire"
    <3>1. NetsRead(nodes) /\ nodes[x].type \in PortTypes /\ front = FALSE
      BY <1>4, <1>6, <2>1 DEF PortTypes
    <3>2. Skips(nodes, nodes', x, prev, FALSE)
      BY <1>6, <3>1
    <3>3. NetsRead(nodes')
      BY <1>2, <1>6, <1>7, <3>1, <3>2, NetsReadSkip
    <3>4. Apart(nodes')
      BY <1>2, <1>4, <1>6, <1>7, <3>1, ApartEarly
    <3>5. QED
      BY <3>3, <3>4, InvertedEarly
  <2>2. CASE nodes[x].type \in {"BUF", "INV"}
    <3>1. \A i \in DOMAIN netlist : i < k => nodes[netlist[i]].type # "wire"
      BY <1>13 DEF Removable
    <3>2. \A n \in DOMAIN nodes : nodes[n].type # "wire"
      BY <1>2, <1>4, <1>6, <2>2, <3>1, NoWireLeft
    <3>3. \A n \in DOMAIN nodes' : nodes'[n].type # "wire"
      BY <1>6, <1>8, <3>2
    <3>4. Apart(nodes')
      BY <1>2, <1>4, <1>6, <1>7, <2>2, ApartLate
    <3>5. Inverted(nodes')
      BY <1>2, <1>4, <1>6, <1>7, <1>12, <2>2, <3>2, InvertedSkip
    <3>6. QED
      BY <3>3, <3>4, <3>5
  <2>3. QED
    BY <1>6, <2>1, <2>2
<1>17. Simplifying(file, nodes', netlist', FALSE)
  BY <1>11, <1>12, <1>14, <1>16 DEF Simplifying
<1>18. QED
  BY <1>1, <1>6, <1>12, <1>15, <1>17 DEF ComputeInv

\* Every step.
LEMMA ComputeNext == GraphInv /\ ComputeInv /\ [Next]_vars => ComputeInv'
<1> SUFFICES ASSUME GraphInv, ComputeInv, [Next]_vars PROVE ComputeInv'
  OBVIOUS
<1>1. CASE ReadDeclaration
  BY <1>1, ComputeDeclaration
<1>2. CASE ReadGate
  BY <1>2, ComputeGate
<1>3. CASE EndModule
  BY <1>3, ComputeEndModule
<1>4. CASE FixOutput
  BY <1>4, ComputeFixOutput
<1>5. CASE DeleteNode
  BY <1>5, ComputeDeleteNode
<1>6. CASE ReadError \/ OutputsFixed \/ FanInError \/ TraceInputs \/ UNCHANGED vars
  BY <1>6, ComputeOtherStep
<1>7. QED
  BY <1>1, <1>2, <1>3, <1>4, <1>5, <1>6 DEF Next, Parse, Simplify, Ended

\* The nodes' one solution is what OutputValue finds.
LEMMA ComputesFunction == GraphInv /\ ComputeInv => FunctionPreserved
<1> SUFFICES ASSUME GraphInv, ComputeInv, pc \in {"outputs", "wires", "done"}, WellFormed(file),
                    NEW ones \in SUBSET Inputs(file), NEW o \in Outputs(file)
             PROVE  OutputValue(nodes, ones)[o] = NetValue(file, ones)[o]
  BY DEF FunctionPreserved
<1>1. file \in Files /\ Typed(nodes) /\ Loopless(nodes)
  BY DEF GraphInv
<1>2. Shaped(nodes) /\ o \in DOMAIN nodes /\ Computing(file, nodes)
  BY DEF ComputeInv, Simplifying, OutputsKept
<1>3. PICK now, then : now = OutputValue(nodes, ones) /\ then = NetValue(file, ones)
  OBVIOUS
<1>4. PICK On : Solution(nodes, ones, On) /\ (o \in On <=> then[o])
  BY <1>2, <1>3 DEF Computing
<1>5. Signals(nodes, ones, now)
  BY <1>1, <1>2, <1>3, OutputValueSolves
<1>6. now[o] \in BOOLEAN /\ Solution(nodes, ones, {n \in DOMAIN nodes : now[n]})
  BY <1>1, <1>2, <1>5, SignalsSolve
<1>7. On = {n \in DOMAIN nodes : now[n]}
  BY <1>1, <1>2, <1>4, <1>6, SolutionsAgree
<1>8. then[o] \in BOOLEAN
  <2>1. o \in Declared(file)
    BY DEF Outputs, Declared, PortTypes
  <2>2. QED
    BY <1>1, <1>3, <2>1, NetValueSolves
<1>9. now[o] <=> then[o]
  BY <1>2, <1>4, <1>7
<1>10. QED
  BY <1>3, <1>6, <1>8, <1>9

\* No step of Simplification changes what an output computes.
THEOREM FunctionIsPreserved == Spec => []FunctionPreserved
<1>1. Init => GraphInv /\ ComputeInv
  BY GraphInit, ComputeInit
<1>2. GraphInv /\ ComputeInv /\ [Next]_vars => (GraphInv /\ ComputeInv)'
  BY GraphNext, ComputeNext
<1>3. QED
  BY <1>1, <1>2, ComputesFunction, PTL DEF Spec
================================================================================
