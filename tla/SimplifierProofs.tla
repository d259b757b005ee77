---------------------------- MODULE SimplifierProofs ----------------------------
(***************************************************************************)
(* CaDiCaL between the calls: what the user has frozen or assumed keeps    *)
(* its variable, and no clause has a variable that is gone.                *)
(***************************************************************************)
EXTENDS Simplifier, Recursion

--------------------------------------------------------------------------------
(* Literals, clauses and bags of them                                      *)

Statuses == {"unused", "active", "fixed", "substituted", "eliminated", "pure", "unmapped"}
ClauseSet == [lits : SUBSET Lits, redundant : BOOLEAN]
Entries == [witness : SUBSET Lits, clause : SUBSET Lits]

\* A bag of elements of S.
BagOver(B, S) == DOMAIN B \subseteq S /\ \A e \in DOMAIN B : B[e] \in Nat \ {0}

LEMMA LitFacts ==
    /\ \A l \in Lits : /\ l \in Int /\ l # 0 /\ -l \in Lits /\ -(-l) = l /\ -l # l
                       /\ VarOf(l) \in Vars /\ VarOf(-l) = VarOf(l)
                       /\ l = VarOf(l) \/ l = -VarOf(l)
    /\ \A v \in Vars : v \in Lits /\ VarOf(v) = v /\ v \in Nat
<1>1. \A v \in Vars : v \in Nat /\ v > 0
  BY VarsAssumption
<1>2. \A v \in Vars : v \in Lits /\ -v \in Lits
  BY DEF Lits
<1>3. ASSUME NEW l \in Lits
      PROVE  l \in Int /\ l # 0 /\ -l \in Lits /\ -(-l) = l /\ -l # l
             /\ VarOf(l) \in Vars /\ VarOf(-l) = VarOf(l) /\ (l = VarOf(l) \/ l = -VarOf(l))
  <2>1. CASE l \in Vars
    BY <1>1, <1>2, <2>1 DEF VarOf
  <2>2. CASE l \notin Vars
    <3>1. PICK v \in Vars : l = -v
      BY <2>2 DEF Lits
    <3>2. v \in Nat /\ v > 0 /\ -l = v /\ l < 0
      BY <1>1, <3>1
    <3>3. QED
      BY <1>1, <1>2, <3>1, <3>2 DEF VarOf
  <2>3. QED
    BY <2>1, <2>2
<1>4. QED
  BY <1>1, <1>2, <1>3 DEF VarOf

LEMMA LitsFinite == IsFiniteSet(Lits)
<1> DEFINE f == [v \in Vars |-> -v]
           N == {-v : v \in Vars}
<1>1. f \in Surjection(Vars, N)
  BY DEF Surjection
<1>2. IsFiniteSet(N)
  <2> HIDE DEF f, N
  <2>1. QED
    BY <1>1, VarsAssumption, FS_Surjection
<1>3. IsFiniteSet(Vars \cup N)
  <2> HIDE DEF N
  <2>1. QED
    BY <1>2, VarsAssumption, FS_Union
<1>4. QED
  BY <1>3 DEF Lits

LEMMA ClauseSetFinite ==
    /\ IsFiniteSet(ClauseSet)
    /\ \A S \in SUBSET ClauseSet : IsFiniteSet(S)
<1> DEFINE P == (SUBSET Lits) \X BOOLEAN
           f == [x \in P |-> [lits |-> x[1], redundant |-> x[2]]]
<1>1. IsFiniteSet(BOOLEAN)
  <2>1. BOOLEAN = {TRUE} \cup {FALSE}
    OBVIOUS
  <2>2. IsFiniteSet({TRUE} \cup {FALSE})
    BY FS_Singleton, FS_Union
  <2>3. QED
    BY <2>1, <2>2
<1>2. IsFiniteSet(P)
  BY <1>1, LitsFinite, FS_SUBSET, FS_Product
<1>3. f \in Surjection(P, ClauseSet)
  <2>1. f \in [P -> ClauseSet]
    BY DEF ClauseSet
  <2>2. ASSUME NEW c \in ClauseSet PROVE \E x \in P : f[x] = c
    <3>1. <<c.lits, c.redundant>> \in P /\ c = [lits |-> c.lits, redundant |-> c.redundant]
      BY DEF ClauseSet
    <3>2. f[<<c.lits, c.redundant>>] = c
      BY <3>1
    <3>3. QED
      BY <3>1, <3>2
  <2>3. QED
    BY <2>1, <2>2 DEF Surjection
<1>4. IsFiniteSet(ClauseSet)
  <2> HIDE DEF P, f
  <2>1. QED
    BY <1>2, <1>3, FS_Surjection
<1>5. QED
  BY <1>4, FS_Subset

\* A clause set in its order, or a sequence of its elements.
LEMMA OrderedSet ==
    ASSUME NEW S, IsFiniteSet(S), NEW T, S \subseteq T
    PROVE  SetToSeq(S) \in Seq(T)
<1>1. Cardinality(S) \in Nat /\ ExistsBijection(1..Cardinality(S), S)
  BY FS_CardinalityType
<1>2. PICK f \in [1..Cardinality(S) -> S] : \A a, b \in 1..Cardinality(S) : f[a] = f[b] => a = b
  BY <1>1 DEF ExistsBijection, Bijection, Injection, IsInjective
<1>3. IsInjective(f)
  BY <1>2 DEF IsInjective
<1>4. SetToSeq(S) \in [1..Cardinality(S) -> S]
  BY <1>3 DEF SetToSeq
<1>5. SetToSeq(S) \in Seq(S)
  BY <1>1, <1>4, IsASeq
<1>6. QED
  BY <1>5, SeqMonotonic

IsFcn(B) == B = [e \in DOMAIN B |-> B[e]]

LEMMA BagSum ==
    ASSUME NEW S, NEW B, BagOver(B, S), NEW C, BagOver(C, S)
    PROVE  BagOver(B (+) C, S) /\ IsFcn(B (+) C)
<1>1. DOMAIN (B (+) C) = DOMAIN B \cup DOMAIN C
  BY DEF (+)
<1>2. \A e \in DOMAIN (B (+) C) : (B (+) C)[e] \in Nat \ {0}
  BY DEF (+), BagOver
<1>3. IsFcn(B (+) C)
  BY DEF (+), IsFcn
<1>4. QED
  BY <1>1, <1>2, <1>3 DEF BagOver

LEMMA BagLess ==
    ASSUME NEW S, NEW B, BagOver(B, S), NEW gone, \A e \in DOMAIN gone : gone[e] \in Int
    PROVE  BagOver(B (-) gone, S) /\ IsFcn(B (-) gone)
<1>1. /\ DOMAIN (B (-) gone) \subseteq DOMAIN B
      /\ \A e \in DOMAIN (B (-) gone) : (B (-) gone)[e] \in Nat \ {0}
  BY DEF (-), BagOver
<1>2. IsFcn(B (-) gone)
  BY DEF (-), IsFcn
<1>3. QED
  BY <1>1, <1>2 DEF BagOver

\* What stays of a bag when gone goes and new comes.
LEMMA BagChange ==
    ASSUME NEW S, NEW B, BagOver(B, S), NEW new, BagOver(new, S),
           NEW gone, \A e \in DOMAIN gone : gone[e] \in Int
    PROVE  /\ BagOver((B (-) gone) (+) new, S)
           /\ \A e \in DOMAIN ((B (-) gone) (+) new) :
                \/ e \in DOMAIN new
                \/ e \in DOMAIN B /\ (e \in DOMAIN gone => gone[e] # B[e])
<1> DEFINE A == B (-) gone
           C == A (+) new
<1>1. /\ DOMAIN A \subseteq DOMAIN B
      /\ \A e \in DOMAIN A : A[e] \in Nat \ {0} /\ (e \in DOMAIN gone => gone[e] # B[e])
  BY DEF (-), BagOver
<1> HIDE DEF A
<1>2. DOMAIN C = DOMAIN A \cup DOMAIN new
  BY DEF (+)
<1>3. \A e \in DOMAIN C : C[e] \in Nat \ {0}
  BY <1>1 DEF (+), BagOver
<1>4. QED
  BY <1>1, <1>2, <1>3 DEF A, BagOver

LEMMA EmptyBagFacts ==
    /\ DOMAIN EmptyBag = {} /\ \A S : BagOver(EmptyBag, S) /\ \A c : DOMAIN One(c) = {c}
    /\ \A S : \A c \in S : BagOver(One(c), S)
    /\ \A S, T : S \subseteq T => BagOver(SetToBag(S), T)
    /\ \A e : \A S : e \in DOMAIN SetToBag(S) => SetToBag(S)[e] \in Int
BY DEF EmptyBag, SetToBag, BagOver, One

\* A bag that goes: what of it is not there does not matter.
Counted(gone) == IsFiniteSet(DOMAIN gone) /\ \A e \in DOMAIN gone : gone[e] \in Int

\* The number of copies an image gets is not zero.
LEMMA CountedUp ==
    ASSUME NEW T, IsFiniteSet(T), NEW B, \A c \in T : B[c] \in Int
    PROVE  /\ Cardinality(UNION {{c} \X (1..B[c]) : c \in T}) \in Nat
           /\ T # {} /\ (\A c \in T : B[c] # 0 /\ B[c] >= 0)
              => Cardinality(UNION {{c} \X (1..B[c]) : c \in T}) # 0
<1> DEFINE g == [c \in T |-> {c} \X (1..B[c])]
           P == {{c} \X (1..B[c]) : c \in T}
           S == UNION P
<1>1. g \in Surjection(T, P)
  BY DEF Surjection
<1>2. \A X \in P : IsFiniteSet(X)
  <2> SUFFICES ASSUME NEW c \in T PROVE IsFiniteSet({c} \X (1..B[c]))
    OBVIOUS
  <2>1. IsFiniteSet({c}) /\ IsFiniteSet(1..B[c])
    <3>1. 1 \in Int /\ B[c] \in Int
      OBVIOUS
    <3>2. QED
      BY <3>1, FS_Singleton, FS_Interval
  <2>2. QED
    BY <2>1, FS_Product
<1>3. T # {} /\ (\A c \in T : B[c] # 0 /\ B[c] >= 0) => S # {}
  <2> SUFFICES ASSUME T # {}, \A c \in T : B[c] # 0 /\ B[c] >= 0 PROVE S # {}
    OBVIOUS
  <2>1. PICK c \in T : TRUE
    OBVIOUS
  <2>2. <<c, 1>> \in {c} \X (1..B[c])
    BY <2>1
  <2>3. QED
    BY <2>1, <2>2
<1> HIDE DEF P, g
<1>4. IsFiniteSet(P)
  BY <1>1, FS_Surjection
<1>5. IsFiniteSet(S)
  BY <1>2, <1>4, FS_UNION
<1> HIDE DEF S
<1>6. Cardinality(S) \in Nat /\ (S # {} => Cardinality(S) # 0)
  BY <1>5, FS_CardinalityType, FS_EmptySet
<1>7. QED
  BY <1>3, <1>6 DEF S, P

\* B' is an image of the bag B under f.
Maps(new, f, B) ==
    /\ DOMAIN new = {f[c] : c \in DOMAIN B}
    /\ \A e \in DOMAIN new :
         new[e] = Cardinality(UNION {{c} \X (1..B[c]) : c \in {d \in DOMAIN B : f[d] = e}})

LEMMA ImageBag ==
    ASSUME NEW B, IsFiniteSet(DOMAIN B), \A c \in DOMAIN B : B[c] \in Nat \ {0},
           NEW f, NEW new, Maps(new, f, B), NEW S, \A c \in DOMAIN B : f[c] \in S
    PROVE  BagOver(new, S)
<1> SUFFICES ASSUME NEW e \in DOMAIN new PROVE new[e] \in Nat \ {0}
  BY DEF BagOver, Maps
<1>1. PICK T : T = {d \in DOMAIN B : f[d] = e}
  OBVIOUS
<1>2. T \in SUBSET DOMAIN B /\ T # {}
  BY <1>1 DEF Maps
<1>3. IsFiniteSet(T)
  BY <1>2, FS_Subset
<1>4. Cardinality(UNION {{c} \X (1..B[c]) : c \in T}) \in Nat \ {0}
  <2>1. \A c \in T : B[c] \in Int /\ B[c] # 0 /\ B[c] >= 0
    BY <1>2
  <2>2. QED
    BY <1>2, <1>3, <2>1, CountedUp
<1>5. QED
  BY <1>1, <1>4 DEF Maps

LEMMA ImageCounted ==
    ASSUME NEW B, Counted(B), NEW f, NEW new, Maps(new, f, B)
    PROVE  \A e \in DOMAIN new : new[e] \in Int
<1> SUFFICES ASSUME NEW e \in DOMAIN new PROVE new[e] \in Int
  OBVIOUS
<1>1. PICK T : T = {d \in DOMAIN B : f[d] = e}
  OBVIOUS
<1>2. IsFiniteSet(T) /\ \A c \in T : B[c] \in Int
  BY <1>1, FS_Subset DEF Counted
<1>3. Cardinality(UNION {{c} \X (1..B[c]) : c \in T}) \in Nat
  BY <1>2, CountedUp
<1>4. QED
  BY <1>1, <1>3 DEF Maps

\* The literal sets of a bag of clauses.
LEMMA LitsMap ==
    ASSUME NEW B
    PROVE  Maps(BagOfLits(B), [c \in DOMAIN B |-> c.lits], B)
<1>1. PICK f : f = [c \in DOMAIN B |-> c.lits]
  OBVIOUS
<1>2. PICK new : new = BagOfLits(B)
  OBVIOUS
<1>3. \A c \in DOMAIN B : f[c] = c.lits
  BY <1>1
<1>4. DOMAIN new = {c.lits : c \in DOMAIN B}
      /\ \A e \in DOMAIN new :
           new[e] = Cardinality(UNION {{c} \X (1..B[c]) : c \in {d \in DOMAIN B : d.lits = e}})
  BY <1>2 DEF BagOfLits, Image, BagToSet
<1>5. {c.lits : c \in DOMAIN B} = {f[c] : c \in DOMAIN B}
  BY <1>3
<1>6. \A e : {d \in DOMAIN B : d.lits = e} = {d \in DOMAIN B : f[d] = e}
  BY <1>3
<1>7. Maps(new, f, B)
  BY <1>4, <1>5, <1>6 DEF Maps
<1>8. QED
  BY <1>1, <1>2, <1>7

--------------------------------------------------------------------------------
(* Closing a set of literals: unit propagation and reachability            *)

\* f goes on with next until a set of stop.
Closes(f, next, stop) ==
    f = [S \in SUBSET Lits |-> IF S \in stop THEN S ELSE f[next[S]]]

Growing(next, stop) ==
    /\ next \in [SUBSET Lits -> SUBSET Lits]
    /\ \A S \in SUBSET Lits : S \subseteq next[S] /\ (S \notin stop => next[S] # S)

LEMMA GrowthGrounded ==
    ASSUME NEW next, NEW stop, Growing(next, stop)
    PROVE  Grounded(SUBSET Lits, [S \in (SUBSET Lits) \ stop |-> next[S]])
<1> DEFINE X == SUBSET Lits
           back == [S \in X \ stop |-> next[S]]
           rank == [S \in X |-> Cardinality(Lits \ S)]
<1>1. /\ DOMAIN back = X \ stop /\ \A S \in DOMAIN back : back[S] = next[S]
      /\ \A S \in X : rank[S] = Cardinality(Lits \ S)
  OBVIOUS
<1> HIDE DEF back, rank
<1>2. \A S \in X : rank[S] \in Nat
  BY <1>1, LitsFinite, FS_Difference, FS_CardinalityType
<1>3. ASSUME NEW S \in DOMAIN back PROVE back[S] \in X /\ rank[back[S]] < rank[S]
  <2>1. S \in X /\ next[S] \in X /\ S \subseteq next[S] /\ next[S] # S
    BY <1>1 DEF Growing
  <2> DEFINE A == Lits \ S
             B == Lits \ next[S]
  <2>2. B \in SUBSET A /\ B # A
    BY <2>1
  <2>3. IsFiniteSet(A)
    BY LitsFinite, FS_Difference
  <2> HIDE DEF A, B
  <2>4. Cardinality(B) <= Cardinality(A) /\ Cardinality(A) # Cardinality(B) /\ IsFiniteSet(B)
    BY <2>2, <2>3, FS_Subset
  <2>5. Cardinality(A) \in Nat /\ Cardinality(B) \in Nat
    BY <2>3, <2>4, FS_CardinalityType
  <2>6. rank[S] = Cardinality(A) /\ rank[back[S]] = Cardinality(B)
    BY <1>1, <2>1 DEF A, B
  <2>7. QED
    BY <1>1, <2>1, <2>4, <2>5, <2>6
<1>4. Grounded(X, back)
  BY <1>1, <1>2, <1>3, RankGrounded
<1>5. QED
  BY <1>4 DEF back

\* There is such a function; it gives the least closed set around S.
LEMMA ClosureExists ==
    ASSUME NEW next, NEW stop, Growing(next, stop)
    PROVE  \E f : Closes(f, next, stop)
<1> DEFINE X == SUBSET Lits
           back == [S \in X \ stop |-> next[S]]
           start == [S \in X |-> S]
           step == [x \in X \X X |-> x[2]]
<1>1. Grounded(X, back)
  BY GrowthGrounded
<1>2. /\ DOMAIN back = X \ stop /\ \A S \in DOMAIN back : back[S] = next[S]
      /\ \A S \in X : start[S] = S
      /\ \A S, T \in X : step[<<S, T>>] = T
  OBVIOUS
<1> HIDE DEF back, start, step
<1>3. PICK f \in [X -> X] : Recursive(f, X, back, start, step)
  <2>1. /\ \A x \in X \ DOMAIN back : start[x] \in X
        /\ \A x \in DOMAIN back, v \in X : step[<<x, v>>] \in X
    BY <1>2
  <2> HIDE DEF X
  <2>2. QED
    BY <1>1, <2>1, RecursionExists
<1>4. ASSUME NEW S \in X PROVE f[S] = IF S \in stop THEN S ELSE f[next[S]]
  <2>1. f[S] = IF S \in DOMAIN back THEN step[<<S, f[back[S]]>>] ELSE start[S]
    BY <1>3 DEF Recursive
  <2>2. S \in DOMAIN back => back[S] \in X
    BY <1>1 DEF Grounded
  <2>3. QED
    BY <1>2, <1>3, <2>1, <2>2
<1>5. f = [S \in X |-> IF S \in stop THEN S ELSE f[next[S]]]
  BY <1>3, <1>4
<1>6. QED
  BY <1>5 DEF Closes

ClosedUnder(C, next) == C \subseteq Lits /\ \A R \in SUBSET C : next[R] \subseteq C

LeastClosed(R, S, next, stop) ==
    /\ R \in SUBSET Lits /\ S \subseteq R /\ R \in stop
    /\ \A C : ClosedUnder(C, next) /\ S \subseteq C => R \subseteq C

LEMMA ClosureLeast ==
    ASSUME NEW next, NEW stop, Growing(next, stop), NEW f, Closes(f, next, stop),
           NEW S \in SUBSET Lits
    PROVE  LeastClosed(f[S], S, next, stop)
<1> DEFINE X == SUBSET Lits
           Good(R) == /\ f[R] \in X /\ R \subseteq f[R] /\ f[R] \in stop
                      /\ \A C : ClosedUnder(C, next) /\ R \subseteq C => f[R] \subseteq C
           back == [R \in X \ stop |-> next[R]]
           Bad == {R \in X : ~Good(R)}
<1>1. Grounded(X, back)
  BY GrowthGrounded
<1>2. DOMAIN back = X \ stop /\ \A R \in DOMAIN back : back[R] = next[R]
  OBVIOUS
<1> HIDE DEF back
<1>3. \A R \in X : f[R] = IF R \in stop THEN R ELSE f[next[R]]
  <2> DEFINE g == [R \in X |-> IF R \in stop THEN R ELSE f[next[R]]]
  <2>1. f = g
    BY DEF Closes
  <2>2. \A R \in X : g[R] = IF R \in stop THEN R ELSE f[next[R]]
    OBVIOUS
  <2> HIDE DEF g
  <2>3. QED
    BY <2>1, <2>2
<1>4. ASSUME NEW R \in X, R \in DOMAIN back => Good(back[R]) PROVE Good(R)
  <2>1. CASE R \in stop
    BY <1>3, <2>1
  <2>2. CASE R \notin stop
    <3>1. f[R] = f[next[R]] /\ next[R] \in X /\ R \subseteq next[R] /\ Good(next[R])
      BY <1>2, <1>3, <1>4, <2>2 DEF Growing
    <3>2. ASSUME NEW C, ClosedUnder(C, next), R \subseteq C PROVE f[R] \subseteq C
      <4>1. next[R] \subseteq C
        BY <3>2 DEF ClosedUnder
      <4>2. QED
        BY <3>1, <3>2, <4>1
    <3>3. QED
      BY <3>1, <3>2
  <2>3. QED
    BY <2>1, <2>2
<1> HIDE DEF Good
<1>5. Bad = {}
  <2> SUFFICES ASSUME Bad # {} PROVE FALSE
    OBVIOUS
  <2>1. PICK R \in Bad : R \in DOMAIN back => back[R] \notin Bad
    <3>1. Bad \in SUBSET X
      OBVIOUS
    <3> HIDE DEF X, Bad
    <3>2. QED
      BY <1>1, <3>1 DEF Grounded
  <2>2. R \in DOMAIN back => back[R] \in X
    BY <1>1 DEF Grounded
  <2>3. QED
    BY <1>4, <2>1, <2>2
<1>6. Good(S)
  BY <1>5
<1>7. QED
  BY <1>6 DEF Good, LeastClosed

\* Unit propagation stays among the literals.
LEMMA PropagatedLits ==
    ASSUME NEW F \in SUBSET SUBSET Lits, NEW T \in SUBSET Lits
    PROVE  Propagated(F, T) \in SUBSET Lits /\ T \subseteq Propagated(F, T)
<1> DEFINE next == [S \in SUBSET Lits |-> S \cup UnitsUnder(F, S)]
           stop == {S \in SUBSET Lits : next[S] = S \/ ~Consistent(S)}
           IsClosure(f) == f = [S \in SUBSET Lits |->
                                  LET U == S \cup UnitsUnder(F, S) IN
                                  IF U = S \/ ~Consistent(S) THEN S ELSE f[U]]
<1>1. \A S \in SUBSET Lits : UnitsUnder(F, S) \subseteq Lits
  <2> SUFFICES ASSUME NEW S \in SUBSET Lits, NEW l \in UnitsUnder(F, S) PROVE l \in Lits
    OBVIOUS
  <2>1. PICK C \in F : l \in Reduced(C, S)
    BY DEF UnitsUnder
  <2>2. l \in C
    BY <2>1 DEF Reduced
  <2>3. QED
    BY <2>2
<1>2. Growing(next, stop)
  BY <1>1 DEF Growing
<1>3. ASSUME NEW f PROVE IsClosure(f) <=> Closes(f, next, stop)
  <2>1. \A S \in SUBSET Lits :
          (LET U == S \cup UnitsUnder(F, S) IN
           IF U = S \/ ~Consistent(S) THEN S ELSE f[U])
          = IF S \in stop THEN S ELSE f[next[S]]
    OBVIOUS
  <2> HIDE DEF next, stop
  <2>2. [S \in SUBSET Lits |->
           LET U == S \cup UnitsUnder(F, S) IN
           IF U = S \/ ~Consistent(S) THEN S ELSE f[U]]
        = [S \in SUBSET Lits |-> IF S \in stop THEN S ELSE f[next[S]]]
    BY <2>1
  <2>3. QED
    BY <2>2 DEF Closes
<1> HIDE DEF next, stop
<1>4. \E f : IsClosure(f)
  BY <1>2, <1>3, ClosureExists
<1>5. PICK g : g = CHOOSE f : IsClosure(f)
  OBVIOUS
<1> HIDE DEF IsClosure
<1>6. IsClosure(g)
  BY <1>4, <1>5
<1>7. g[T] \in SUBSET Lits /\ T \subseteq g[T]
  BY <1>2, <1>3, <1>6, ClosureLeast DEF LeastClosed
<1>8. Propagated(F, T) = g[T]
  BY <1>5 DEF Propagated, IsClosure
<1>9. QED
  BY <1>7, <1>8

--------------------------------------------------------------------------------
(* The invariant, and what a rewriting of the clauses does to it           *)

\* The values the state can have.
Typed ==
    /\ BagOver(db, ClauseSet) /\ IsFcn(db)
    /\ BagOver(proof, SUBSET Lits) /\ IsFcn(proof)
    /\ accepted \in BOOLEAN
    /\ fixed \subseteq Lits /\ tainted \subseteq Lits
    /\ status \in [Vars -> Statuses]
    /\ unsat \in BOOLEAN
    /\ extension \in Seq(Entries)
    /\ frozen \subseteq Vars
    /\ assumptions \subseteq Lits

\* A clause is no tautology and its variables are there; in an elimination or
\* blocking round a redundant one may have a variable that has gone by then.
Lasts(c, st, late) ==
    /\ ~Tautological(c.lits)
    /\ \A l \in c.lits : \/ st[VarOf(l)] \in {"active", "fixed"}
                         \/ late /\ c.redundant /\ st[VarOf(l)] \in {"eliminated", "pure"}

Late == phase \in {"elim", "block"}

ClausesLast == ~unsat => \A c \in Clauses : Lasts(c, status, Late)

Kept == Typed /\ FrozenKept /\ ClausesLast

\* What a step does that rewrites the clauses and gives the variables base.
Rewritten(base, gone, new) ==
    /\ frozen' = frozen /\ assumptions' = assumptions
    /\ ~unsat' => ~unsat
    /\ \A v \in Vars : \/ status'[v] = base[v] \/ status'[v] = "fixed"
                       \/ unsat' /\ status'[v] = status[v]
    /\ \A c \in DOMAIN db' : \/ c \in DOMAIN new
                             \/ c \in Clauses /\ (c \in DOMAIN gone => gone[c] # db[c])

\* The proof stays a bag of clauses.
LEMMA TraceStep ==
    ASSUME Typed, NEW new, BagOver(new, ClauseSet), NEW gone, Counted(gone),
           NEW U \in SUBSET Lits, NEW P \in SUBSET Lits,
           Trace(BagOfLits(new), U, P, BagOfLits(gone))
    PROVE  BagOver(proof', SUBSET Lits) /\ IsFcn(proof') /\ accepted' \in BOOLEAN
<1>1. PICK added : added = BagOfLits(new)
  OBVIOUS
<1>2. PICK less : less = BagOfLits(gone)
  OBVIOUS
<1>3. BagOver(added, SUBSET Lits)
  <2>1. PICK f : f = [c \in DOMAIN new |-> c.lits]
    OBVIOUS
  <2>2. Maps(added, f, new)
    BY <1>1, <2>1, LitsMap
  <2>3. IsFiniteSet(DOMAIN new) /\ \A c \in DOMAIN new : new[c] \in Nat \ {0}
    BY ClauseSetFinite DEF BagOver
  <2>4. \A c \in DOMAIN new : f[c] \in SUBSET Lits
    BY <2>1 DEF BagOver, ClauseSet
  <2>5. QED
    BY <2>2, <2>3, <2>4, ImageBag
<1>4. \A e \in DOMAIN less : less[e] \in Int
  <2>1. PICK f : f = [c \in DOMAIN gone |-> c.lits]
    OBVIOUS
  <2>2. Maps(less, f, gone)
    BY <1>2, <2>1, LitsMap
  <2>3. QED
    BY <2>2, ImageCounted
<1>5. ASSUME NEW X \in SUBSET Lits PROVE BagOver(UnitClauses(X), SUBSET Lits)
  BY EmptyBagFacts DEF UnitClauses
<1>6. proof' = (((proof (+) added) (+) UnitClauses(U)) (+) UnitClauses(P)) (-) less
  BY <1>1, <1>2 DEF Trace
<1>7. BagOver(proof (+) added, SUBSET Lits)
  BY <1>3, BagSum DEF Typed
<1>8. BagOver((proof (+) added) (+) UnitClauses(U), SUBSET Lits)
  BY <1>5, <1>7, BagSum
<1>9. BagOver(((proof (+) added) (+) UnitClauses(U)) (+) UnitClauses(P), SUBSET Lits)
  BY <1>5, <1>8, BagSum
<1>10. BagOver(proof', SUBSET Lits) /\ IsFcn(proof')
  BY <1>4, <1>6, <1>9, BagLess
<1>11. accepted' \in BOOLEAN
  BY DEF Trace
<1>12. QED
  BY <1>10, <1>11

\* A rewriting keeps the types and its variables the status base, or they are
\* assigned; a clause is new, or it was there and not all its copies went.
LEMMA RewriteStep ==
    ASSUME Typed, NEW F \in SUBSET SUBSET Lits, NEW base \in [Vars -> Statuses],
           NEW gone, Counted(gone), NEW new, BagOver(new, ClauseSet), NEW U \in SUBSET Lits,
           NEW entries \in Seq(Entries), RewriteOver(F, base, gone, new, U, entries)
    PROVE  Typed' /\ Rewritten(base, gone, new)
<1>1. /\ db' = (db (-) gone) (+) new
      /\ AssignAndPropagate(F, base, U)
      /\ extension' = extension \o entries
      /\ frozen' = frozen /\ assumptions' = assumptions /\ tainted' = tainted
      /\ Trace(BagOfLits(new), U \ fixed, fixed' \ (fixed \cup U), BagOfLits(gone))
  BY DEF RewriteOver, Push, userVars
<1>2. PICK T : T = Propagated(F, fixed \cup U)
  OBVIOUS
<1>3. T \in SUBSET Lits
  <2>1. fixed \cup U \in SUBSET Lits
    BY DEF Typed
  <2>2. QED
    BY <1>2, <2>1, PropagatedLits
<1>4. PICK bad \in BOOLEAN : bad = Conflicting(F, T)
  BY DEF Conflicting
<1>5. /\ unsat' = (unsat \/ bad)
      /\ fixed' = IF bad THEN fixed ELSE T
      /\ status' = IF bad THEN status
                   ELSE [v \in Vars |-> IF v \in VarsOf(T \ fixed) THEN "fixed" ELSE base[v]]
  BY <1>1, <1>2, <1>4 DEF AssignAndPropagate, Marked
<1>6. /\ BagOver(db', ClauseSet)
      /\ \A c \in DOMAIN db' : \/ c \in DOMAIN new
                               \/ c \in Clauses /\ (c \in DOMAIN gone => gone[c] # db[c])
  BY <1>1, BagChange DEF Typed, Counted, Clauses, BagToSet
<1>7. fixed' \subseteq Lits /\ unsat' \in BOOLEAN
  BY <1>3, <1>5 DEF Typed
<1>8. status' \in [Vars -> Statuses]
  BY <1>5 DEF Typed, Statuses
<1>9. extension' \in Seq(Entries)
  BY <1>1, ConcatProperties DEF Typed
<1>10. \A v \in Vars : \/ status'[v] = base[v] \/ status'[v] = "fixed"
                       \/ unsat' /\ status'[v] = status[v]
  BY <1>5
<1>11. ~unsat' => ~unsat
  BY <1>5
<1>12. Typed'
  <2>1. IsFcn(db')
    <3>1. BagOver(db (-) gone, ClauseSet)
      BY BagLess DEF Typed, Counted
    <3>2. QED
      BY <1>1, <3>1, BagSum
  <2>2. BagOver(proof', SUBSET Lits) /\ IsFcn(proof') /\ accepted' \in BOOLEAN
    <3>1. U \ fixed \in SUBSET Lits /\ fixed' \ (fixed \cup U) \in SUBSET Lits
      BY <1>7
    <3>2. QED
      BY <1>1, <3>1, TraceStep
  <2>3. frozen' \subseteq Vars /\ assumptions' \subseteq Lits /\ tainted' \subseteq Lits
    BY <1>1 DEF Typed
  <2>4. QED
    BY <1>6, <1>7, <1>8, <1>9, <2>1, <2>2, <2>3 DEF Typed
<1>13. QED
  BY <1>1, <1>6, <1>10, <1>11, <1>12 DEF Rewritten

\* What a step of a technique may bring.
Harmless(new, U, entries) ==
    /\ BagOver(new, ClauseSet)
    /\ ~unsat => \A c \in DOMAIN new : Lasts(c, status, Late)
    /\ U \in SUBSET Lits
    /\ entries \in Seq(Entries)

\* What lasted while the variables had the status st still does.
LEMMA LastsOn ==
    ASSUME NEW c \in ClauseSet, NEW st, NEW tt, NEW late, Lasts(c, st, late),
           \A v \in Vars : tt[v] = st[v] \/ tt[v] = "fixed"
    PROVE  Lasts(c, tt, late)
<1>1. \A l \in c.lits : l \in Lits
  BY DEF ClauseSet
<1>2. \A l \in c.lits : VarOf(l) \in Vars
  BY <1>1, LitFacts
<1>3. QED
  BY <1>2 DEF Lasts

\* A step that takes no variable away keeps the invariant.
LEMMA KeepsVariables ==
    ASSUME Kept, NEW F \in SUBSET SUBSET Lits, NEW gone, Counted(gone),
           NEW new, NEW U, NEW entries, Harmless(new, U, entries),
           RewriteOver(F, status, gone, new, U, entries), phase' = phase
    PROVE  Kept'
<1>1. /\ Typed'
      /\ frozen' = frozen /\ assumptions' = assumptions
      /\ ~unsat' => ~unsat
      /\ \A v \in Vars : status'[v] = status[v] \/ status'[v] = "fixed"
      /\ \A c \in DOMAIN db' : c \in DOMAIN new \/ c \in Clauses
  <2>1. /\ Typed /\ status \in [Vars -> Statuses] /\ BagOver(new, ClauseSet)
        /\ U \in SUBSET Lits /\ entries \in Seq(Entries)
    BY DEF Kept, Typed, Harmless
  <2>2. Typed' /\ Rewritten(status, gone, new)
    BY <2>1, RewriteStep
  <2>3. QED
    BY <2>2 DEF Rewritten
<1>2. FrozenKept'
  <2>1. \A l \in frozen \cup assumptions : VarOf(l) \in Vars
    BY LitFacts DEF Kept, Typed
  <2>2. QED
    BY <1>1, <2>1 DEF Kept, FrozenKept
<1>3. ClausesLast'
  <2> SUFFICES ASSUME ~unsat', NEW c \in DOMAIN db' PROVE Lasts(c, status', Late)
    BY <1>1 DEF ClausesLast, Clauses, BagToSet, Late
  <2>1. Lasts(c, status, Late)
    BY <1>1 DEF Kept, ClausesLast, Harmless
  <2>2. c \in ClauseSet
    BY <1>1 DEF Typed, BagOver
  <2>3. QED
    BY <1>1, <2>1, <2>2, LastsOn
<1>4. QED
  BY <1>1, <1>2, <1>3 DEF Kept

\* Every clause there is a clause of literals that lasts, and so is the same
\* clause with fewer literals.
LEMMA ClauseFacts ==
    ASSUME Kept, NEW c \in Clauses
    PROVE  /\ c \in ClauseSet /\ c.lits \in SUBSET Lits /\ c.redundant \in BOOLEAN
           /\ Current(c) \in SUBSET c.lits
           /\ db[c] \in Nat \ {0}
           /\ ~unsat => Lasts(c, status, Late)
           /\ \A l \in c.lits : l \in Lits /\ -l \in Lits /\ VarOf(l) \in Vars
<1>1. c \in ClauseSet /\ db[c] \in Nat \ {0}
  BY DEF Kept, Typed, BagOver, Clauses, BagToSet
<1>2. c.lits \in SUBSET Lits /\ c.redundant \in BOOLEAN
  BY <1>1 DEF ClauseSet
<1>3. ~unsat => Lasts(c, status, Late)
  BY DEF Kept, ClausesLast
<1>4. QED
  BY <1>1, <1>2, <1>3, LitFacts DEF Current, Reduced

\* A part of a clause that lasts, as redundant as that or not late, lasts.
LEMMA PartLasts ==
    ASSUME Kept, ~unsat, NEW c \in Clauses, NEW C \in SUBSET c.lits, NEW r \in BOOLEAN,
           Late /\ c.redundant => r
    PROVE  Clause(C, r) \in ClauseSet /\ Lasts(Clause(C, r), status, Late)
<1>1. Lasts(c, status, Late) /\ c.lits \in SUBSET Lits
  BY ClauseFacts
<1>2. Clause(C, r) \in ClauseSet /\ Clause(C, r).lits = C /\ Clause(C, r).redundant = r
  BY <1>1 DEF Clause, ClauseSet
<1>3. ~Tautological(C)
  BY <1>1 DEF Lasts, Tautological
<1>4. QED
  BY <1>1, <1>2, <1>3 DEF Lasts

LEMMA CopiesCounted ==
    ASSUME Kept, NEW S \in SUBSET Clauses
    PROVE  Counted(CopiesOf(S)) /\ DOMAIN CopiesOf(S) = S /\ \A c \in S : CopiesOf(S)[c] = db[c]
<1>1. \A c \in S : db[c] \in Int
  BY ClauseFacts
<1>2. IsFiniteSet(S)
  <2>1. S \in SUBSET ClauseSet
    BY ClauseFacts
  <2>2. QED
    BY <2>1, ClauseSetFinite
<1>3. QED
  BY <1>1, <1>2 DEF Counted, CopiesOf

LEMMA FewCounted ==
    /\ Counted(EmptyBag)
    /\ \A c : Counted(One(c))
    /\ \A c, d : \A S \in SUBSET {c, d} : Counted(SetToBag(S))
<1>1. ASSUME NEW S, IsFiniteSet(S) PROVE Counted(SetToBag(S))
  BY <1>1 DEF Counted, SetToBag
<1>2. ASSUME NEW c, NEW d, NEW S \in SUBSET {c, d} PROVE Counted(SetToBag(S))
  <2>1. IsFiniteSet({c, d})
    <3>1. IsFiniteSet({c} \cup {d})
      BY FS_Singleton, FS_Union
    <3>2. {c, d} = {c} \cup {d}
      OBVIOUS
    <3>3. QED
      BY <3>1, <3>2
  <2>2. QED
    BY <1>1, <2>1, FS_Subset
<1>3. ASSUME NEW c PROVE Counted(One(c))
  BY <1>1, FS_Singleton DEF One
<1>4. Counted(EmptyBag)
  BY FS_EmptySet DEF Counted, EmptyBag, SetToBag
<1>5. QED
  BY <1>2, <1>3, <1>4

LEMMA NothingNew ==
    ASSUME NEW U \in SUBSET Lits, NEW entries \in Seq(Entries)
    PROVE  /\ Harmless(EmptyBag, U, entries)
           /\ Harmless(EmptyBag, U, <<>>)
BY EmptyBagFacts DEF Harmless

LEMMA NothingElse == Harmless(EmptyBag, {}, <<>>)
<1>1. {} \in SUBSET Lits /\ <<>> \in Seq(Entries)
  OBVIOUS
<1>2. QED
  BY <1>1, NothingNew

LEMMA OneNew ==
    ASSUME NEW c \in ClauseSet, ~unsat => Lasts(c, status, Late)
    PROVE  Harmless(One(c), {}, <<>>)
<1>1. <<>> \in Seq(Entries)
  OBVIOUS
<1>2. DOMAIN One(c) = {c} /\ BagOver(One(c), ClauseSet)
  BY EmptyBagFacts
<1>3. QED
  BY <1>1, <1>2 DEF Harmless

\* Rewriting with propagation over all clauses that stay.
LEMMA KeepsByRewrite ==
    ASSUME Kept, NEW gone, Counted(gone), NEW new, NEW U, NEW entries,
           Harmless(new, U, entries), Rewrite(gone, new, U, entries), phase' = phase
    PROVE  Kept'
<1> DEFINE F == LitsOf(BagToSet((db (-) gone) (+) new))
<1>1. BagOver((db (-) gone) (+) new, ClauseSet)
  BY BagChange DEF Kept, Typed, Counted, Harmless
<1>2. F \in SUBSET SUBSET Lits
  BY <1>1 DEF BagOver, BagToSet, LitsOf, ClauseSet
<1>3. RewriteOver(F, status, gone, new, U, entries)
  BY DEF Rewrite
<1> HIDE DEF F
<1>4. QED
  BY <1>2, <1>3, KeepsVariables

LEMMA KeepsByDiscard ==
    ASSUME Kept, NEW gone, Counted(gone), Discard(gone), phase' = phase
    PROVE  Kept'
<1>1. Harmless(EmptyBag, {}, <<>>)
  BY NothingElse
<1>2. QED
  BY <1>1, KeepsByRewrite DEF Discard

LEMMA KeepsByReplace ==
    ASSUME Kept, NEW c, NEW d \in ClauseSet, ~unsat => Lasts(d, status, Late),
           Replace(c, d), phase' = phase
    PROVE  Kept'
<1>1. Harmless(One(d), {}, <<>>) /\ Counted(One(c))
  BY OneNew, FewCounted
<1>2. QED
  BY <1>1, KeepsByRewrite DEF Replace

LEMMA KeepsByUnit ==
    ASSUME Kept, NEW U \in SUBSET Lits, NEW gone, Counted(gone),
           Rewrite(gone, EmptyBag, U, <<>>), phase' = phase
    PROVE  Kept'
<1>1. Harmless(EmptyBag, U, <<>>)
  <2>1. <<>> \in Seq(Entries)
    OBVIOUS
  <2>2. QED
    BY <2>1, NothingNew
<1>2. QED
  BY <1>1, KeepsByRewrite

LEMMA KeepsByLearnUnit ==
    ASSUME Kept, NEW l \in Lits, LearnUnit(l), phase' = phase
    PROVE  Kept'
BY KeepsByUnit, FewCounted DEF LearnUnit

\* Rewriting without any propagation.
LEMMA KeepsByElimRewrite ==
    ASSUME Kept, NEW gone, Counted(gone), NEW new, NEW entries,
           Harmless(new, {}, entries), ElimRewrite(gone, new, entries), phase' = phase
    PROVE  Kept'
<1>1. {} \in SUBSET SUBSET Lits
  OBVIOUS
<1>2. QED
  BY <1>1, KeepsVariables DEF ElimRewrite

LEMMA KeepsByElimDiscard ==
    ASSUME Kept, NEW gone, Counted(gone), ElimRewrite(gone, EmptyBag, << >>), phase' = phase
    PROVE  Kept'
BY NothingElse, KeepsByElimRewrite

--------------------------------------------------------------------------------
(* The techniques that take no variable away                               *)

LEMMA KeptBySubsume == Kept /\ ~unsat /\ SubsumeClause => Kept'
<1> SUFFICES ASSUME Kept, ~unsat, SubsumeClause PROVE Kept'
  OBVIOUS
<1>1. PICK c \in Clauses : \E d \in BagToSet(Others(c)) :
                              LET p == Promoted(d, c) IN RewriteOver({}, status, p.gone, p.new, {}, << >>)
  BY DEF SubsumeClause
<1> PICK d \in BagToSet(Others(c)) :
      LET p == Promoted(d, c) IN RewriteOver({}, status, p.gone, p.new, {}, << >>)
  BY <1>1
<1>2. d \in Clauses /\ phase' = phase /\ ~Late
  <2>1. d \in Clauses
    BY <1>1 DEF Others, BagToSet, Clauses, (-)
  <2>2. QED
    BY <2>1 DEF SubsumeClause, Late
<1>3. PICK p : p = Promoted(d, c)
  OBVIOUS
<1>4. ElimRewrite(p.gone, p.new, << >>)
  BY <1>1, <1>3 DEF ElimRewrite
<1>5. Clause(d.lits, FALSE) \in ClauseSet /\ Lasts(Clause(d.lits, FALSE), status, Late)
  BY <1>2, PartLasts
<1>6. Counted(p.gone) /\ Harmless(p.new, {}, << >>)
  <2>1. Counted(One(c)) /\ Counted(SetToBag({c, d})) /\ Harmless(EmptyBag, {}, << >>)
        /\ Harmless(One(Clause(d.lits, FALSE)), {}, << >>)
    BY <1>5, FewCounted, NothingElse, OneNew
  <2>2. QED
    BY <1>3, <2>1 DEF Promoted
<1>7. QED
  BY <1>2, <1>4, <1>6, KeepsByElimRewrite

LEMMA KeptByStrengthen == Kept /\ ~unsat /\ StrengthenClause => Kept'
<1> SUFFICES ASSUME Kept, ~unsat, StrengthenClause PROVE Kept'
  OBVIOUS
<1>1. PICK c \in Clauses, d \in Clauses : \E l \in d.lits :
        RewriteOver({}, status, One(c), One(Without(c, -l)), {}, << >>)
  BY DEF StrengthenClause
<1>2. PICK l : ElimRewrite(One(c), One(Without(c, -l)), << >>)
  BY <1>1 DEF ElimRewrite
<1>3. Without(c, -l) \in ClauseSet /\ Lasts(Without(c, -l), status, Late)
  <2>1. c.lits \ {-l} \in SUBSET c.lits /\ c.redundant \in BOOLEAN
    BY ClauseFacts
  <2>2. QED
    BY <2>1, PartLasts DEF Without
<1>4. QED
  BY <1>2, <1>3, OneNew, FewCounted, KeepsByElimRewrite DEF StrengthenClause

LEMMA KeptByDeduplicate == Kept /\ ~unsat /\ (RemoveDuplicate \/ HyperUnary) => Kept'
<1> SUFFICES ASSUME Kept, ~unsat, RemoveDuplicate \/ HyperUnary PROVE Kept'
  OBVIOUS
<1>1. CASE RemoveDuplicate
  BY <1>1, KeepsByDiscard, FewCounted DEF RemoveDuplicate
<1>2. CASE HyperUnary
  <2>1. PICK c \in Clauses : \E l \in c.lits : LearnUnit(l)
    BY <1>2 DEF HyperUnary
  <2>2. QED
    BY <1>2, <2>1, ClauseFacts, KeepsByLearnUnit DEF HyperUnary
<1>3. QED
  BY <1>1, <1>2

LEMMA KeptByTransred == Kept /\ ~unsat /\ (RemoveTransitive \/ TransitiveUnit) => Kept'
<1> SUFFICES ASSUME Kept, ~unsat, RemoveTransitive \/ TransitiveUnit PROVE Kept'
  OBVIOUS
<1>1. CASE RemoveTransitive
  BY <1>1, KeepsByDiscard, FewCounted DEF RemoveTransitive
<1>2. CASE TransitiveUnit
  <2>1. PICK c \in Clauses : \E src \in Negated(c.lits) : LearnUnit(-src)
    BY <1>2 DEF TransitiveUnit
  <2>2. PICK src \in Negated(c.lits) : LearnUnit(-src)
    BY <2>1
  <2>3. PICK l \in c.lits : src = -l
    BY <2>2 DEF Negated
  <2>4. -src \in Lits
    BY <2>3, ClauseFacts, LitFacts
  <2>5. QED
    BY <1>2, <2>2, <2>4, KeepsByLearnUnit DEF TransitiveUnit
<1>3. QED
  BY <1>1, <1>2

\* What is reached from a literal: the least set around it that has what its
\* elements imply.
LEMMA ReachFacts ==
    ASSUME NEW B, NEW l \in Lits
    PROVE  /\ Reach(B, l) \in SUBSET Lits /\ l \in Reach(B, l)
           /\ Step(B, Reach(B, l)) = Reach(B, l)
           /\ \A C \in SUBSET Lits : l \in C /\ Step(B, C) = C => Reach(B, l) \subseteq C
<1> DEFINE next == [S \in SUBSET Lits |-> Step(B, S)]
           stop == {S \in SUBSET Lits : next[S] = S}
           IsClosure(f) == f = [S \in SUBSET Lits |->
                                  LET U == Step(B, S) IN IF U = S THEN S ELSE f[U]]
<1>1. \A S \in SUBSET Lits : Step(B, S) \in SUBSET Lits /\ S \subseteq Step(B, S)
  BY DEF Step
<1>2. Growing(next, stop) /\ \A S \in SUBSET Lits : next[S] = Step(B, S)
  BY <1>1 DEF Growing
<1>3. \A S \in stop : Step(B, S) = S
  OBVIOUS
<1>4. ASSUME NEW f PROVE IsClosure(f) <=> Closes(f, next, stop)
  <2>1. \A S \in SUBSET Lits :
          (LET U == Step(B, S) IN IF U = S THEN S ELSE f[U])
          = IF S \in stop THEN S ELSE f[next[S]]
    OBVIOUS
  <2> HIDE DEF next, stop
  <2>2. [S \in SUBSET Lits |-> LET U == Step(B, S) IN IF U = S THEN S ELSE f[U]]
        = [S \in SUBSET Lits |-> IF S \in stop THEN S ELSE f[next[S]]]
    BY <2>1
  <2>3. QED
    BY <2>2 DEF Closes
<1> HIDE DEF next, stop
<1>5. \E f : IsClosure(f)
  BY <1>2, <1>4, ClosureExists
<1>6. PICK g : g = CHOOSE f : IsClosure(f)
  OBVIOUS
<1> HIDE DEF IsClosure
<1>7. IsClosure(g)
  BY <1>5, <1>6
<1>8. /\ g[{l}] \in SUBSET Lits /\ {l} \subseteq g[{l}] /\ g[{l}] \in stop
      /\ \A C : ClosedUnder(C, next) /\ {l} \subseteq C => g[{l}] \subseteq C
  <2>1. {l} \in SUBSET Lits
    OBVIOUS
  <2>2. Closes(g, next, stop)
    BY <1>4, <1>7
  <2>3. LeastClosed(g[{l}], {l}, next, stop)
    BY <1>2, <2>1, <2>2, ClosureLeast
  <2>4. QED
    BY <2>3, Zenon DEF LeastClosed
<1>9. Reach(B, l) = g[{l}]
  BY <1>6 DEF Reach, IsClosure
<1>10. ASSUME NEW C \in SUBSET Lits, Step(B, C) = C PROVE ClosedUnder(C, next)
  <2>1. ASSUME NEW R \in SUBSET C PROVE next[R] \subseteq C
    <3>1. next[R] = Step(B, R)
      BY <1>2
    <3>2. Step(B, R) \subseteq Step(B, C)
      BY DEF Step
    <3>3. QED
      BY <1>10, <3>1, <3>2
  <2>2. QED
    BY <2>1 DEF ClosedUnder
<1>11. QED
  BY <1>3, <1>8, <1>9, <1>10

LEMMA KeptByVivify ==
    Kept /\ ~unsat /\ (VivifySatisfied \/ VivifyImplied \/ VivifyStrengthen) => Kept'
<1> SUFFICES ASSUME Kept, ~unsat, VivifySatisfied \/ VivifyImplied \/ VivifyStrengthen
             PROVE Kept'
  OBVIOUS
<1>1. CASE VivifySatisfied
  BY <1>1, KeepsByDiscard, FewCounted DEF VivifySatisfied
<1>2. CASE VivifyImplied
  BY <1>2, KeepsByDiscard, FewCounted DEF VivifyImplied
<1>3. CASE VivifyStrengthen
  <2> DEFINE Goes(c, D) == IF Cardinality(D) = 1 THEN Rewrite(One(c), EmptyBag, D, << >>)
                           ELSE Replace(c, Clause(D, c.redundant))
  <2>6. PICK c \in Clauses : \E D \in Shortened(c) : Goes(c, D)
    BY <1>3 DEF VivifyStrengthen
  <2>1. PICK D \in Shortened(c) : Goes(c, D)
    BY <2>6
  <2>2. phase' = phase
    BY <1>3 DEF VivifyStrengthen
  <2>3. D \in SUBSET c.lits
    <3>1. Current(c) \in SUBSET c.lits
      BY ClauseFacts
    <3>2. \A E \in SUBSET Current(c) : \A X \in Learned(c, E) : X \in SUBSET c.lits
      BY <3>1 DEF Learned
    <3>3. D \in SUBSET Current(c) \/ \E E \in SUBSET Current(c) : D \in Learned(c, E)
      BY <2>1 DEF Shortened
    <3>4. QED
      BY <3>1, <3>2, <3>3
  <2>4. Clause(D, c.redundant) \in ClauseSet /\ Lasts(Clause(D, c.redundant), status, Late)
        /\ D \in SUBSET Lits
    BY <2>3, PartLasts, ClauseFacts
  <2>5. QED
    BY <2>1, <2>2, <2>4, KeepsByReplace, KeepsByUnit, FewCounted
<1>4. QED
  BY <1>1, <1>2, <1>3

\* A resolvent of two clauses that last lasts when it is no tautology.
LEMMA ResolventLasts ==
    ASSUME Kept, ~unsat, NEW c \in Clauses, NEW d \in Clauses,
           NEW R \in SUBSET (c.lits \cup d.lits), ~Tautological(R), NEW r \in BOOLEAN,
           Late => ~c.redundant /\ ~d.redundant
    PROVE  Clause(R, r) \in ClauseSet /\ Lasts(Clause(R, r), status, Late)
<1>1. Lasts(c, status, Late) /\ Lasts(d, status, Late)
      /\ c.lits \in SUBSET Lits /\ d.lits \in SUBSET Lits
  BY ClauseFacts
<1>2. Clause(R, r) \in ClauseSet /\ Clause(R, r).lits = R /\ Clause(R, r).redundant = r
  BY <1>1 DEF Clause, ClauseSet
<1>3. \A l \in c.lits \cup d.lits : status[VarOf(l)] \in {"active", "fixed"}
  BY <1>1 DEF Lasts
<1>4. QED
  BY <1>2, <1>3 DEF Lasts

LEMMA KeptByTernary == Kept /\ ~unsat /\ TernaryResolve => Kept'
<1> SUFFICES ASSUME Kept, ~unsat, TernaryResolve PROVE Kept'
  OBVIOUS
<1>1. phase' = phase /\ ~Late
  BY DEF TernaryResolve, Late
<1>2. PICK c \in Clauses, d \in Clauses : \E l \in c.lits :
        LET R == Resolvent(c.lits, d.lits, l) IN
        /\ ~Tautological(R)
        /\ IF Cardinality(R) = 2
           THEN Rewrite(SetToBag({c, d}), One(Clause(R, c.redundant /\ d.redundant)),
                        {}, << >>)
           ELSE Rewrite(EmptyBag, One(Clause(R, TRUE)), {}, << >>)
  BY DEF TernaryResolve
<1>3. PICK l \in c.lits :
        LET R == Resolvent(c.lits, d.lits, l) IN
        /\ ~Tautological(R)
        /\ IF Cardinality(R) = 2
           THEN Rewrite(SetToBag({c, d}), One(Clause(R, c.redundant /\ d.redundant)),
                        {}, << >>)
           ELSE Rewrite(EmptyBag, One(Clause(R, TRUE)), {}, << >>)
  BY <1>2
<1>4. PICK R : R = Resolvent(c.lits, d.lits, l)
  OBVIOUS
<1>5. R \in SUBSET (c.lits \cup d.lits) /\ ~Tautological(R)
  BY <1>3, <1>4 DEF Resolvent
<1>6. PICK r \in BOOLEAN : r = (c.redundant /\ d.redundant)
  BY ClauseFacts
<1>7. /\ Harmless(One(Clause(R, r)), {}, << >>) /\ Harmless(One(Clause(R, TRUE)), {}, << >>)
  BY <1>1, <1>5, ResolventLasts, OneNew
<1>8. \/ Rewrite(SetToBag({c, d}), One(Clause(R, r)), {}, << >>)
      \/ Rewrite(EmptyBag, One(Clause(R, TRUE)), {}, << >>)
  BY <1>3, <1>4, <1>6
<1>9. QED
  BY <1>1, <1>7, <1>8, FewCounted, KeepsByRewrite

LEMMA KeptByFailedLiteral == Kept /\ ~unsat /\ FailedLiteral => Kept'
<1> SUFFICES ASSUME Kept, ~unsat, FailedLiteral PROVE Kept'
  OBVIOUS
<1>1. PICK p \in Lits : \E uip \in Reach(BinaryNow, p) :
        Rewrite(EmptyBag, EmptyBag, {-uip, -p}, << >>)
  BY DEF FailedLiteral
<1>2. PICK uip \in Reach(BinaryNow, p) : Rewrite(EmptyBag, EmptyBag, {-uip, -p}, << >>)
  BY <1>1
<1>3. {-uip, -p} \in SUBSET Lits
  BY ReachFacts, LitFacts
<1>4. QED
  BY <1>2, <1>3, KeepsByUnit, FewCounted DEF FailedLiteral

LEMMA KeptByHyperBinary == Kept /\ ~unsat /\ HyperBinaryResolve => Kept'
<1> SUFFICES ASSUME Kept, ~unsat, HyperBinaryResolve PROVE Kept'
  OBVIOUS
<1>1. phase' = phase /\ ~Late
  BY DEF HyperBinaryResolve, Late
<1>2. PICK p \in Lits, c \in Clauses : \E l \in Current(c) : \E dom \in Reach(BinaryNow, p) :
        LET contained == -dom \in c.lits IN
        /\ Active(dom) /\ l \notin Reach(BinaryNow, p)
        /\ Rewrite(IF contained THEN One(c) ELSE EmptyBag,
                   One(Clause({-dom, l}, ~contained \/ c.redundant)), {}, << >>)
  BY DEF HyperBinaryResolve
<1>3. PICK l \in Current(c) : \E dom \in Reach(BinaryNow, p) :
        LET contained == -dom \in c.lits IN
        /\ Active(dom) /\ l \notin Reach(BinaryNow, p)
        /\ Rewrite(IF contained THEN One(c) ELSE EmptyBag,
                   One(Clause({-dom, l}, ~contained \/ c.redundant)), {}, << >>)
  BY <1>2
<1>4. PICK dom \in Reach(BinaryNow, p) :
        LET contained == -dom \in c.lits IN
        /\ Active(dom) /\ l \notin Reach(BinaryNow, p)
        /\ Rewrite(IF contained THEN One(c) ELSE EmptyBag,
                   One(Clause({-dom, l}, ~contained \/ c.redundant)), {}, << >>)
  BY <1>3
<1>5. PICK r \in BOOLEAN : r = (~(-dom \in c.lits) \/ c.redundant)
  BY ClauseFacts
<1>6. PICK gone : gone = IF -dom \in c.lits THEN One(c) ELSE EmptyBag
  OBVIOUS
<1>7. Counted(gone) /\ Rewrite(gone, One(Clause({-dom, l}, r)), {}, << >>)
  BY <1>4, <1>5, <1>6, FewCounted
<1>8. /\ l \in Lits /\ dom \in Lits /\ l # dom /\ -dom \in Lits /\ -(-dom) = dom
      /\ VarOf(-dom) = VarOf(dom) /\ -l # l /\ -dom # dom
      /\ status[VarOf(dom)] = "active" /\ status[VarOf(l)] \in {"active", "fixed"}
  <2>1. l \in Lits /\ status[VarOf(l)] \in {"active", "fixed"}
    BY <1>1, ClauseFacts DEF Lasts
  <2>2. dom \in Lits /\ l # dom /\ status[VarOf(dom)] = "active"
    BY <1>4, ReachFacts DEF Active
  <2>3. QED
    BY <2>1, <2>2, LitFacts
<1>9. Clause({-dom, l}, r) \in ClauseSet /\ Lasts(Clause({-dom, l}, r), status, Late)
  <2>1. -l # -dom
    BY <1>8, LitFacts
  <2>2. ~Tautological({-dom, l})
    BY <1>8, <2>1 DEF Tautological
  <2>3. Clause({-dom, l}, r).lits = {-dom, l} /\ Clause({-dom, l}, r) \in ClauseSet
    BY <1>8 DEF Clause, ClauseSet
  <2>4. QED
    BY <1>8, <2>2, <2>3 DEF Lasts
<1>10. QED
  BY <1>1, <1>7, <1>9, OneNew, KeepsByRewrite

--------------------------------------------------------------------------------
(* Elimination, blocking, covering and conditioning                        *)

\* A unit that is assigned, and propagated over some irredundant clauses.
LEMMA KeepsByAssign ==
    ASSUME Kept, NEW S \in SUBSET Irredundant, NEW gone, Counted(gone), NEW U \in SUBSET Lits,
           RewriteOver(LitsOf(S), status, gone, EmptyBag, U, << >>), phase' = phase
    PROVE  Kept'
<1>1. LitsOf(S) \in SUBSET SUBSET Lits
  <2>1. \A c \in Irredundant : c.lits \in SUBSET Lits
    BY ClauseFacts DEF Irredundant
  <2>2. QED
    BY <2>1 DEF LitsOf
<1>2. Harmless(EmptyBag, U, << >>)
  <2>1. <<>> \in Seq(Entries)
    OBVIOUS
  <2>2. QED
    BY <2>1, NothingNew
<1>3. QED
  BY <1>1, <1>2, KeepsVariables

LEMMA KeepsByElimAssign ==
    ASSUME Kept, NEW U \in SUBSET Lits, ElimAssign(U), phase' = phase
    PROVE  Kept'
<1>1. PICK T : T = Propagated(LitsOf({c \in Irredundant : Cardinality(Current(c)) > 1}),
                              fixed \cup U)
  OBVIOUS
<1>2. PICK met : met = {c \in Irredundant : c.lits \cap Negated(T \ fixed) # {}}
  OBVIOUS
<1>3. PICK S : S = {c \in Irredundant : \/ Satisfies(T \ fixed, c.lits)
                                        \/ c \in met /\ SatisfiedRoot(c)}
  OBVIOUS
<1>4. PICK gone : gone = IF Conflicting(LitsOf(met), T) THEN EmptyBag ELSE CopiesOf(S)
  OBVIOUS
<1>5. RewriteOver(LitsOf(met), status, gone, EmptyBag, U, << >>)
  BY <1>1, <1>2, <1>3, <1>4 DEF ElimAssign
<1>6. Counted(gone)
  <2>1. S \in SUBSET Clauses
    BY <1>3 DEF Irredundant
  <2>2. QED
    BY <1>4, <2>1, CopiesCounted, FewCounted
<1>7. met \in SUBSET Irredundant
  BY <1>2
<1>8. QED
  BY <1>5, <1>6, <1>7, KeepsByAssign

\* In the elimination of variables only the clauses, the values and the
\* attempt change, and clauses that go are clauses that were there.
LEMMA ElimFacts ==
    /\ \A point : \A p \in Trying(point) : p \in Lits /\ Pivot(p) /\ phase = "elim"
    /\ \A next : GoOn(next) => phase' = phase
    /\ \A p : Occurring(p) \in SUBSET Clauses /\ Occurring(p) \in SUBSET Irredundant
    /\ Irredundant \in SUBSET Clauses
    /\ \A x \in Compared : x[1] \in Irredundant /\ x[2] \in Irredundant /\ phase = "elim"
    /\ \A p : \A x \in NextPairs(p) : x[1] \in Occurring(p) /\ x[2] \in Occurring(-p)
BY DEF Trying, At, GoOn, Occurring, Irredundant, Compared, NextPairs

LEMMA ResolvedFacts ==
    ASSUME Kept, ~unsat, NEW p \in Lits, NEW c \in Occurring(p), NEW d \in Occurring(-p)
    PROVE  /\ c \in Clauses /\ d \in Clauses /\ ~c.redundant /\ ~d.redundant
           /\ Resolved(c, d, p) \in SUBSET (c.lits \cup d.lits)
           /\ Resolved(c, d, p) \in SUBSET Lits
<1>1. c \in Clauses /\ d \in Clauses /\ ~c.redundant /\ ~d.redundant
  BY DEF Occurring, Irredundant
<1>2. /\ Current(c) \in SUBSET c.lits /\ Current(d) \in SUBSET d.lits
      /\ c.lits \in SUBSET Lits /\ d.lits \in SUBSET Lits
  BY <1>1, ClauseFacts
<1>3. Resolved(c, d, p) \in SUBSET (c.lits \cup d.lits)
  BY <1>2 DEF Resolved, Resolvent
<1>4. QED
  BY <1>1, <1>2, <1>3

\* A resolvent comes, and maybe one or both clauses go.
LEMMA KeepsByResolvent ==
    ASSUME Kept, ~unsat, NEW p \in Lits, NEW x \in NextPairs(p), Resolvable(x, p),
           NEW gone, Counted(gone),
           ElimRewrite(gone, One(Clause(Resolved(x[1], x[2], p), FALSE)), << >>),
           phase' = phase
    PROVE  Kept'
<1>1. PICK c \in Occurring(p), d \in Occurring(-p) : c = x[1] /\ d = x[2]
  BY ElimFacts
<1>2. PICK R : R = Resolved(c, d, p)
  OBVIOUS
<1>3. ~Tautological(R)
  BY <1>1, <1>2 DEF Resolvable
<1>4. Clause(R, FALSE) \in ClauseSet /\ Lasts(Clause(R, FALSE), status, Late)
  BY <1>2, <1>3, ResolvedFacts, ResolventLasts
<1>5. QED
  BY <1>1, <1>2, <1>4, OneNew, KeepsByElimRewrite

\* Nothing but the attempt moves on.
LEMMA KeepsIdle ==
    ASSUME Kept, Idle, phase' = phase
    PROVE  Kept'
<1>1. /\ db' = db /\ fixed' = fixed /\ status' = status /\ unsat' = unsat
      /\ extension' = extension /\ tainted' = tainted /\ frozen' = frozen
      /\ assumptions' = assumptions /\ proof' = proof /\ accepted' = accepted
  BY DEF Idle, dbVars, stackVars, userVars, proofVars
<1>2. Typed' /\ FrozenKept'
  BY <1>1 DEF Kept, Typed, FrozenKept
<1>3. ClausesLast'
  BY <1>1 DEF Kept, ClausesLast, Clauses, Late
<1>4. QED
  BY <1>2, <1>3 DEF Kept

LEMMA KeptByIdleSteps ==
    Kept /\ (TryVariable \/ FindGateClauses \/ ResolveTautology \/ CountResolvent \/ GiveUp
             \/ Bounded \/ BackwardSkip \/ BackwardConnect \/ BackwardDone \/ BackwardPass
             \/ BackwardStop \/ BackwardNext) => Kept'
<1> SUFFICES ASSUME Kept,
                    TryVariable \/ FindGateClauses \/ ResolveTautology \/ CountResolvent
                    \/ GiveUp \/ Bounded \/ BackwardSkip \/ BackwardConnect \/ BackwardDone
                    \/ BackwardPass \/ BackwardStop \/ BackwardNext
             PROVE  Kept'
  OBVIOUS
<1>1. TryVariable \/ FindGateClauses => Idle /\ phase' = phase
  BY ElimFacts DEF TryVariable, FindGateClauses
<1>2. ResolveTautology \/ CountResolvent \/ GiveUp \/ Bounded => Idle /\ phase' = phase
  BY ElimFacts DEF ResolveTautology, CountResolvent, GiveUp, Bounded
<1>3. BackwardSkip \/ BackwardConnect \/ BackwardDone => Idle /\ phase' = phase
  BY ElimFacts DEF BackwardSkip, BackwardConnect, BackwardDone
<1>4. BackwardPass \/ BackwardStop \/ BackwardNext => Idle /\ phase' = phase
  BY ElimFacts DEF BackwardPass, BackwardStop, BackwardNext
<1>5. QED
  BY <1>1, <1>2, <1>3, <1>4, KeepsIdle

\* Clauses that go because they are satisfied, twice there, or subsumed.
LEMMA KeptByElimDrops ==
    Kept /\ (StartRound \/ ElimBinaryDuplicate \/ ElimSatisfied \/ ResolveSatisfied
             \/ BackwardSatisfied \/ BackwardDropSatisfied \/ BackwardSubsume) => Kept'
<1> SUFFICES ASSUME Kept,
                    StartRound \/ ElimBinaryDuplicate \/ ElimSatisfied \/ ResolveSatisfied
                    \/ BackwardSatisfied \/ BackwardDropSatisfied \/ BackwardSubsume
             PROVE  Kept'
  OBVIOUS
<1>1. CASE StartRound
  <2>1. PICK S : S = {c \in Irredundant : SatisfiedRoot(c)}
    OBVIOUS
  <2>2. S \in SUBSET Clauses
    BY <2>1, ElimFacts
  <2>3. ElimRewrite(CopiesOf(S), EmptyBag, << >>) /\ phase' = phase
    BY <1>1, <2>1, ElimFacts DEF StartRound
  <2>4. QED
    BY <2>2, <2>3, CopiesCounted, KeepsByElimDiscard
<1>2. CASE ElimBinaryDuplicate \/ ElimSatisfied
  <2>1. (\E c : ElimRewrite(One(c), EmptyBag, << >>)) /\ phase' = phase
    BY <1>2, ElimFacts DEF ElimBinaryDuplicate, ElimSatisfied
  <2>2. QED
    BY <2>1, FewCounted, KeepsByElimDiscard
<1>3. CASE ResolveSatisfied
  <2>1. (\E c : ElimRewrite(One(c), EmptyBag, << >>)) /\ phase' = phase
    BY <1>3, ElimFacts DEF ResolveSatisfied
  <2>2. QED
    BY <2>1, FewCounted, KeepsByElimDiscard
<1>4. CASE BackwardSatisfied \/ BackwardDropSatisfied \/ BackwardSubsume
  <2>1. (\E c : ElimRewrite(One(c), EmptyBag, << >>)) /\ phase' = phase
    BY <1>4, ElimFacts DEF BackwardSatisfied, BackwardDropSatisfied, BackwardSubsume
  <2>2. QED
    BY <2>1, FewCounted, KeepsByElimDiscard
<1>5. QED
  BY <1>1, <1>2, <1>3, <1>4

LEMMA BinaryUnitsTyped ==
    ASSUME NEW p \in Lits
    PROVE  BinaryUnits(p) \in SUBSET Lits
BY LitFacts DEF BinaryUnits

\* The units that are found while a pivot is tried or clauses are compared.
LEMMA KeptByElimUnits ==
    Kept /\ ~unsat /\ (ElimBinaryUnit \/ ResolveEmpty \/ ResolveUnit \/ BackwardUnit) => Kept'
<1> SUFFICES ASSUME Kept, ~unsat,
                    ElimBinaryUnit \/ ResolveEmpty \/ ResolveUnit \/ BackwardUnit
             PROVE  Kept'
  OBVIOUS
<1>1. CASE ElimBinaryUnit
  <2>1. PICK p \in Lits : \E l \in BinaryUnits(p) : ElimAssign({l})
    BY <1>1, ElimFacts DEF ElimBinaryUnit
  <2>2. PICK l \in BinaryUnits(p) : ElimAssign({l})
    BY <2>1
  <2>3. {l} \in SUBSET Lits
    BY BinaryUnitsTyped
  <2>4. QED
    BY <1>1, <2>2, <2>3, ElimFacts, KeepsByElimAssign DEF ElimBinaryUnit
<1>2. CASE ResolveEmpty
  <2>1. PICK p \in Lits : \E x \in NextPairs(p) :
          RewriteOver({x[1].lits, x[2].lits}, status, EmptyBag, EmptyBag, {}, << >>)
    BY <1>2, ElimFacts DEF ResolveEmpty
  <2>2. PICK x \in NextPairs(p) :
          RewriteOver({x[1].lits, x[2].lits}, status, EmptyBag, EmptyBag, {}, << >>)
    BY <2>1
  <2>3. PICK S : S = {x[1], x[2]}
    OBVIOUS
  <2>4. S \in SUBSET Irredundant /\ LitsOf(S) = {x[1].lits, x[2].lits}
    BY <2>3, ElimFacts DEF LitsOf
  <2>5. PICK U : U = {}
    OBVIOUS
  <2>6. U \in SUBSET Lits /\ RewriteOver(LitsOf(S), status, EmptyBag, EmptyBag, U, << >>)
    BY <2>2, <2>4, <2>5
  <2>7. QED
    BY <1>2, <2>4, <2>6, ElimFacts, FewCounted, KeepsByAssign DEF ResolveEmpty
<1>3. CASE ResolveUnit
  <2>1. PICK p \in Lits : \E x \in NextPairs(p) : AssignUnit(Resolved(x[1], x[2], p))
    BY <1>3, ElimFacts DEF ResolveUnit
  <2>2. PICK x \in NextPairs(p) : AssignUnit(Resolved(x[1], x[2], p))
    BY <2>1
  <2>3. PICK U : U = Resolved(x[1], x[2], p)
    OBVIOUS
  <2>4. U \in SUBSET Lits
    BY <2>3, ElimFacts, ResolvedFacts
  <2>5. phase' = phase
    BY <1>3, ElimFacts DEF ResolveUnit
  <2>6. CASE Delay(U)
    <3>1. PICK S : S = {}
      OBVIOUS
    <3>2. S \in SUBSET Irredundant /\ LitsOf(S) = {}
      BY <3>1 DEF LitsOf
    <3>3. RewriteOver(LitsOf(S), status, EmptyBag, EmptyBag, U, << >>)
      BY <2>6, <3>2 DEF Delay
    <3>4. QED
      BY <2>4, <2>5, <3>2, <3>3, FewCounted, KeepsByAssign
  <2>7. QED
    BY <2>2, <2>3, <2>4, <2>5, <2>6, KeepsByElimAssign DEF AssignUnit
<1>4. CASE BackwardUnit
  <2>1. PICK x \in Compared : \E l : ElimAssign(Current(x[2]) \ {l})
    BY <1>4 DEF BackwardUnit
  <2>2. PICK l : ElimAssign(Current(x[2]) \ {l})
    BY <2>1
  <2>3. x[2] \in Clauses
    BY ElimFacts
  <2>4. Current(x[2]) \ {l} \in SUBSET Lits
    BY <2>3, ClauseFacts
  <2>5. QED
    BY <1>4, <2>2, <2>4, ElimFacts, KeepsByElimAssign DEF BackwardUnit
<1>5. QED
  BY <1>1, <1>2, <1>3, <1>4

\* Resolvents that come, and clauses that lose a literal.
LEMMA KeptByElimNew ==
    Kept /\ ~unsat /\ (ResolveSubsuming \/ AddResolvent \/ BackwardStrengthen) => Kept'
<1> SUFFICES ASSUME Kept, ~unsat, ResolveSubsuming \/ AddResolvent \/ BackwardStrengthen
             PROVE  Kept'
  OBVIOUS
<1>1. CASE ResolveSubsuming
  <2> DEFINE Goes(x, p) ==
        LET R == Resolved(x[1], x[2], p) IN
        /\ Resolvable(x, p)
        /\ ElimRewrite(SetToBag(Subsumed(x, R)), One(Clause(R, FALSE)), << >>)
  <2>1. PICK p \in Lits : \E x \in NextPairs(p) : Goes(x, p)
    BY <1>1, ElimFacts DEF ResolveSubsuming
  <2>2. PICK x \in NextPairs(p) : Goes(x, p)
    BY <2>1
  <2>3. PICK gone : gone = SetToBag(Subsumed(x, Resolved(x[1], x[2], p)))
    OBVIOUS
  <2>4. Counted(gone)
    BY <2>3, FewCounted DEF Subsumed
  <2>5. /\ Resolvable(x, p)
        /\ ElimRewrite(gone, One(Clause(Resolved(x[1], x[2], p), FALSE)), << >>)
    BY <2>2, <2>3
  <2>6. QED
    BY <1>1, <2>4, <2>5, ElimFacts, KeepsByResolvent DEF ResolveSubsuming
<1>2. CASE AddResolvent
  <2> DEFINE Comes(x, p) ==
        /\ Resolvable(x, p)
        /\ ElimRewrite(EmptyBag, One(Clause(Resolved(x[1], x[2], p), FALSE)), << >>)
  <2>1. PICK p \in Lits : \E x \in NextPairs(p) : Comes(x, p)
    BY <1>2, ElimFacts DEF AddResolvent, Resolves
  <2>2. PICK x \in NextPairs(p) : Comes(x, p)
    BY <2>1
  <2>3. QED
    BY <1>2, <2>2, ElimFacts, FewCounted, KeepsByResolvent DEF AddResolvent
<1>3. CASE BackwardStrengthen
  <2>1. PICK x \in Compared : \E l : ElimRewrite(One(x[2]), One(Without(x[2], l)), << >>)
    BY <1>3 DEF BackwardStrengthen
  <2>2. PICK l : ElimRewrite(One(x[2]), One(Without(x[2], l)), << >>)
    BY <2>1
  <2>3. PICK d \in Clauses : d = x[2]
    BY ElimFacts
  <2>4. d.lits \ {l} \in SUBSET d.lits /\ d.redundant \in BOOLEAN
    BY ClauseFacts
  <2>5. Without(d, l) \in ClauseSet /\ Lasts(Without(d, l), status, Late)
    BY <2>4, PartLasts DEF Without
  <2>6. ElimRewrite(One(d), One(Without(d, l)), << >>) /\ phase' = phase
    BY <1>3, <2>2, <2>3, ElimFacts DEF BackwardStrengthen
  <2>7. QED
    BY <2>5, <2>6, OneNew, FewCounted, KeepsByElimRewrite
<1>4. QED
  BY <1>1, <1>2, <1>3

LEMMA KeptByInstantiate == Kept /\ ~unsat /\ InstantiateCandidate => Kept'
<1> SUFFICES ASSUME Kept, ~unsat, InstantiateCandidate PROVE Kept'
  OBVIOUS
<1>1. PICK c \in Irredundant : \E l \in Current(c) : Replace(c, Without(c, l))
  BY DEF InstantiateCandidate
<1>2. PICK l \in Current(c) : Replace(c, Without(c, l))
  BY <1>1
<1>3. Without(c, l) \in ClauseSet /\ Lasts(Without(c, l), status, Late)
  <2>1. c \in Clauses
    BY DEF Irredundant
  <2>2. c.lits \ {l} \in SUBSET c.lits /\ c.redundant \in BOOLEAN
    BY <2>1, ClauseFacts
  <2>3. QED
    BY <2>1, <2>2, PartLasts DEF Without
<1>4. QED
  BY <1>2, <1>3, KeepsByReplace DEF InstantiateCandidate

\* Entries for the stack are literals.
LEMMA EntryTyped ==
    ASSUME NEW W \in SUBSET Lits, NEW C \in SUBSET Lits
    PROVE  Entry(W, C) \in Entries /\ << Entry(W, C) >> \in Seq(Entries)
BY DEF Entry, Entries

LEMMA KeptByBlockClause == Kept /\ ~unsat /\ BlockClause => Kept'
<1> SUFFICES ASSUME Kept, ~unsat, BlockClause PROVE Kept'
  OBVIOUS
<1>1. PICK l \in Lits : /\ Blockable(l)
                        /\ \E c \in Occurring(l) :
                             ElimRewrite(One(c), EmptyBag, <<Entry({l}, c.lits)>>)
  BY DEF BlockClause
<1>2. PICK c \in Occurring(l) : ElimRewrite(One(c), EmptyBag, <<Entry({l}, c.lits)>>)
  BY <1>1
<1>3. <<Entry({l}, c.lits)>> \in Seq(Entries)
  <2>1. c \in Clauses
    BY DEF Occurring, Irredundant
  <2>2. c.lits \in SUBSET Lits /\ {l} \in SUBSET Lits
    BY <2>1, ClauseFacts
  <2>3. QED
    BY <2>2, EntryTyped
<1>4. Harmless(EmptyBag, {}, <<Entry({l}, c.lits)>>)
  <2>1. {} \in SUBSET Lits
    OBVIOUS
  <2>2. QED
    BY <1>3, <2>1, NothingNew
<1>5. QED
  BY <1>2, <1>4, FewCounted, KeepsByElimRewrite DEF BlockClause

LEMMA KeptByCondition == Kept /\ ~unsat /\ ConditionClause => Kept'
<1> SUFFICES ASSUME Kept, ~unsat, ConditionClause PROVE Kept'
  OBVIOUS
<1>1. PICK alpha \in Alphas : \E c \in Irredundant :
        Rewrite(One(c), EmptyBag, {}, <<Entry(alpha \ Conditional(alpha, c), c.lits)>>)
  BY DEF ConditionClause
<1>2. PICK c \in Irredundant :
        Rewrite(One(c), EmptyBag, {}, <<Entry(alpha \ Conditional(alpha, c), c.lits)>>)
  BY <1>1
<1>3. PICK e : e = Entry(alpha \ Conditional(alpha, c), c.lits)
  OBVIOUS
<1>4. Harmless(EmptyBag, {}, <<e>>)
  <2>1. c \in Clauses
    BY DEF Irredundant
  <2>2. c.lits \in SUBSET Lits /\ alpha \ Conditional(alpha, c) \in SUBSET Lits
    BY <2>1, ClauseFacts DEF Alphas
  <2>3. <<e>> \in Seq(Entries) /\ {} \in SUBSET Lits
    BY <1>3, <2>2, EntryTyped
  <2>4. QED
    BY <2>3, NothingNew
<1>5. QED
  BY <1>2, <1>3, <1>4, FewCounted, KeepsByRewrite DEF ConditionClause

LEMMA KeptByCollect ==
    ASSUME Kept, ~unsat, NEW stale \in SUBSET Clauses, GarbageCollection(stale), phase' = phase
    PROVE  Kept'
<1>1. PICK garbage : garbage = stale \cup {c \in Clauses : SatisfiedRoot(c)}
  OBVIOUS
<1>2. PICK shrunken : shrunken = {c \in Clauses \ garbage : Flushed(c) # c}
  OBVIOUS
<1>3. PICK B : B = CopiesOf(shrunken)
  OBVIOUS
<1>4. PICK new : new = Image(Flushed, B)
  OBVIOUS
<1>5. PICK gone : gone = CopiesOf(garbage \cup shrunken)
  OBVIOUS
<1>6. RewriteOver({}, status, gone, new, {}, << >>)
  BY <1>1, <1>2, <1>3, <1>4, <1>5 DEF GarbageCollection
<1>7. shrunken \in SUBSET Clauses /\ garbage \cup shrunken \in SUBSET Clauses
  BY <1>1, <1>2
<1>8. Counted(gone)
  BY <1>5, <1>7, CopiesCounted
<1>9. DOMAIN B = shrunken /\ \A c \in shrunken : B[c] \in Nat \ {0}
  BY <1>3, <1>7, CopiesCounted, ClauseFacts
<1>10. ASSUME NEW c \in Clauses PROVE Flushed(c) \in ClauseSet /\ Lasts(Flushed(c), status, Late)
  <2>1. /\ c \in ClauseSet /\ Lasts(c, status, Late)
        /\ Current(c) \in SUBSET c.lits /\ c.redundant \in BOOLEAN
    BY ClauseFacts
  <2>2. Clause(Current(c), c.redundant) \in ClauseSet
        /\ Lasts(Clause(Current(c), c.redundant), status, Late)
    BY <2>1, PartLasts
  <2>3. QED
    BY <2>1, <2>2 DEF Flushed
<1>11. PICK f : f = [c \in shrunken |-> Flushed(c)]
  OBVIOUS
<1>12. Maps(new, f, B)
  <2>1. \A c \in DOMAIN B : f[c] = Flushed(c)
    BY <1>9, <1>11
  <2>2. DOMAIN new = {Flushed(c) : c \in DOMAIN B}
        /\ \A e \in DOMAIN new :
             new[e] = Cardinality(UNION {{c} \X (1..B[c]) : c \in {d \in DOMAIN B : Flushed(d) = e}})
    BY <1>4 DEF Image, BagToSet
  <2>3. {Flushed(c) : c \in DOMAIN B} = {f[c] : c \in DOMAIN B}
    BY <2>1
  <2>4. \A e : {d \in DOMAIN B : Flushed(d) = e} = {d \in DOMAIN B : f[d] = e}
    BY <2>1
  <2>5. QED
    BY <2>2, <2>3, <2>4 DEF Maps
<1>13. BagOver(new, ClauseSet)
  <2>1. IsFiniteSet(shrunken)
    <3>1. shrunken \in SUBSET ClauseSet
      BY <1>7, ClauseFacts
    <3>2. QED
      BY <3>1, ClauseSetFinite
  <2>2. \A c \in DOMAIN B : f[c] \in ClauseSet
    BY <1>7, <1>9, <1>10, <1>11
  <2>3. QED
    BY <1>9, <1>12, <2>1, <2>2, ImageBag
<1>14. \A c \in DOMAIN new : Lasts(c, status, Late)
  BY <1>7, <1>9, <1>10, <1>11, <1>12 DEF Maps
<1>15. Harmless(new, {}, << >>)
  <2>1. <<>> \in Seq(Entries)
    OBVIOUS
  <2>2. QED
    BY <1>13, <1>14, <2>1 DEF Harmless
<1>16. {} \in SUBSET SUBSET Lits
  OBVIOUS
<1>17. QED
  BY <1>6, <1>8, <1>15, <1>16, KeepsVariables

--------------------------------------------------------------------------------
(* A variable goes                                                         *)

\* It takes its irredundant clauses along, and nobody refers to it.
LEMMA TakesVariable ==
    ASSUME Kept, ~unsat, Late, phase' = phase, NEW F \in SUBSET SUBSET Lits,
           NEW v \in Vars, v \notin frozen \cup VarsOf(assumptions),
           NEW kind \in {"eliminated", "pure"},
           NEW gone, Counted(gone),
           \A c \in Irredundant : v \in VarsOf(c.lits) => c \in DOMAIN gone /\ gone[c] = db[c],
           NEW new, BagOver(new, ClauseSet),
           \A c \in DOMAIN new : Lasts(c, status, Late) /\ v \notin VarsOf(c.lits),
           NEW entries \in Seq(Entries),
           RewriteOver(F, [status EXCEPT ![v] = kind], gone, new, {}, entries)
    PROVE  Kept'
<1>1. PICK base : base = [status EXCEPT ![v] = kind]
  OBVIOUS
<1>2. base \in [Vars -> Statuses] /\ base[v] = kind /\ \A w \in Vars \ {v} : base[w] = status[w]
  BY <1>1 DEF Kept, Typed, Statuses
<1>3. /\ Typed'
      /\ frozen' = frozen /\ assumptions' = assumptions
      /\ ~unsat' => ~unsat
      /\ \A w \in Vars : \/ status'[w] = base[w] \/ status'[w] = "fixed"
                         \/ unsat' /\ status'[w] = status[w]
      /\ \A c \in DOMAIN db' : \/ c \in DOMAIN new
                               \/ c \in Clauses /\ (c \in DOMAIN gone => gone[c] # db[c])
  <2>1. Typed
    BY DEF Kept
  <2>2. PICK U : U = {}
    OBVIOUS
  <2>3. U \in SUBSET Lits /\ RewriteOver(F, base, gone, new, U, entries)
    BY <1>1, <2>2
  <2>4. base \in [Vars -> Statuses]
    BY <1>2
  <2>5. Typed' /\ Rewritten(base, gone, new)
    BY <2>1, <2>3, <2>4, RewriteStep
  <2>6. QED
    BY <2>5 DEF Rewritten
<1>4. FrozenKept'
  <2>1. \A l \in frozen \cup assumptions : VarOf(l) \in Vars /\ VarOf(l) # v
    BY LitFacts DEF Kept, Typed, VarsOf
  <2>2. QED
    BY <1>2, <1>3, <2>1 DEF Kept, FrozenKept
<1>5. ClausesLast'
  <2> SUFFICES ASSUME ~unsat', NEW c \in DOMAIN db' PROVE Lasts(c, status', Late)
    BY DEF ClausesLast, Clauses, BagToSet, Late
  <2>1. \A w \in Vars : status'[w] = base[w] \/ status'[w] = "fixed"
    BY <1>3
  <2>2. c \in ClauseSet
    BY <1>3 DEF Typed, BagOver
  <2>3. Lasts(c, base, Late)
    <3>1. Lasts(c, status, Late) /\ (c.redundant \/ v \notin VarsOf(c.lits))
      <4>1. CASE c \in DOMAIN new
        BY <4>1
      <4>2. CASE c \in Clauses /\ (c \in DOMAIN gone => gone[c] # db[c])
        BY <4>2, ClauseFacts DEF Irredundant
      <4>3. QED
        BY <1>3, <4>1, <4>2
    <3>2. \A l \in c.lits : VarOf(l) \in Vars
      BY <2>2, LitFacts DEF ClauseSet
    <3>3. \A l \in c.lits : base[VarOf(l)] = status[VarOf(l)]
                            \/ (base[VarOf(l)] \in {"eliminated", "pure"} /\ c.redundant)
      BY <1>2, <3>1, <3>2 DEF VarsOf
    <3>4. QED
      BY <3>1, <3>3 DEF Lasts
  <2>4. QED
    BY <2>1, <2>2, <2>3, LastsOn
<1>6. QED
  BY <1>3, <1>4, <1>5 DEF Kept

\* The clauses of a variable are those of its two literals.
LEMMA ClausesOfVariable ==
    ASSUME Kept, NEW p \in Lits, NEW c \in Irredundant
    PROVE  /\ VarOf(p) \in VarsOf(c.lits) <=> c \in Occurring(p) \cup Occurring(-p)
           /\ c \in Clauses
<1>1. c \in Clauses
  BY DEF Irredundant
<1>2. \A l \in c.lits : l \in Lits
  BY <1>1, ClauseFacts
<1>3. \A l \in Lits : VarOf(l) = VarOf(p) <=> (l = p \/ l = -p)
  BY LitFacts
<1>4. QED
  BY <1>1, <1>2, <1>3 DEF Occurring, VarsOf

LEMMA EntriesOf ==
    ASSUME Kept, NEW S \in SUBSET Clauses, NEW l \in Lits
    PROVE  SetToSeq({Entry({l}, c.lits) : c \in S}) \in Seq(Entries)
<1> DEFINE E == {Entry({l}, c.lits) : c \in S}
           g == [c \in S |-> Entry({l}, c.lits)]
<1>1. g \in Surjection(S, E)
  BY DEF Surjection
<1>2. E \subseteq Entries
  <2>1. \A c \in S : c.lits \in SUBSET Lits /\ {l} \in SUBSET Lits
    BY ClauseFacts
  <2>2. QED
    BY <2>1, EntryTyped
<1>3. IsFiniteSet(S)
  <2>1. S \in SUBSET ClauseSet
    BY ClauseFacts
  <2>2. QED
    BY <2>1, ClauseSetFinite
<1> HIDE DEF E, g
<1>4. IsFiniteSet(E)
  BY <1>1, <1>3, FS_Surjection
<1>5. SetToSeq(E) \in Seq(Entries)
  BY <1>2, <1>4, OrderedSet
<1>6. QED
  BY <1>5 DEF E

LEMMA NotReferred ==
    ASSUME Kept, NEW p \in Lits, ~Frozen(p)
    PROVE  VarOf(p) \in Vars /\ VarOf(p) \notin frozen \cup VarsOf(assumptions)
BY LitFacts DEF Frozen

LEMMA KeptByPure == Kept /\ ~unsat /\ BlockPureLiteral => Kept'
<1> SUFFICES ASSUME Kept, ~unsat, BlockPureLiteral PROVE Kept'
  OBVIOUS
<1>1. PICK l \in Lits :
        /\ Blockable(l)
        /\ Occurring(-l) = {}
        /\ RewriteOver({}, [status EXCEPT ![VarOf(l)] = "pure"],
                       CopiesOf(Occurring(l)), EmptyBag, {},
                       SetToSeq({Entry({l}, c.lits) : c \in Occurring(l)}))
  BY DEF BlockPureLiteral
<1>2. PICK v : v = VarOf(l)
  OBVIOUS
<1>3. PICK entries : entries = SetToSeq({Entry({l}, c.lits) : c \in Occurring(l)})
  OBVIOUS
<1>4. PICK gone : gone = CopiesOf(Occurring(l))
  OBVIOUS
<1>5. RewriteOver({}, [status EXCEPT ![v] = "pure"], gone, EmptyBag, {}, entries)
  BY <1>1, <1>2, <1>3, <1>4
<1>6. Late /\ phase' = phase /\ ~Frozen(l)
  BY <1>1 DEF BlockPureLiteral, Blockable, Late
<1>7. v \in Vars /\ v \notin frozen \cup VarsOf(assumptions)
  BY <1>2, <1>6, NotReferred
<1>8. Occurring(l) \in SUBSET Clauses
  BY DEF Occurring, Irredundant
<1>9. entries \in Seq(Entries)
  BY <1>3, <1>8, EntriesOf
<1>10. Counted(gone) /\ \A c \in Occurring(l) : c \in DOMAIN gone /\ gone[c] = db[c]
  BY <1>4, <1>8, CopiesCounted
<1>11. \A c \in Irredundant : v \in VarsOf(c.lits) => c \in DOMAIN gone /\ gone[c] = db[c]
  BY <1>1, <1>2, <1>10, ClausesOfVariable
<1>12. BagOver(EmptyBag, ClauseSet) /\ DOMAIN EmptyBag = {}
  BY EmptyBagFacts
<1>13. {} \in SUBSET SUBSET Lits
  OBVIOUS
<1>14. QED
  BY <1>5, <1>6, <1>7, <1>9, <1>10, <1>11, <1>12, <1>13, TakesVariable

LEMMA KeptByEliminate == Kept /\ ~unsat /\ EliminateVariable => Kept'
<1> SUFFICES ASSUME Kept, ~unsat, EliminateVariable PROVE Kept'
  OBVIOUS
<1> DEFINE Goes(p, G) ==
      RewriteOver({}, [status EXCEPT ![VarOf(p)] = "eliminated"],
                  CopiesOf(Occurring(p) \cup Occurring(-p)),
                  EmptyBag, {}, Removed(p, G))
<1>1. PICK p \in Lits : Pivot(p) /\ Goes(p, attempt.gate)
  BY ElimFacts DEF EliminateVariable
<1>2. PICK G : G = attempt.gate
  OBVIOUS
<1>3. PICK v : v = VarOf(p)
  OBVIOUS
<1>4. PICK gone : gone = CopiesOf(Occurring(p) \cup Occurring(-p))
  OBVIOUS
<1>5. PICK entries : entries = Removed(p, G)
  OBVIOUS
<1>6. RewriteOver({}, [status EXCEPT ![v] = "eliminated"], gone, EmptyBag, {}, entries)
  BY <1>1, <1>2, <1>3, <1>4, <1>5
<1>7. Late /\ phase' = phase /\ ~Frozen(p)
  BY <1>1, ElimFacts DEF EliminateVariable, Pivot, Late
<1>8. v \in Vars /\ v \notin frozen \cup VarsOf(assumptions)
  BY <1>3, <1>7, NotReferred
<1>9. Occurring(p) \cup Occurring(-p) \in SUBSET Clauses
  BY ElimFacts
<1>10. Counted(gone)
       /\ \A c \in Occurring(p) \cup Occurring(-p) : c \in DOMAIN gone /\ gone[c] = db[c]
  BY <1>4, <1>9, CopiesCounted
<1>11. \A c \in Irredundant : v \in VarsOf(c.lits) => c \in DOMAIN gone /\ gone[c] = db[c]
  BY <1>3, <1>10, ClausesOfVariable
<1>12. BagOver(EmptyBag, ClauseSet) /\ DOMAIN EmptyBag = {} /\ {} \in SUBSET SUBSET Lits
  BY EmptyBagFacts
<1>13. entries \in Seq(Entries)
  <2> DEFINE Saved(l) == IF G = {} THEN Occurring(l) ELSE Occurring(l) \cap G
             Listed(l) == SetToSeq({Entry({l}, c.lits) : c \in Saved(l)})
  <2>1. ASSUME NEW l \in Lits PROVE Listed(l) \in Seq(Entries)
    <3>1. Saved(l) \in SUBSET Clauses
      BY ElimFacts
    <3> HIDE DEF Saved
    <3>2. QED
      BY <3>1, EntriesOf
  <2>2. entries = Listed(p) \o Listed(-p)
    BY <1>5 DEF Removed
  <2> HIDE DEF Listed
  <2>3. -p \in Lits
    BY LitFacts
  <2>4. Listed(p) \in Seq(Entries) /\ Listed(-p) \in Seq(Entries)
    BY <2>1, <2>3
  <2>5. QED
    BY <2>2, <2>4, ConcatProperties
<1>14. QED
  BY <1>6, <1>7, <1>8, <1>10, <1>11, <1>12, <1>13, TakesVariable

\* A run of cover_clause.
Runs == [added : SUBSET Lits, covered : SUBSET Lits, extend : Seq(Entries),
         tautological : BOOLEAN]

LEMMA CoverStepTyped ==
    ASSUME Kept, NEW c \in Clauses, NEW run \in Runs
    PROVE  CoverStep(c, run) \subseteq Runs
<1> DEFINE A == Asymmetric(c, run.added)
           hidden == Conflicting(LitsOf(OtherIrredundant(c)), Negated(A))
           extended(l) == Append(run.extend, Entry({l}, run.covered))
           usable == {l \in run.covered : ~Frozen(l)}
           Adds(l) == Intersection(Candidates(l, A))
           hides == [run EXCEPT !.added = A, !.tautological = TRUE]
           Blocks(l) == [run EXCEPT !.added = A, !.extend = extended(l), !.tautological = TRUE]
           Extends(l) == [run EXCEPT !.added = A \cup Adds(l), !.covered = @ \cup Adds(l),
                                     !.extend = extended(l)]
<1>1. /\ run.added \in SUBSET Lits /\ run.covered \in SUBSET Lits
      /\ run.extend \in Seq(Entries) /\ run.tautological \in BOOLEAN
  BY DEF Runs
<1>2. A \in SUBSET Lits
  <2>1. LitsOf(OtherIrredundant(c)) \in SUBSET SUBSET Lits
    <3>1. OtherIrredundant(c) \subseteq Clauses
      BY DEF OtherIrredundant, Others, (-), BagToSet, Clauses
    <3>2. QED
      BY <3>1, ClauseFacts DEF LitsOf
  <2>2. \A S \in SUBSET Lits : Negated(S) \in SUBSET Lits
    BY LitFacts DEF Negated
  <2>3. Propagated(LitsOf(OtherIrredundant(c)), Negated(run.added)) \in SUBSET Lits
    BY <1>1, <2>1, <2>2, PropagatedLits
  <2>4. QED
    BY <2>2, <2>3 DEF Asymmetric
<1>3. \A l : Adds(l) \in SUBSET Lits
  <2> SUFFICES ASSUME NEW l, NEW k \in Adds(l) PROVE k \in Lits
    OBVIOUS
  <2>1. PICK C \in Candidates(l, A) : k \in C
    BY DEF Intersection
  <2>2. PICK d \in Occurring(-l) : C = d.lits \ ({-l} \cup A)
    BY <2>1 DEF Candidates
  <2>3. d \in Clauses
    BY DEF Occurring, Irredundant
  <2>4. QED
    BY <2>1, <2>2, <2>3, ClauseFacts
<1>4. \A l \in usable : extended(l) \in Seq(Entries)
  <2> SUFFICES ASSUME NEW l \in usable PROVE extended(l) \in Seq(Entries)
    OBVIOUS
  <2>1. {l} \in SUBSET Lits
    BY <1>1
  <2>2. Entry({l}, run.covered) \in Entries
    BY <1>1, <2>1, EntryTyped
  <2>3. QED
    BY <1>1, <2>2, AppendProperties
<1>5. \A r \in CoverStep(c, run) :
        r = run \/ r = hides \/ \E l \in usable : r = Blocks(l) \/ r = Extends(l)
  BY DEF CoverStep
<1> HIDE DEF A, usable, extended, Adds
<1>6. hides \in Runs
  BY <1>2 DEF Runs
<1>7. ASSUME NEW l \in usable PROVE Blocks(l) \in Runs /\ Extends(l) \in Runs
  <2>1. /\ extended(l) \in Seq(Entries) /\ A \cup Adds(l) \in SUBSET Lits
        /\ run.covered \cup Adds(l) \in SUBSET Lits
    BY <1>1, <1>2, <1>3, <1>4
  <2>2. QED
    BY <1>2, <2>1 DEF Runs
<1> HIDE DEF hides, Blocks, Extends
<1>8. QED
  BY <1>5, <1>6, <1>7

LEMMA CoverRunsTyped ==
    ASSUME Kept, NEW c \in Clauses
    PROVE  CoverRuns(c) \subseteq Runs
<1> DEFINE start == [added |-> Current(c) \cup Negated(fixed), covered |-> Current(c),
                     extend |-> << >>, tautological |-> FALSE]
           N == 2 * Cardinality(Vars)
           After(S) == UNION {CoverStep(c, r) : r \in S}
           IsRuns(f) == f = [n \in 0..N |-> IF n = 0 THEN {start} ELSE After(f[n - 1])]
           step == [x \in (1..N) \X SUBSET Runs |-> After(x[2])]
<1>1. N \in Nat
  BY VarsAssumption, FS_CardinalityType
<1>2. start \in Runs
  <2>1. Current(c) \in SUBSET Lits /\ Negated(fixed) \in SUBSET Lits
    BY ClauseFacts, LitFacts DEF Kept, Typed, Negated
  <2>2. << >> \in Seq(Entries)
    OBVIOUS
  <2>3. QED
    BY <2>1, <2>2 DEF Runs
<1>3. \A S \in SUBSET Runs : After(S) \in SUBSET Runs
  BY CoverStepTyped
<1>4. \A n \in 1..N, S \in SUBSET Runs : step[<<n, S>>] = After(S)
  OBVIOUS
<1> HIDE DEF start, N, After, step
<1>5. \E f : IsRuns(f)
  <2>1. SteppingTo(N, SUBSET Runs, step) /\ {start} \in SUBSET Runs
    BY <1>2, <1>3, <1>4 DEF SteppingTo
  <2>2. PICK f \in [0..N -> SUBSET Runs] : FollowsTo(f, N, {start}, step)
    BY <1>1, <2>1, FiniteRecursion
  <2>3. \A n \in 0..N : n # 0 => step[<<n, f[n - 1]>>] = After(f[n - 1])
    <3> SUFFICES ASSUME NEW n \in 0..N, n # 0 PROVE step[<<n, f[n - 1]>>] = After(f[n - 1])
      OBVIOUS
    <3>1. n \in 1..N /\ n - 1 \in 0..N
      BY <1>1
    <3>2. f[n - 1] \in SUBSET Runs
      BY <3>1
    <3>3. QED
      BY <1>4, <3>1, <3>2
  <2>4. IsRuns(f)
    BY <2>2, <2>3 DEF FollowsTo
  <2>5. QED
    BY <2>4
<1>6. PICK g : g = CHOOSE f : IsRuns(f)
  OBVIOUS
<1>7. IsRuns(g)
  <2> HIDE DEF IsRuns
  <2>1. QED
    BY <1>5, <1>6
<1>8. \A n \in 0..N : g[n] \in SUBSET Runs
  <2>1. \A n \in 0..N : g[n] = IF n = 0 THEN {start} ELSE After(g[n - 1])
    <3> DEFINE h == [n \in 0..N |-> IF n = 0 THEN {start} ELSE After(g[n - 1])]
    <3>1. g = h
      BY <1>7
    <3>2. \A n \in 0..N : h[n] = IF n = 0 THEN {start} ELSE After(g[n - 1])
      OBVIOUS
    <3> HIDE DEF h
    <3>3. QED
      BY <3>1, <3>2
  <2>2. g[0] \in SUBSET Runs
    <3>1. 0 \in 0..N
      BY <1>1
    <3>2. QED
      BY <1>2, <2>1, <3>1
  <2>3. ASSUME NEW n \in 1..N, g[n - 1] \in SUBSET Runs PROVE g[n] \in SUBSET Runs
    <3>1. n \in 0..N /\ n # 0
      BY <1>1
    <3>2. g[n] = After(g[n - 1])
      BY <2>1, <3>1
    <3>3. QED
      BY <1>3, <2>3, <3>2
  <2>4. PassesAlong(N, SUBSET Runs, g)
    BY <2>2, <2>3 DEF PassesAlong
  <2> HIDE DEF IsRuns
  <2>5. QED
    BY <1>1, <2>4, FiniteInduct
<1>9. CoverRuns(c) = {r \in g[N] : r.tautological}
  BY <1>6 DEF CoverRuns, IsRuns, start, N, After
<1>10. N \in 0..N
  BY <1>1
<1>11. QED
  BY <1>8, <1>9, <1>10

LEMMA KeptByCover == Kept /\ ~unsat /\ CoverClause => Kept'
<1> SUFFICES ASSUME Kept, ~unsat, CoverClause PROVE Kept'
  OBVIOUS
<1>1. PICK c \in Irredundant : \E run \in CoverRuns(c) :
        Rewrite(One(c), EmptyBag, {}, run.extend)
  BY DEF CoverClause
<1>2. PICK run \in CoverRuns(c) : Rewrite(One(c), EmptyBag, {}, run.extend)
  BY <1>1
<1>3. run.extend \in Seq(Entries)
  <2>1. c \in Clauses
    BY DEF Irredundant
  <2>2. QED
    BY <2>1, CoverRunsTyped DEF Runs
<1>4. Harmless(EmptyBag, {}, run.extend)
  <2>1. {} \in SUBSET Lits
    OBVIOUS
  <2>2. QED
    BY <1>3, <2>1, NothingNew
<1>5. QED
  BY <1>2, <1>4, FewCounted, KeepsByRewrite DEF CoverClause

--------------------------------------------------------------------------------
(* Equivalent literals                                                     *)

LEMMA ReachOn ==
    ASSUME NEW B, NEW l \in Lits, NEW k \in Reach(B, l)
    PROVE  k \in Lits /\ Reach(B, k) \subseteq Reach(B, l)
<1>1. Reach(B, l) \in SUBSET Lits /\ Step(B, Reach(B, l)) = Reach(B, l)
  BY ReachFacts
<1>2. k \in Lits
  BY <1>1
<1>3. QED
  BY <1>1, <1>2, ReachFacts

\* An implication holds for the negations in the other direction.
LEMMA ReachBack ==
    ASSUME NEW B, NEW l \in Lits, NEW k \in Reach(B, l)
    PROVE  -l \in Reach(B, -k)
<1> DEFINE C == {x \in Lits : -l \in Reach(B, -x)}
<1>1. -l \in Lits /\ -l \in Reach(B, -l)
  BY LitFacts, ReachFacts
<1>2. l \in C /\ C \in SUBSET Lits
  BY <1>1
<1>3. ASSUME NEW x \in Step(B, C) PROVE x \in C
  <2>1. CASE x \in C
    BY <2>1
  <2>2. CASE x \notin C
    <3>1. x \in Lits /\ \E y \in C \ {-x} : {-y, x} \in B
      BY <2>2, <1>3 DEF Step
    <3>2. PICK y \in C : y # -x /\ {-y, x} \in B
      BY <3>1
    <3>3. /\ y \in Lits /\ -x \in Lits /\ -y \in Lits /\ -(-x) = x /\ -(-y) = y
          /\ -l \in Reach(B, -y)
      BY <3>1, <3>2, LitFacts
    <3>4. {-(-x), -y} \in B /\ -x # -(-y)
      <4>1. {-y, x} = {x, -y}
        OBVIOUS
      <4>2. QED
        BY <3>2, <3>3, <4>1
    <3>5. -x \in Reach(B, -x) /\ Step(B, Reach(B, -x)) = Reach(B, -x)
      BY <3>3, ReachFacts
    <3>6. -y \in Step(B, Reach(B, -x))
      BY <3>3, <3>4, <3>5 DEF Step
    <3>7. -y \in Reach(B, -x)
      BY <3>5, <3>6
    <3>8. Reach(B, -y) \subseteq Reach(B, -x)
      BY <3>3, <3>7, ReachOn
    <3>9. QED
      BY <3>1, <3>3, <3>8
  <2>3. QED
    BY <2>1, <2>2
<1>4. Step(B, C) = C
  <2>1. C \subseteq Step(B, C)
    BY DEF Step
  <2>2. QED
    BY <1>3, <2>1
<1> HIDE DEF C
<1>5. Reach(B, l) \subseteq C
  BY <1>2, <1>4, ReachFacts
<1>6. QED
  BY <1>5 DEF C

\* What an active literal implies by active clauses is active.
LEMMA ReachActive ==
    ASSUME NEW l \in Lits, Active(l), NEW k \in Reach(ActiveBinary, l)
    PROVE  Active(k)
<1> DEFINE C == {x \in Lits : Active(x)}
<1>1. Step(ActiveBinary, C) = C
  <2>1. C \subseteq Step(ActiveBinary, C)
    BY DEF Step
  <2>2. ASSUME NEW x \in Step(ActiveBinary, C) PROVE x \in C
    <3>1. x \in C \/ (x \in Lits /\ \E y \in C \ {-x} : {-y, x} \in ActiveBinary)
      BY <2>2 DEF Step
    <3>2. ASSUME NEW y \in C, {-y, x} \in ActiveBinary PROVE Active(x)
      <4>1. PICK d \in Clauses : d.lits = {-y, x} /\ \A z \in d.lits : Active(z)
        BY <3>2 DEF ActiveBinary
      <4>2. QED
        BY <4>1
    <3>3. QED
      BY <3>1, <3>2
  <2>3. QED
    BY <2>1, <2>2
<1>2. l \in C /\ C \in SUBSET Lits
  OBVIOUS
<1> HIDE DEF C
<1>3. Reach(ActiveBinary, l) \subseteq C
  BY <1>1, <1>2, ReachFacts
<1>4. QED
  BY <1>3 DEF C

LEMMA ComponentFacts ==
    ASSUME NEW l \in Lits
    PROVE  /\ l \in Component(l) /\ Component(l) \in SUBSET Lits
           /\ \A k \in Component(l) : Component(k) = Component(l) /\ l \in Component(k)
           /\ \A k \in Component(l) : -k \in Component(-l)
           /\ Active(l) => \A k \in Component(l) : Active(k)
<1> DEFINE B == ActiveBinary
<1>1. l \in Component(l) /\ Component(l) \in SUBSET Lits
  BY ReachFacts DEF Component
<1>2. ASSUME NEW k \in Component(l) PROVE Component(k) = Component(l) /\ l \in Component(k)
  <2>1. k \in Lits /\ k \in Reach(B, l) /\ l \in Reach(B, k)
    BY <1>1 DEF Component
  <2>2. Reach(B, k) = Reach(B, l)
    <3>1. Reach(B, k) \subseteq Reach(B, l)
      BY <2>1, ReachOn
    <3>2. Reach(B, l) \subseteq Reach(B, k)
      BY <2>1, ReachOn
    <3>3. QED
      BY <3>1, <3>2
  <2>3. \A x \in Reach(B, l) : l \in Reach(B, x) <=> k \in Reach(B, x)
    <3> SUFFICES ASSUME NEW x \in Reach(B, l) PROVE l \in Reach(B, x) <=> k \in Reach(B, x)
      OBVIOUS
    <3>1. x \in Lits
      BY ReachOn
    <3>2. l \in Reach(B, x) => Reach(B, l) \subseteq Reach(B, x)
      BY <3>1, ReachOn
    <3>3. k \in Reach(B, x) => Reach(B, k) \subseteq Reach(B, x)
      BY <3>1, ReachOn
    <3>4. QED
      BY <2>1, <2>2, <3>2, <3>3
  <2>4. Component(k) = Component(l)
    BY <2>2, <2>3 DEF Component
  <2>5. QED
    BY <1>1, <2>4
<1>3. ASSUME NEW k \in Component(l) PROVE -k \in Component(-l)
  <2>1. k \in Lits /\ k \in Reach(B, l) /\ l \in Reach(B, k)
    BY <1>1 DEF Component
  <2>2. -l \in Reach(B, -k) /\ -k \in Reach(B, -l)
    BY <2>1, ReachBack
  <2>3. QED
    BY <2>2 DEF Component
<1>4. ASSUME Active(l), NEW k \in Component(l) PROVE Active(k)
  BY <1>4, ReachActive DEF Component
<1>5. QED
  BY <1>1, <1>2, <1>3, <1>4

\* No literal is equivalent to its negation.
Acyclic == \A l \in Lits : Active(l) => -l \notin Component(l)

LEMMA SmallestFacts ==
    ASSUME Acyclic, NEW l \in Lits, Active(l)
    PROVE  /\ Smallest(Component(l)) \in Component(l)
           /\ \A r \in Component(l) : (\A k \in Component(l) : VarOf(r) <= VarOf(k))
                                       => r = Smallest(Component(l))
           /\ \A k \in Component(l) : VarOf(Smallest(Component(l))) <= VarOf(k)
<1> DEFINE S == Component(l)
           V == {VarOf(k) : k \in S}
<1>1. l \in S /\ S \in SUBSET Lits
  BY ComponentFacts
<1>2. \A k \in S : VarOf(k) \in Nat
  BY <1>1, LitFacts
<1>3. PICK m \in V : \A n \in V : m <= n
  <2>1. V \in SUBSET Nat /\ V # {}
    BY <1>1, <1>2
  <2> HIDE DEF V
  <2>2. QED
    BY <2>1, NatLeast
<1>4. PICK r \in S : m = VarOf(r)
  OBVIOUS
<1>5. \A k \in S : VarOf(r) <= VarOf(k)
  BY <1>3, <1>4
<1>6. Smallest(S) \in S /\ \A k \in S : VarOf(Smallest(S)) <= VarOf(k)
  BY <1>5 DEF Smallest
<1>7. ASSUME NEW s \in S, NEW t \in S, VarOf(s) = VarOf(t) PROVE s = t
  <2>1. s \in Lits /\ t \in Lits /\ (s = t \/ s = -t)
    BY <1>1, <1>7, LitFacts
  <2>2. Component(t) = S /\ Active(t)
    BY ComponentFacts
  <2>3. s # -t
    BY <2>1, <2>2 DEF Acyclic
  <2>4. QED
    BY <2>1, <2>3
<1>8. ASSUME NEW s \in S, \A k \in S : VarOf(s) <= VarOf(k) PROVE s = Smallest(S)
  <2>1. VarOf(s) <= VarOf(Smallest(S)) /\ VarOf(Smallest(S)) <= VarOf(s)
    BY <1>6, <1>8
  <2>2. VarOf(s) = VarOf(Smallest(S))
    BY <1>2, <1>6, <2>1
  <2>3. QED
    BY <1>6, <1>7, <2>2
<1>9. QED
  BY <1>6, <1>8

LEMMA ReprFacts ==
    ASSUME Kept, Acyclic, NEW repr, repr = Representatives, NEW l \in Lits
    PROVE  /\ repr[l] \in Lits /\ repr[-l] = -repr[l]
           /\ repr[repr[l]] = repr[l]
           /\ repr[l] = l \/ Active(repr[l])
           /\ Frozen(l) => repr[l] = l
<1>1. \A k \in Lits : repr[k] = IF ~Active(k) \/ Frozen(k) THEN k ELSE Smallest(Component(k))
  BY DEF Representatives
<1>2. /\ -l \in Lits /\ VarOf(-l) = VarOf(l) /\ -(-l) = l
      /\ Active(-l) <=> Active(l)
      /\ Frozen(-l) <=> Frozen(l)
  BY LitFacts DEF Active, Frozen
<1>3. CASE ~Active(l) \/ Frozen(l)
  BY <1>1, <1>2, <1>3
<1>4. CASE Active(l) /\ ~Frozen(l)
  <2>1. PICK r : r = Smallest(Component(l))
    OBVIOUS
  <2>2. /\ r \in Component(l) /\ r \in Lits /\ Active(r)
        /\ \A k \in Component(l) : VarOf(r) <= VarOf(k)
        /\ repr[l] = r
    BY <1>1, <1>4, <2>1, SmallestFacts, ComponentFacts
  <2>3. repr[r] = r
    <3>1. Component(r) = Component(l)
      BY <2>2, ComponentFacts
    <3>2. QED
      BY <1>1, <2>1, <2>2, <3>1
  <2>4. repr[-l] = -r
    <3>1. -r \in Component(-l) /\ VarOf(-r) = VarOf(r)
      BY <2>2, ComponentFacts, LitFacts
    <3>2. ASSUME NEW k \in Component(-l) PROVE VarOf(-r) <= VarOf(k)
      <4>1. -k \in Component(l) /\ k \in Lits
        BY <1>2, ComponentFacts
      <4>2. VarOf(-k) = VarOf(k)
        BY <4>1, LitFacts
      <4>3. QED
        BY <2>2, <3>1, <4>1, <4>2
    <3>3. -r = Smallest(Component(-l))
      BY <1>2, <1>4, <3>1, <3>2, SmallestFacts
    <3>4. QED
      BY <1>1, <1>2, <1>4, <3>3
  <2>5. QED
    BY <1>4, <2>2, <2>3, <2>4
<1>5. QED
  BY <1>3, <1>4

\* A variable goes when its literals have others for them; no representative does.
LEMMA GoneFacts ==
    ASSUME Kept, Acyclic, NEW repr, repr = Representatives, NEW l \in Lits
    PROVE  /\ repr[VarOf(l)] # VarOf(l) <=> repr[l] # l
           /\ repr[VarOf(repr[l])] = VarOf(repr[l])
<1>1. \A k \in Lits : repr[VarOf(k)] # VarOf(k) <=> repr[k] # k
  <2> SUFFICES ASSUME NEW k \in Lits PROVE repr[VarOf(k)] # VarOf(k) <=> repr[k] # k
    OBVIOUS
  <2>1. PICK v : v = VarOf(k)
    OBVIOUS
  <2>2. v \in Lits /\ (k = v \/ k = -v)
    BY <2>1, LitFacts
  <2>3. repr[v] \in Lits /\ repr[-v] = -repr[v]
    BY <2>2, ReprFacts
  <2>4. -repr[v] = -v <=> repr[v] = v
    BY <2>2, <2>3, LitFacts
  <2>5. QED
    BY <2>1, <2>2, <2>3, <2>4
<1>2. repr[l] \in Lits /\ repr[repr[l]] = repr[l]
  BY ReprFacts
<1>3. QED
  BY <1>1, <1>2

LEMMA NatGreatest ==
    ASSUME NEW S \in SUBSET Nat, IsFiniteSet(S), S # {}
    PROVE  Max(S) \in S /\ \A x \in S : x <= Max(S)
<1>1. Cardinality(S) \in Nat /\ ExistsBijection(1..Cardinality(S), S)
  BY FS_CardinalityType
<1>2. PICK N \in Nat : N = Cardinality(S)
  BY <1>1
<1>3. PICK f \in [1..N -> S] : \A x \in S : \E i \in 1..N : f[i] = x
  BY <1>1, <1>2 DEF ExistsBijection, Bijection, Surjection
<1> DEFINE Bounds(n, b) == \A i \in 1..n : f[i] <= b
           B == {n \in Nat : n \in 0..N => \E b \in Nat : Bounds(n, b)}
<1>4. 0 \in B
  <2>1. Bounds(0, 0)
    OBVIOUS
  <2>2. QED
    BY <2>1
<1>5. ASSUME NEW n \in Nat, n \in B PROVE n + 1 \in B
  <2> SUFFICES ASSUME n + 1 \in 0..N PROVE \E b \in Nat : Bounds(n + 1, b)
    OBVIOUS
  <2>1. n \in 0..N /\ n + 1 \in 1..N
    BY <1>2
  <2>2. PICK b \in Nat : Bounds(n, b)
    BY <1>5, <2>1
  <2>3. f[n + 1] \in Nat
    BY <1>3, <2>1
  <2>4. PICK d \in Nat : b <= d /\ f[n + 1] <= d
    BY <2>3
  <2>5. ASSUME NEW i \in 1..(n + 1) PROVE f[i] <= d
    <3>1. CASE i = n + 1
      BY <2>4, <3>1
    <3>2. CASE i # n + 1
      <4>1. i \in 1..n /\ i \in 1..N
        BY <2>1, <3>2
      <4>2. f[i] <= b /\ f[i] \in Nat
        BY <1>3, <2>2, <4>1
      <4>3. QED
        BY <2>4, <4>2
    <3>3. QED
      BY <3>1, <3>2
  <2>6. QED
    BY <2>5
<1>6. \E b \in Nat : Bounds(N, b)
  <2> HIDE DEF Bounds
  <2>1. \A n \in Nat : n \in B
    <3> HIDE DEF B
    <3>1. QED
      BY <1>4, <1>5, NatInduct
  <2>2. N \in 0..N
    BY <1>2
  <2>3. QED
    BY <2>1, <2>2
<1> DEFINE C == {b \in Nat : \A x \in S : x <= b}
<1>7. C \in SUBSET Nat /\ C # {}
  BY <1>3, <1>6
<1>8. PICK m \in C : \A b \in C : m <= b
  <2> HIDE DEF C
  <2>1. QED
    BY <1>7, NatLeast
<1>9. m \in S
  <2> SUFFICES ASSUME m \notin S PROVE FALSE
    OBVIOUS
  <2>1. \A x \in S : x <= m - 1
    OBVIOUS
  <2>2. PICK x \in S : x <= m - 1
    BY <2>1
  <2>3. m - 1 \in Nat
    BY <2>2
  <2>4. m - 1 \in C
    BY <2>1, <2>3
  <2>5. QED
    BY <1>8, <2>3, <2>4
<1>10. Max(S) \in S /\ \A x \in S : x <= Max(S)
  <2>1. \E x \in S : \A y \in S : x >= y
    BY <1>9
  <2>2. QED
    BY <2>1 DEF Max
<1>11. QED
  BY <1>10

\* One sequence after the other.
LEMMA FlattenTyped ==
    ASSUME NEW T, NEW seqs \in Seq(Seq(T))
    PROVE  FlattenSeq(seqs) \in Seq(T)
<1>1. PICK f : Joins(f, seqs, T)
  BY Joined
<1>2. Len(seqs) \in 0..Len(seqs)
  BY LenProperties
<1>3. f[Len(seqs)] \in Seq(T) /\ Seqs!FlattenSeq(seqs) = f[Len(seqs)]
  BY <1>1, <1>2 DEF Joins
<1>4. FlattenSeq(seqs) = Seqs!FlattenSeq(seqs)
  BY DEF FlattenSeq, Seqs!FlattenSeq
<1>5. QED
  BY <1>3, <1>4

LEMMA KeptByDecomposeConflict == Kept /\ ~unsat /\ DecomposeConflict => Kept'
<1> SUFFICES ASSUME Kept, ~unsat, DecomposeConflict PROVE Kept'
  OBVIOUS
<1>1. PICK l \in Lits : LearnUnit(l)
  BY DEF DecomposeConflict
<1>2. QED
  BY <1>1, KeepsByLearnUnit DEF DecomposeConflict

LEMMA EquivalencesTyped ==
    ASSUME Kept, Vars # {}, NEW S, NEW repr, \A v \in S : repr[v] \in Lits, S \in SUBSET Vars
    PROVE  FlattenSeq([v \in 1..Max(Vars) |->
                          IF v \in S THEN EquivalenceEntries(v, repr[v]) ELSE << >>])
             \in Seq(Entries)
<1>1. Max(Vars) \in Nat
  BY VarsAssumption, NatGreatest
<1>2. ASSUME NEW v \in S PROVE EquivalenceEntries(v, repr[v]) \in Seq(Entries)
  <2>1. v \in Lits /\ -v \in Lits /\ repr[v] \in Lits /\ -repr[v] \in Lits
    BY LitFacts
  <2>2. PICK a : a = Entry({-v}, {-v, repr[v]})
    OBVIOUS
  <2>3. PICK b : b = Entry({v}, {v, -repr[v]})
    OBVIOUS
  <2>4. a \in Entries /\ b \in Entries
    BY <2>1, <2>2, <2>3 DEF Entry, Entries
  <2>5. QED
    BY <2>2, <2>3, <2>4 DEF EquivalenceEntries
<1>3. PICK seqs : seqs = [v \in 1..Max(Vars) |->
                             IF v \in S THEN EquivalenceEntries(v, repr[v]) ELSE << >>]
  OBVIOUS
<1>4. seqs \in Seq(Seq(Entries))
  <2>1. << >> \in Seq(Entries)
    OBVIOUS
  <2>2. seqs \in [1..Max(Vars) -> Seq(Entries)]
    BY <1>2, <1>3, <2>1
  <2>3. QED
    BY <1>1, <2>2, IsASeq
<1>5. QED
  BY <1>3, <1>4, FlattenTyped

\* The clauses that decompose_round makes of those it changes.
Substituting(repr, rest, large, new) ==
    /\ rest \subseteq {c \in Clauses : ~Tautological(Substituted(repr, c))}
    /\ large \subseteq rest
    /\ new = Image(LAMBDA c : Clause(Substituted(repr, c), c.redundant), CopiesOf(large))

LEMMA SubstitutedFacts ==
    ASSUME Kept, ~unsat, ~Late, Acyclic, NEW repr, repr = Representatives,
           NEW rest, NEW large, NEW new, Substituting(repr, rest, large, new)
    PROVE  /\ \A c \in rest : Substituted(repr, c) \in SUBSET Lits
           /\ BagOver(new, ClauseSet)
           /\ \A d \in DOMAIN new :
                /\ ~Tautological(d.lits)
                /\ \A l \in d.lits : /\ status[VarOf(l)] \in {"active", "fixed"}
                                     /\ repr[VarOf(l)] = VarOf(l)
<1>1. ASSUME NEW c \in Clauses
      PROVE  /\ Substituted(repr, c) \in SUBSET Lits
             /\ \A l \in Substituted(repr, c) : /\ status[VarOf(l)] \in {"active", "fixed"}
                                                /\ repr[VarOf(l)] = VarOf(l)
  <2>1. Current(c) \subseteq c.lits /\ c.lits \subseteq Lits /\ Lasts(c, status, Late)
    BY ClauseFacts
  <2>2. ASSUME NEW l \in Substituted(repr, c)
        PROVE  /\ l \in Lits /\ status[VarOf(l)] \in {"active", "fixed"}
               /\ repr[VarOf(l)] = VarOf(l)
    <3>1. PICK k \in Current(c) : l = repr[k]
      BY DEF Substituted
    <3>2. k \in c.lits /\ k \in Lits
      BY <2>1
    <3>3. l \in Lits /\ (l = k \/ Active(l))
      BY <3>1, <3>2, ReprFacts
    <3>4. repr[VarOf(l)] = VarOf(l)
      BY <3>1, <3>2, GoneFacts
    <3>5. status[VarOf(l)] \in {"active", "fixed"}
      BY <2>1, <3>2, <3>3 DEF Lasts, Active
    <3>6. QED
      BY <3>3, <3>4, <3>5
  <2>3. QED
    BY <2>2
<1>2. rest \in SUBSET Clauses /\ large \in SUBSET Clauses
      /\ \A c \in rest : ~Tautological(Substituted(repr, c))
  BY DEF Substituting
<1>3. PICK B : B = CopiesOf(large)
  OBVIOUS
<1>4. DOMAIN B = large /\ \A c \in large : B[c] \in Nat \ {0}
  BY <1>2, <1>3, CopiesCounted, ClauseFacts
<1>5. PICK f : f = [c \in large |-> Clause(Substituted(repr, c), c.redundant)]
  OBVIOUS
<1>6. \A c \in large : /\ f[c] = Clause(Substituted(repr, c), c.redundant)
                       /\ f[c].lits = Substituted(repr, c)
  BY <1>5 DEF Clause
<1>7. \A c \in large : f[c] \in ClauseSet
  <2> SUFFICES ASSUME NEW c \in large PROVE f[c] \in ClauseSet
    OBVIOUS
  <2>1. PICK X : X = Substituted(repr, c)
    OBVIOUS
  <2>2. c.redundant \in BOOLEAN /\ X \in SUBSET Lits /\ f[c] = Clause(X, c.redundant)
    BY <1>1, <1>2, <1>6, <2>1, ClauseFacts
  <2>3. QED
    BY <2>2 DEF Clause, ClauseSet
<1>8. Maps(new, f, B)
  <2> DEFINE G(c) == Clause(Substituted(repr, c), c.redundant)
  <2>1. \A c \in DOMAIN B : f[c] = G(c)
    BY <1>4, <1>6
  <2>2. DOMAIN new = {G(c) : c \in DOMAIN B}
        /\ \A e \in DOMAIN new :
             new[e] = Cardinality(UNION {{c} \X (1..B[c]) : c \in {d \in DOMAIN B : G(d) = e}})
    BY <1>3 DEF Substituting, Image, BagToSet
  <2> HIDE DEF G
  <2>3. {G(c) : c \in DOMAIN B} = {f[c] : c \in DOMAIN B}
    BY <2>1
  <2>4. \A e : {d \in DOMAIN B : G(d) = e} = {d \in DOMAIN B : f[d] = e}
    BY <2>1
  <2>5. QED
    BY <2>2, <2>3, <2>4 DEF Maps
<1>9. BagOver(new, ClauseSet)
  <2>1. IsFiniteSet(large)
    <3>1. large \in SUBSET ClauseSet
      BY <1>2, ClauseFacts
    <3>2. QED
      BY <3>1, ClauseSetFinite
  <2>2. QED
    BY <1>4, <1>7, <1>8, <2>1, ImageBag
<1>10. ASSUME NEW d \in DOMAIN new
       PROVE  /\ ~Tautological(d.lits)
              /\ \A l \in d.lits : /\ status[VarOf(l)] \in {"active", "fixed"}
                                   /\ repr[VarOf(l)] = VarOf(l)
  <2>1. PICK c \in large : d = f[c]
    BY <1>4, <1>8 DEF Maps
  <2>2. d.lits = Substituted(repr, c) /\ c \in rest
    BY <1>6, <2>1 DEF Substituting
  <2>3. QED
    BY <1>1, <1>2, <2>2
<1>11. QED
  BY <1>1, <1>2, <1>9, <1>10

LEMMA KeptByDecomposeRound == Kept /\ ~unsat /\ DecomposeRound => Kept'
<1> SUFFICES ASSUME Kept, ~unsat, DecomposeRound PROVE Kept'
  OBVIOUS
<1>1. Acyclic /\ ~Late /\ phase' = phase
  BY DEF DecomposeRound, Acyclic, Late
<1>2. PICK repr : repr = Representatives
  OBVIOUS
<1>3. PICK gone : gone = {v \in Vars : repr[v] # v}
  OBVIOUS
<1>4. PICK changed : changed = {c \in Clauses : \E l \in c.lits : repr[l] # l}
  OBVIOUS
<1>5. PICK rest : rest = {c \in changed : /\ ~SatisfiedRoot(c)
                                          /\ ~Tautological(Substituted(repr, c))}
  OBVIOUS
<1>6. PICK large : large = {c \in rest : Cardinality(Substituted(repr, c)) > 1}
  OBVIOUS
<1>7. PICK new : new = Image(LAMBDA c : Clause(Substituted(repr, c), c.redundant),
                             CopiesOf(large))
  OBVIOUS
<1>8. PICK F : F = LitsOf(BagToSet((db (-) CopiesOf(changed)) (+) new))
  OBVIOUS
<1>9. PICK units : units = UNION {Substituted(repr, c) : c \in rest \ large}
  OBVIOUS
<1>10. PICK values : values = VarsOf(Propagated(F, fixed \cup units))
  OBVIOUS
<1>11. PICK base : base = [v \in Vars |-> IF v \in gone /\ VarOf(repr[v]) \notin values
                                          THEN "substituted" ELSE status[v]]
  OBVIOUS
<1>12. PICK entries : entries = FlattenSeq([v \in 1..Max(Vars) |->
                                  IF v \in gone \ values
                                  THEN EquivalenceEntries(v, repr[v]) ELSE << >>])
  OBVIOUS
<1>13. gone # {} /\ RewriteOver(F, base, CopiesOf(changed), new, units, entries)
  BY <1>2, <1>3, <1>4, <1>5, <1>6, <1>7, <1>8, <1>9, <1>10, <1>11, <1>12 DEF DecomposeRound
<1>14. Substituting(repr, rest, large, new)
  BY <1>4, <1>5, <1>6, <1>7 DEF Substituting
<1>15. changed \in SUBSET Clauses /\ units \in SUBSET Lits
  BY <1>1, <1>2, <1>4, <1>9, <1>14, SubstitutedFacts
<1>16. BagOver(new, ClauseSet)
       /\ \A d \in DOMAIN new :
            /\ ~Tautological(d.lits)
            /\ \A l \in d.lits : /\ status[VarOf(l)] \in {"active", "fixed"}
                                 /\ repr[VarOf(l)] = VarOf(l)
  BY <1>1, <1>2, <1>14, SubstitutedFacts
<1>17. Counted(CopiesOf(changed)) /\ DOMAIN CopiesOf(changed) = changed
       /\ \A c \in changed : CopiesOf(changed)[c] = db[c]
  BY <1>15, CopiesCounted
<1>18. F \in SUBSET SUBSET Lits
  <2>1. BagOver((db (-) CopiesOf(changed)) (+) new, ClauseSet)
    BY <1>16, <1>17, BagChange DEF Kept, Typed, Counted
  <2>2. QED
    BY <1>8, <2>1 DEF BagOver, BagToSet, LitsOf, ClauseSet
<1>19. base \in [Vars -> Statuses] /\ \A v \in Vars \ gone : base[v] = status[v]
  BY <1>11 DEF Kept, Typed, Statuses
<1>20. \A v \in gone : v \in Vars /\ repr[v] \in Lits
  BY <1>1, <1>2, <1>3, ReprFacts, LitFacts
<1>21. entries \in Seq(Entries)
  <2>1. gone \ values \in SUBSET Vars /\ Vars # {}
    BY <1>3, <1>13
  <2>2. QED
    BY <1>12, <1>20, <2>1, EquivalencesTyped
<1>22. Typed' /\ Rewritten(base, CopiesOf(changed), new)
  BY <1>13, <1>15, <1>16, <1>17, <1>18, <1>19, <1>21, RewriteStep DEF Kept
<1>23. FrozenKept'
  <2>1. ASSUME NEW l \in frozen \cup assumptions
        PROVE  VarOf(l) \in Vars \ gone
    <3>1. l \in Lits /\ VarOf(l) \in Vars /\ VarOf(l) \in Lits /\ VarOf(VarOf(l)) = VarOf(l)
      BY LitFacts DEF Kept, Typed
    <3>2. VarOf(l) \in frozen \cup VarsOf(assumptions)
      <4>1. l \in frozen => VarOf(l) = l
        BY LitFacts DEF Kept, Typed
      <4>2. QED
        BY <4>1 DEF VarsOf
    <3>3. repr[VarOf(l)] = VarOf(l)
      BY <1>1, <1>2, <3>1, <3>2, ReprFacts DEF Frozen
    <3>4. QED
      BY <1>3, <3>1, <3>3
  <2>2. \A l \in frozen \cup assumptions :
          status'[VarOf(l)] \in {status[VarOf(l)], "fixed"}
    BY <1>19, <1>22, <2>1 DEF Rewritten
  <2>3. QED
    BY <1>22, <2>2 DEF Kept, FrozenKept, Rewritten
<1>24. ClausesLast'
  <2> SUFFICES ASSUME ~unsat', NEW c \in DOMAIN db' PROVE Lasts(c, status', Late')
    BY DEF ClausesLast, Clauses, BagToSet
  <2>1. c \in ClauseSet /\ \A l \in c.lits : l \in Lits /\ VarOf(l) \in Vars
    BY <1>22, LitFacts DEF Typed, BagOver, ClauseSet
  <2>2. /\ ~Tautological(c.lits)
        /\ \A l \in c.lits : /\ status[VarOf(l)] \in {"active", "fixed"}
                             /\ VarOf(l) \notin gone
    <3>1. CASE c \in DOMAIN new
      BY <1>3, <1>16, <3>1
    <3>2. CASE c \in Clauses /\ (c \in changed => CopiesOf(changed)[c] # db[c])
      <4>1. c \notin changed /\ Lasts(c, status, Late)
        BY <1>17, <3>2, ClauseFacts
      <4>2. \A l \in c.lits : repr[VarOf(l)] = VarOf(l)
        BY <1>1, <1>2, <1>4, <2>1, <3>2, <4>1, GoneFacts
      <4>3. QED
        BY <1>1, <1>3, <4>1, <4>2 DEF Lasts
    <3>3. QED
      BY <1>17, <1>22, <3>1, <3>2 DEF Rewritten
  <2>3. \A l \in c.lits : status'[VarOf(l)] \in {status[VarOf(l)], "fixed"}
    BY <1>19, <1>22, <2>1, <2>2 DEF Rewritten
  <2>4. QED
    BY <2>2, <2>3 DEF Lasts
<1>25. QED
  BY <1>22, <1>23, <1>24 DEF Kept

--------------------------------------------------------------------------------
(* What runs the techniques, and the search                                *)

LEMMA KeptByTechnique == Kept /\ Technique => Kept'
<1> SUFFICES ASSUME Kept, Technique PROVE Kept'
  OBVIOUS
<1>1. ~unsat
  BY DEF Technique
<1>2. CASE SubsumeClause \/ StrengthenClause
  BY <1>1, <1>2, KeptBySubsume, KeptByStrengthen
<1>3. CASE RemoveDuplicate \/ HyperUnary \/ RemoveTransitive \/ TransitiveUnit
  BY <1>1, <1>3, KeptByDeduplicate, KeptByTransred
<1>4. CASE VivifySatisfied \/ VivifyImplied \/ VivifyStrengthen
  BY <1>1, <1>4, KeptByVivify
<1>5. CASE TernaryResolve \/ FailedLiteral \/ HyperBinaryResolve
  BY <1>1, <1>5, KeptByTernary, KeptByFailedLiteral, KeptByHyperBinary
<1>6. CASE DecomposeConflict \/ DecomposeRound
  BY <1>1, <1>6, KeptByDecomposeConflict, KeptByDecomposeRound
<1>7. QED
  BY <1>2, <1>3, <1>4, <1>5, <1>6 DEF Technique

LEMMA KeptByWeakening == Kept /\ Weakening => Kept'
<1> SUFFICES ASSUME Kept, Weakening PROVE Kept'
  OBVIOUS
<1>1. ~unsat
  BY DEF Weakening
<1>2. CASE TryVariable \/ FindGateClauses \/ ResolveTautology \/ CountResolvent \/ GiveUp
           \/ Bounded \/ BackwardSkip \/ BackwardConnect \/ BackwardDone \/ BackwardPass
           \/ BackwardStop \/ BackwardNext
  BY <1>2, KeptByIdleSteps
<1>3. CASE StartRound \/ ElimBinaryDuplicate \/ ElimSatisfied \/ ResolveSatisfied
           \/ BackwardSatisfied \/ BackwardDropSatisfied \/ BackwardSubsume
  BY <1>3, KeptByElimDrops
<1>4. CASE ElimBinaryUnit \/ ResolveEmpty \/ ResolveUnit \/ BackwardUnit
  BY <1>1, <1>4, KeptByElimUnits
<1>5. CASE ResolveSubsuming \/ AddResolvent \/ BackwardStrengthen
  BY <1>1, <1>5, KeptByElimNew
<1>6. CASE EliminateVariable \/ InstantiateCandidate
  BY <1>1, <1>6, KeptByEliminate, KeptByInstantiate
<1>7. CASE BlockPureLiteral \/ BlockClause \/ CoverClause \/ ConditionClause
  BY <1>1, <1>7, KeptByPure, KeptByBlockClause, KeptByCover, KeptByCondition
<1>8. QED
  BY <1>2, <1>3, <1>4, <1>5, <1>6, <1>7 DEF Weakening

\* The clauses stay as they are.
LEMMA KeepsClauses ==
    ASSUME Kept, unsat \/ ~Late,
           UNCHANGED <<dbVars, stackVars, tainted, frozen, proofVars>>,
           assumptions' \in SUBSET assumptions
    PROVE  Kept'
<1>1. /\ db' = db /\ fixed' = fixed /\ status' = status /\ unsat' = unsat
      /\ extension' = extension /\ tainted' = tainted /\ frozen' = frozen
      /\ proof' = proof /\ accepted' = accepted
  BY DEF dbVars, stackVars, proofVars
<1>2. Typed'
  BY <1>1 DEF Kept, Typed
<1>3. FrozenKept'
  BY <1>1 DEF Kept, FrozenKept
<1>4. ClausesLast'
  <2> SUFFICES ASSUME ~unsat', NEW c \in Clauses' PROVE Lasts(c, status', Late')
    BY DEF ClausesLast
  <2>1. Lasts(c, status, Late) /\ ~Late
    BY <1>1 DEF Kept, ClausesLast, Clauses
  <2>2. QED
    BY <1>1, <2>1 DEF Lasts
<1>5. QED
  BY <1>2, <1>3, <1>4 DEF Kept

\* The end of a round that took variables away takes the rest of their clauses.
LEMMA KeepsAtRoundEnd ==
    ASSUME Kept, ~unsat, RewriteOver({}, status, StaleRedundant, EmptyBag, {}, << >>)
    PROVE  Kept'
<1>1. PICK gone : gone = StaleRedundant
  OBVIOUS
<1>2. PICK stale : stale = {c \in Clauses : Stale(c)}
  OBVIOUS
<1>3. Counted(gone) /\ DOMAIN gone = stale /\ \A c \in stale : gone[c] = db[c]
  <2>1. stale \in SUBSET Clauses /\ gone = CopiesOf(stale)
    BY <1>1, <1>2 DEF StaleRedundant
  <2>2. QED
    BY <2>1, CopiesCounted
<1>4. Typed' /\ Rewritten(status, gone, EmptyBag)
  <2>1. << >> \in Seq(Entries) /\ {} \in SUBSET Lits
    OBVIOUS
  <2>2. Typed /\ status \in [Vars -> Statuses] /\ BagOver(EmptyBag, ClauseSet)
    BY EmptyBagFacts DEF Kept, Typed
  <2>3. RewriteOver({}, status, gone, EmptyBag, {}, << >>) /\ {} \in SUBSET SUBSET Lits
    BY <1>1
  <2>4. QED
    BY <1>3, <2>1, <2>2, <2>3, RewriteStep
<1>5. /\ frozen' = frozen /\ assumptions' = assumptions
      /\ \A v \in Vars : status'[v] = status[v] \/ status'[v] = "fixed"
      /\ \A c \in DOMAIN db' : c \in Clauses /\ ~Stale(c)
  BY <1>2, <1>3, <1>4, EmptyBagFacts DEF Rewritten
<1>6. FrozenKept'
  <2>1. \A l \in frozen \cup assumptions : VarOf(l) \in Vars
    BY LitFacts DEF Kept, Typed
  <2>2. QED
    BY <1>5, <2>1 DEF Kept, FrozenKept
<1>7. ClausesLast'
  <2> SUFFICES ASSUME ~unsat', NEW c \in DOMAIN db' PROVE Lasts(c, status', Late')
    BY DEF ClausesLast, Clauses, BagToSet
  <2>1. Lasts(c, status, Late) /\ ~Stale(c) /\ \A l \in c.lits : VarOf(l) \in Vars
    BY <1>5, ClauseFacts
  <2>2. \A l \in c.lits : status[VarOf(l)] \in {"active", "fixed"}
    BY <2>1 DEF Lasts, Stale
  <2>3. QED
    BY <1>5, <2>1, <2>2 DEF Lasts
<1>8. QED
  BY <1>4, <1>6, <1>7 DEF Kept

LEMMA KeptByControl == Kept /\ Control => Kept'
<1> SUFFICES ASSUME Kept, Control PROVE Kept'
  OBVIOUS
<1> DEFINE Same == UNCHANGED <<dbVars, stackVars, tainted, userVars, proofVars>>
           Ends == RewriteOver({}, status, StaleRedundant, EmptyBag, {}, << >>)
<1>1. ASSUME Same, ~Late PROVE Kept'
  <2>1. frozen' = frozen /\ assumptions' \in SUBSET assumptions
    BY <1>1 DEF userVars
  <2>2. QED
    BY <1>1, <2>1, KeepsClauses
<1>2. ASSUME Ends, ~unsat PROVE Kept'
  BY <1>2, KeepsAtRoundEnd
<1> HIDE DEF Same, Ends
<1>3. CASE Advance
  <2>1. ~unsat /\ IF phase \in {"elim", "block"} THEN Ends ELSE Same
    BY <1>3 DEF Advance, Idle, ElimRewrite, Same, Ends
  <2>2. QED
    BY <1>1, <1>2, <2>1 DEF Late
<1>4. CASE SkipDecompose
  <2>1. Same /\ ~Late
    BY <1>4 DEF SkipDecompose, Idle, ElimRewrite, Same, Late
  <2>2. QED
    BY <1>1, <2>1
<1>5. CASE NextElimRound
  <2>1. ~unsat /\ phase \in {"subsume", "block", "cover"} /\ IF phase = "block" THEN Ends ELSE Same
    BY <1>5 DEF NextElimRound, Idle, ElimRewrite, Same, Ends
  <2>2. QED
    BY <1>1, <1>2, <2>1 DEF Late
<1>6. CASE LeaveElim
  <2>1. Same /\ ~Late
    BY <1>6 DEF LeaveElim, Idle, ElimRewrite, Same, Late
  <2>2. QED
    BY <1>1, <2>1
<1>7. CASE CompleteElim
  <2>1. Same /\ ~Late
    BY <1>7 DEF CompleteElim, Idle, ElimRewrite, Same, Late
  <2>2. QED
    BY <1>1, <2>1
<1>8. CASE Clean
  <2>1. ~unsat /\ phase' = phase
    BY <1>8 DEF Clean
  <2>2. CASE Propagate
    <3>1. Harmless(EmptyBag, {}, << >>) /\ Counted(EmptyBag)
      BY NothingElse, FewCounted
    <3>2. QED
      BY <2>1, <2>2, <3>1, KeepsByRewrite DEF Propagate
  <2>3. CASE \E stale \in SUBSET Clauses : GarbageCollection(stale)
    BY <2>1, <2>3, KeptByCollect
  <2>4. Propagate \/ \E stale \in SUBSET Clauses : GarbageCollection(stale)
    <3>1. {c \in Clauses : Stale(c)} \in SUBSET Clauses /\ {} \in SUBSET Clauses
      OBVIOUS
    <3>2. QED
      BY <1>8, <3>1 DEF Clean
  <2>5. QED
    BY <2>2, <2>3, <2>4
<1>9. QED
  BY <1>3, <1>4, <1>5, <1>6, <1>7, <1>8 DEF Control

LEMMA KeptByLearn == Kept /\ Learn => Kept'
<1> SUFFICES ASSUME Kept, Learn PROVE Kept'
  OBVIOUS
<1>1. ~unsat /\ phase' = phase
  BY DEF Learn, Searching
<1>2. PICK C \in SUBSET {l \in Lits : Active(l)} :
        /\ ~Tautological(C)
        /\ \/ Rewrite(EmptyBag, EmptyBag, C, << >>)
           \/ Rewrite(EmptyBag, One(Clause(C, TRUE)), {}, << >>)
  BY DEF Learn
<1>3. C \in SUBSET Lits /\ \A l \in C : status[VarOf(l)] = "active"
  BY DEF Active
<1>4. PICK c : c = Clause(C, TRUE)
  OBVIOUS
<1>5. c \in ClauseSet /\ Lasts(c, status, Late)
  BY <1>2, <1>3, <1>4 DEF Clause, ClauseSet, Lasts
<1>6. Harmless(One(c), {}, << >>) /\ Counted(EmptyBag)
  BY <1>5, OneNew, FewCounted
<1>7. CASE Rewrite(EmptyBag, EmptyBag, C, << >>)
  BY <1>1, <1>3, <1>6, <1>7, KeepsByUnit
<1>8. CASE Rewrite(EmptyBag, One(c), {}, << >>)
  BY <1>1, <1>6, <1>8, KeepsByRewrite
<1>9. QED
  BY <1>2, <1>4, <1>7, <1>8

\* Compaction takes variables that no clause and no user has any more.
LEMMA KeptByCompact == Kept /\ Compact => Kept'
<1> SUFFICES ASSUME Kept, Compact PROVE Kept'
  OBVIOUS
<1>1. /\ db' = db /\ fixed' = fixed /\ unsat' = unsat
      /\ extension' = extension /\ tainted' = tainted
      /\ frozen' = frozen /\ assumptions' = assumptions
      /\ proof' = proof /\ accepted' = accepted /\ phase' = phase
      /\ status' = Compacted /\ ~Late
  BY DEF Compact, Searching, stackVars, userVars, proofVars, Late
<1>2. /\ status' \in [Vars -> Statuses]
      /\ \A v \in Vars : status[v] \in {"active", "fixed"} => status'[v] = status[v]
  BY <1>1 DEF Kept, Typed, Compacted, Statuses
<1>3. Typed'
  BY <1>1, <1>2 DEF Kept, Typed
<1>4. FrozenKept'
  <2>1. \A l \in frozen \cup assumptions : VarOf(l) \in Vars
    BY LitFacts DEF Kept, Typed
  <2>2. QED
    BY <1>1, <1>2, <2>1 DEF Kept, FrozenKept
<1>5. ClausesLast'
  <2> SUFFICES ASSUME ~unsat', NEW c \in DOMAIN db PROVE Lasts(c, status', Late')
    BY <1>1 DEF ClausesLast, Clauses, BagToSet
  <2>1. ~unsat /\ c \in Clauses
    BY <1>1 DEF Clauses, BagToSet
  <2>2. Lasts(c, status, Late) /\ \A l \in c.lits : VarOf(l) \in Vars
    BY <2>1, ClauseFacts
  <2>3. QED
    BY <1>1, <1>2, <2>2 DEF Lasts
<1>6. QED
  BY <1>3, <1>4, <1>5 DEF Kept

LEMMA KeptBySearch == Kept /\ Search => Kept'
<1> SUFFICES ASSUME Kept, Search PROVE Kept'
  OBVIOUS
<1>1. CASE Learn
  BY <1>1, KeptByLearn
<1>2. CASE Reduce
  BY <1>2, FewCounted, KeepsByDiscard DEF Reduce
<1>3. CASE Inprocess
  <2>1. frozen' = frozen /\ assumptions' \in SUBSET assumptions /\ ~Late
        /\ UNCHANGED <<dbVars, stackVars, tainted, frozen, proofVars>>
    BY <1>3 DEF Inprocess, Idle, Searching, Late, userVars
  <2>2. QED
    BY <2>1, KeepsClauses
<1>4. CASE Compact
  BY <1>4, KeptByCompact
<1>5. QED
  BY <1>1, <1>2, <1>3, <1>4 DEF Search

LEMMA KeptByAnswer == Kept /\ Answer => Kept'
<1> SUFFICES ASSUME Kept, Answer PROVE Kept'
  OBVIOUS
<1>1. /\ UNCHANGED <<dbVars, stackVars, tainted, frozen, proofVars>>
      /\ assumptions' \in SUBSET assumptions
  <2>1. ASSUME NEW a, Return(a)
        PROVE  /\ UNCHANGED <<dbVars, stackVars, tainted, frozen, proofVars>>
               /\ assumptions' \in SUBSET assumptions
    BY <2>1 DEF Return
  <2>2. CASE GiveLiteral
    BY <2>2 DEF GiveLiteral, Idle, userVars
  <2>3. CASE Satisfiable10
    BY <2>1, <2>3 DEF Satisfiable10
  <2>4. CASE Unsatisfiable20 \/ Interrupted
    BY <2>1, <2>4 DEF Unsatisfiable20, Interrupted
  <2>5. QED
    BY <2>2, <2>3, <2>4 DEF Answer
<1>2. unsat \/ ~Late
  BY DEF Answer, Satisfiable10, Unsatisfiable20, Interrupted, GiveLiteral, Searching, Late
<1>3. QED
  BY <1>1, <1>2, KeepsClauses

--------------------------------------------------------------------------------
(* The calls of the user, and the start                                    *)

Bags(S) == UNION {[D -> Nat \ {0}] : D \in SUBSET S}

LEMMA BagsFacts ==
    ASSUME NEW S, NEW B
    PROVE  B \in Bags(S) <=> BagOver(B, S) /\ IsFcn(B)
<1>1. ASSUME B \in Bags(S) PROVE BagOver(B, S) /\ IsFcn(B)
  <2>1. PICK D \in SUBSET S : B \in [D -> Nat \ {0}]
    BY <1>1 DEF Bags
  <2>2. QED
    BY <2>1 DEF BagOver, IsFcn
<1>2. ASSUME BagOver(B, S), IsFcn(B) PROVE B \in Bags(S)
  <2>1. B \in [DOMAIN B -> Nat \ {0}] /\ DOMAIN B \in SUBSET S
    BY <1>2 DEF BagOver, IsFcn
  <2>2. QED
    BY <2>1 DEF Bags
<1>3. QED
  BY <1>1, <1>2

\* What a call carries from one clause to the next.
States == [db : Bags(ClauseSet), fixed : SUBSET Lits, status : [Vars -> Statuses],
           unsat : BOOLEAN, tainted : SUBSET Lits, proof : Bags(SUBSET Lits),
           accepted : BOOLEAN]

\* The clauses last, and the variables W are there.
With(W) ==
    {S \in States : /\ ~S.unsat => \A c \in DOMAIN S.db : Lasts(c, S.status, FALSE)
                    /\ \A v \in W : S.status[v] \in {"active", "fixed"}}

LEMMA WithLess ==
    ASSUME NEW W, NEW X \in SUBSET W, NEW S \in With(W)
    PROVE  S \in With(X)
BY DEF With

LEMMA InternalizedWith ==
    ASSUME NEW W \in SUBSET Vars, NEW S \in With(W), NEW L \in SUBSET Lits
    PROVE  Internalized(S, L) \in With(W \cup VarsOf(L))
<1>1. PICK st : st = [v \in Vars |-> IF v \in VarsOf(L) /\ S.status[v] # "fixed"
                                     THEN "active" ELSE S.status[v]]
  OBVIOUS
<1>2. PICK tt : tt = S.tainted \cup {l \in L : -l \in witness}
  OBVIOUS
<1>3. PICK R : R = [S EXCEPT !.status = st, !.tainted = tt]
  OBVIOUS
<1>4. R = Internalized(S, L)
  BY <1>1, <1>2, <1>3 DEF Internalized
<1>5. S \in States
  BY DEF With
<1>6. st \in [Vars -> Statuses] /\ tt \in SUBSET Lits
  <2>1. S.status \in [Vars -> Statuses] /\ S.tainted \in SUBSET Lits
    BY <1>5 DEF States
  <2>2. QED
    BY <1>1, <1>2, <2>1 DEF Statuses
<1>7. R \in States /\ R.status = st /\ R.unsat = S.unsat /\ R.db = S.db
  BY <1>3, <1>5, <1>6 DEF States
<1>8. \A v \in Vars : S.status[v] \in {"active", "fixed"} => st[v] \in {"active", "fixed"}
  BY <1>1
<1>9. \A v \in W \cup VarsOf(L) : st[v] \in {"active", "fixed"}
  <2>1. VarsOf(L) \in SUBSET Vars
    BY LitFacts DEF VarsOf
  <2>2. \A v \in VarsOf(L) : st[v] \in {"active", "fixed"}
    BY <1>1, <2>1
  <2>3. QED
    BY <1>8, <2>2 DEF With
<1>10. ASSUME ~R.unsat, NEW c \in DOMAIN R.db PROVE Lasts(c, R.status, FALSE)
  <2>1. Lasts(c, S.status, FALSE)
    BY <1>7, <1>10 DEF With
  <2>2. \A l \in c.lits : VarOf(l) \in Vars
    <3>1. S.db \in Bags(ClauseSet)
      BY <1>5 DEF States
    <3>2. c \in ClauseSet
      BY <1>7, <1>10, <3>1, BagsFacts DEF BagOver
    <3>3. QED
      BY <3>2, LitFacts DEF ClauseSet
  <2>3. QED
    BY <1>7, <1>8, <2>1, <2>2 DEF Lasts
<1>11. R \in With(W \cup VarsOf(L))
  BY <1>7, <1>9, <1>10 DEF With
<1>12. QED
  BY <1>4, <1>11

\* A clause that is skipped is only traced.
TracedAs(S, a, p) == [S EXCEPT !.accepted = a, !.proof = p]

LEMMA SkippedWith ==
    ASSUME NEW W, NEW S \in With(W), NEW a \in BOOLEAN, NEW p \in Bags(SUBSET Lits)
    PROVE  TracedAs(S, a, p) \in With(W)
<1>1. PICK R : R = [S EXCEPT !.accepted = a, !.proof = p]
  OBVIOUS
<1>2. R \in States /\ R.status = S.status /\ R.unsat = S.unsat /\ R.db = S.db
  BY <1>1 DEF With, States
<1>3. R \in With(W)
  BY <1>2 DEF With
<1>4. QED
  BY <1>1, <1>3 DEF TracedAs

ChangedTo(S, d, u, f, st, a, p) ==
    [S EXCEPT !.db = d, !.unsat = u, !.fixed = f, !.status = st, !.accepted = a, !.proof = p]

LEMMA ChangedWith ==
    ASSUME NEW W \in SUBSET Vars, NEW S \in With(W), NEW d \in Bags(ClauseSet),
           NEW u \in BOOLEAN, NEW f \in SUBSET Lits, NEW st \in [Vars -> Statuses],
           NEW a \in BOOLEAN, NEW p \in Bags(SUBSET Lits),
           \A v \in Vars : st[v] = S.status[v] \/ st[v] = "fixed",
           ~u => \A c \in DOMAIN d : Lasts(c, S.status, FALSE)
    PROVE  ChangedTo(S, d, u, f, st, a, p) \in With(W)
<1>1. PICK R : R = [S EXCEPT !.db = d, !.unsat = u, !.fixed = f, !.status = st,
                             !.accepted = a, !.proof = p]
  OBVIOUS
<1>2. R \in States /\ R.status = st /\ R.unsat = u /\ R.db = d
  BY <1>1 DEF With, States
<1>3. \A v \in W : st[v] \in {"active", "fixed"}
  BY DEF With
<1>4. ASSUME ~u, NEW c \in DOMAIN d PROVE Lasts(c, st, FALSE)
  <2>1. c \in ClauseSet
    BY BagsFacts DEF BagOver
  <2>2. Lasts(c, S.status, FALSE)
    BY <1>4
  <2>3. QED
    BY <2>1, <2>2, LastsOn
<1>5. R \in With(W)
  BY <1>2, <1>3, <1>4 DEF With
<1>6. QED
  BY <1>1, <1>5 DEF ChangedTo

LEMMA ProofBags ==
    ASSUME NEW P \in Bags(SUBSET Lits), NEW S \in SUBSET SUBSET Lits
    PROVE  /\ P (+) SetToBag(S) \in Bags(SUBSET Lits)
           /\ P (-) SetToBag(S) \in Bags(SUBSET Lits)
<1>1. BagOver(P, SUBSET Lits) /\ BagOver(SetToBag(S), SUBSET Lits)
  BY BagsFacts, EmptyBagFacts
<1>2. \A e \in DOMAIN SetToBag(S) : SetToBag(S)[e] \in Int
  BY EmptyBagFacts
<1>3. QED
  BY <1>1, <1>2, BagSum, BagLess, BagsFacts

LEMMA NewOriginalWith ==
    ASSUME NEW W \in SUBSET Vars, NEW S \in With(W), NEW C \in SUBSET Lits,
           VarsOf(C) \subseteq W
    PROVE  NewOriginal(S, C) \in With(W)
<1>1. S \in States
  BY DEF With
<1>2. /\ S.db \in Bags(ClauseSet) /\ S.fixed \in SUBSET Lits
      /\ S.status \in [Vars -> Statuses] /\ S.unsat \in BOOLEAN
      /\ S.proof \in Bags(SUBSET Lits) /\ S.accepted \in BOOLEAN
  BY <1>1 DEF States
<1>3. PICK P : P = S.proof (+) SetToBag({C})
  OBVIOUS
<1>4. {C} \in SUBSET SUBSET Lits
  OBVIOUS
<1>5. P \in Bags(SUBSET Lits) /\ P (-) SetToBag({C}) \in Bags(SUBSET Lits)
  BY <1>2, <1>3, <1>4, ProofBags
<1>6. PICK D : D = Reduced(C, S.fixed)
  OBVIOUS
<1>7. PICK skip \in BOOLEAN : skip = (S.unsat \/ Tautological(C) \/ Satisfies(S.fixed, C))
  BY DEF Tautological
<1>8. CASE skip
  <2>1. PICK a \in BOOLEAN : a = (S.accepted /\ Deletable(P, SetToBag({C})))
    OBVIOUS
  <2>2. PICK q : q = P (-) SetToBag({C})
    OBVIOUS
  <2>3. NewOriginal(S, C) = TracedAs(S, a, q)
    BY <1>3, <1>7, <1>8, <2>1, <2>2 DEF NewOriginal, TracedAs
  <2>4. TracedAs(S, a, q) \in With(W)
    BY <1>5, <2>1, <2>2, SkippedWith
  <2>5. QED
    BY <2>3, <2>4
<1>9. CASE ~skip
  <2>1. PICK B : B = IF Cardinality(D) < 2 THEN S.db ELSE S.db (+) One(Clause(D, FALSE))
    OBVIOUS
  <2>2. PICK F : F = LitsOf(BagToSet(S.db))
    OBVIOUS
  <2>3. PICK T : T = IF Cardinality(D) = 1 THEN Propagated(F, S.fixed \cup D) ELSE S.fixed
    OBVIOUS
  <2>4. PICK bad \in BOOLEAN : bad = (D = {} \/ Conflicting(F, T))
    BY DEF Conflicting
  <2>5. PICK P2 : P2 = P (+) UnitClauses(T \ (S.fixed \cup D))
    OBVIOUS
  <2>6. PICK f : f = IF bad THEN S.fixed ELSE T
    OBVIOUS
  <2>7. PICK st : st = IF bad THEN S.status ELSE Marked(S.status, T \ S.fixed)
    OBVIOUS
  <2>8. PICK a \in BOOLEAN : a = (S.accepted /\ (D = C \/ Derivable(P, {D})))
    OBVIOUS
  <2>9. PICK p : p = IF D = C THEN P2 ELSE (P2 (+) SetToBag({D})) (-) SetToBag({C})
    OBVIOUS
  <2>10. NewOriginal(S, C) = ChangedTo(S, B, bad, f, st, a, p)
    BY <1>3, <1>6, <1>7, <1>9, <2>1, <2>2, <2>3, <2>4, <2>5, <2>6, <2>7, <2>8, <2>9,
       ZenonT(60)
    DEF NewOriginal, ChangedTo
  <2>11. D \in SUBSET C /\ ~Tautological(C) /\ ~S.unsat
    BY <1>6, <1>7, <1>9 DEF Reduced
  <2>12. T \in SUBSET Lits
    <3>1. BagOver(S.db, ClauseSet)
      BY <1>2, BagsFacts
    <3>2. F \in SUBSET SUBSET Lits
      BY <2>2, <3>1 DEF BagToSet, BagOver, ClauseSet, LitsOf
    <3>3. S.fixed \cup D \in SUBSET Lits
      BY <1>2, <2>11
    <3>4. QED
      BY <1>2, <2>3, <3>2, <3>3, PropagatedLits
  <2>13. f \in SUBSET Lits
    BY <1>2, <2>6, <2>12
  <2>14. st \in [Vars -> Statuses] /\ \A v \in Vars : st[v] = S.status[v] \/ st[v] = "fixed"
    BY <1>2, <2>7 DEF Statuses, Marked
  <2>15. p \in Bags(SUBSET Lits)
    <3>1. PICK U : U = {{l} : l \in T \ (S.fixed \cup D)}
      OBVIOUS
    <3>2. U \in SUBSET SUBSET Lits /\ {D} \in SUBSET SUBSET Lits
      BY <2>11, <2>12, <3>1
    <3>3. P2 \in Bags(SUBSET Lits)
      BY <1>5, <2>5, <3>1, <3>2, ProofBags DEF UnitClauses
    <3>4. (P2 (+) SetToBag({D})) \in Bags(SUBSET Lits)
      BY <3>2, <3>3, ProofBags
    <3>5. QED
      BY <1>4, <2>9, <3>3, <3>4, ProofBags
  <2>16. PICK n : n = Clause(D, FALSE)
    OBVIOUS
  <2>17. n \in ClauseSet /\ Lasts(n, S.status, FALSE)
    <3>1. n \in ClauseSet /\ n.lits = D
      BY <2>11, <2>16 DEF Clause, ClauseSet
    <3>2. ~Tautological(D)
      BY <2>11 DEF Tautological
    <3>3. \A l \in D : S.status[VarOf(l)] \in {"active", "fixed"}
      BY <2>11 DEF With, VarsOf
    <3>4. QED
      BY <3>1, <3>2, <3>3 DEF Lasts
  <2>18. B \in Bags(ClauseSet) /\ \A c \in DOMAIN B : c \in DOMAIN S.db \/ c = n
    <3>1. BagOver(S.db, ClauseSet) /\ IsFcn(S.db)
      BY <1>2, BagsFacts
    <3>2. BagOver(One(n), ClauseSet) /\ DOMAIN One(n) = {n}
      BY <2>17, EmptyBagFacts
    <3>3. BagOver(S.db (+) One(n), ClauseSet) /\ IsFcn(S.db (+) One(n))
      BY <3>1, <3>2, BagSum
    <3>4. DOMAIN (S.db (+) One(n)) = DOMAIN S.db \cup {n}
      BY <3>2 DEF (+)
    <3>5. B = S.db \/ B = S.db (+) One(n)
      BY <2>1, <2>16
    <3>6. BagOver(B, ClauseSet) /\ IsFcn(B)
      BY <3>1, <3>3, <3>5
    <3>7. \A c \in DOMAIN B : c \in DOMAIN S.db \/ c = n
      BY <3>4, <3>5
    <3>8. QED
      BY <3>6, <3>7, BagsFacts
  <2>19. \A c \in DOMAIN B : Lasts(c, S.status, FALSE)
    BY <2>11, <2>17, <2>18 DEF With
  <2>20. ChangedTo(S, B, bad, f, st, a, p) \in With(W)
    BY <2>4, <2>8, <2>13, <2>14, <2>15, <2>18, <2>19, ChangedWith
  <2>21. QED
    BY <2>10, <2>20
<1>10. QED
  BY <1>8, <1>9

LEMMA AddingWith ==
    ASSUME NEW W \in SUBSET Vars, NEW S \in With(W), NEW C \in SUBSET Lits
    PROVE  Adding(S, C) \in With(W)
<1>1. PICK X : X = W \cup VarsOf(C)
  OBVIOUS
<1>2. X \in SUBSET Vars /\ VarsOf(C) \subseteq X /\ W \in SUBSET X
  BY <1>1, LitFacts DEF VarsOf
<1>3. Internalized(S, C) \in With(X)
  BY <1>1, InternalizedWith
<1>4. NewOriginal(Internalized(S, C), C) \in With(X)
  BY <1>2, <1>3, NewOriginalWith
<1>5. QED
  BY <1>2, <1>4, WithLess DEF Adding

Restores(W) == [state : With(W), kept : Seq(Entries)]

LEMMA RestoreEntryWith ==
    ASSUME NEW W \in SUBSET Vars, NEW R \in Restores(W), NEW e \in Entries
    PROVE  RestoreEntry(R, e) \in Restores(W)
<1>1. R.state \in With(W) /\ R.kept \in Seq(Entries) /\ e.clause \in SUBSET Lits
  BY DEF Restores, Entries
<1>2. PICK S : S = Adding(R.state, e.clause)
  OBVIOUS
<1>3. PICK k : k = Append(R.kept, e)
  OBVIOUS
<1>4. S \in With(W) /\ k \in Seq(Entries)
  <2>1. S \in With(W)
    BY <1>1, <1>2, AddingWith
  <2>2. k \in Seq(Entries)
    BY <1>1, <1>3, AppendProperties
  <2>3. QED
    BY <2>1, <2>2
<1>5. [R EXCEPT !.state = S] \in Restores(W) /\ [R EXCEPT !.kept = k] \in Restores(W)
  BY <1>4 DEF Restores
<1>6. RestoreEntry(R, e) \in {R, [R EXCEPT !.state = S], [R EXCEPT !.kept = k]}
  BY <1>2, <1>3 DEF RestoreEntry
<1>7. QED
  BY <1>5, <1>6

\* The pass over the stack ends with such a state.
LEMMA RestoredWith ==
    ASSUME NEW W \in SUBSET Vars, State \in With(W), extension \in Seq(Entries)
    PROVE  Restored[Len(extension)] \in Restores(W)
<1> DEFINE start == [state |-> State, kept |-> << >>]
           N == Len(extension)
           IsRestored(f) == f = [n \in 0..N |-> IF n = 0 THEN start
                                                ELSE RestoreEntry(f[n - 1], extension[n])]
           V == Restores(W)
           step == [x \in (1..N) \X V |-> RestoreEntry(x[2], extension[x[1]])]
<1>1. N \in Nat /\ \A n \in 1..N : extension[n] \in Entries
  BY LenProperties
<1>2. start \in V
  <2>1. << >> \in Seq(Entries)
    OBVIOUS
  <2>2. QED
    BY <2>1 DEF Restores
<1>3. \A n \in 1..N, R \in V : step[<<n, R>>] = RestoreEntry(R, extension[n])
  OBVIOUS
<1>4. \A n \in 1..N, R \in V : RestoreEntry(R, extension[n]) \in V
  BY <1>1, RestoreEntryWith
<1> HIDE DEF start, N, V, step
<1>5. \E f : IsRestored(f)
  <2>1. SteppingTo(N, V, step)
    <3>1. ASSUME NEW n \in 1..N, NEW R \in V PROVE step[<<n, R>>] \in V
      <4>1. step[<<n, R>>] = RestoreEntry(R, extension[n])
        BY <1>3
      <4>2. RestoreEntry(R, extension[n]) \in V
        BY <1>4
      <4>3. QED
        BY <4>1, <4>2
    <3>2. QED
      BY <3>1, Zenon DEF SteppingTo
  <2>2. PICK f \in [0..N -> V] : FollowsTo(f, N, start, step)
    BY <1>1, <1>2, <2>1, FiniteRecursion
  <2>3. \A n \in 0..N : n # 0 => step[<<n, f[n - 1]>>] = RestoreEntry(f[n - 1], extension[n])
    <3> SUFFICES ASSUME NEW n \in 0..N, n # 0
                 PROVE step[<<n, f[n - 1]>>] = RestoreEntry(f[n - 1], extension[n])
      OBVIOUS
    <3>1. n \in 1..N /\ n - 1 \in 0..N
      BY <1>1
    <3>2. f[n - 1] \in V
      BY <3>1
    <3>3. QED
      BY <1>3, <3>1, <3>2
  <2>4. IsRestored(f)
    BY <2>2, <2>3 DEF FollowsTo
  <2>5. QED
    BY <2>4
<1>6. PICK g : g = CHOOSE f : IsRestored(f)
  OBVIOUS
<1>7. IsRestored(g)
  <2> HIDE DEF IsRestored
  <2>1. QED
    BY <1>5, <1>6
<1>8. \A n \in 0..N : g[n] \in V
  <2>1. \A n \in 0..N : g[n] = IF n = 0 THEN start ELSE RestoreEntry(g[n - 1], extension[n])
    <3> DEFINE h == [n \in 0..N |-> IF n = 0 THEN start
                                    ELSE RestoreEntry(g[n - 1], extension[n])]
    <3>1. g = h
      BY <1>7
    <3>2. \A n \in 0..N : h[n] = IF n = 0 THEN start ELSE RestoreEntry(g[n - 1], extension[n])
      OBVIOUS
    <3> HIDE DEF h
    <3>3. QED
      BY <3>1, <3>2
  <2>2. g[0] \in V
    <3>1. 0 \in 0..N
      BY <1>1
    <3>2. QED
      BY <1>2, <2>1, <3>1
  <2>3. ASSUME NEW n \in 1..N, g[n - 1] \in V PROVE g[n] \in V
    <3>1. n \in 0..N /\ n # 0
      BY <1>1
    <3>2. g[n] = RestoreEntry(g[n - 1], extension[n])
      BY <2>1, <3>1
    <3>3. QED
      BY <1>4, <2>3, <3>2
  <2>4. PassesAlong(N, V, g)
    BY <2>2, <2>3 DEF PassesAlong
  <2> HIDE DEF IsRestored
  <2>5. QED
    BY <1>1, <2>4, FiniteInduct
<1>9. Restored = g
  BY <1>6 DEF Restored, IsRestored, start, N
<1>10. N \in 0..N
  BY <1>1
<1>11. g[N] \in V
  BY <1>8, <1>10
<1>12. QED
  BY <1>9, <1>11 DEF N, V

\* The state between calls, and what a call makes of it.
LEMMA StateWith ==
    ASSUME Kept, ~Late
    PROVE  State \in With(VarsOf(frozen \cup assumptions))
<1>1. db \in Bags(ClauseSet) /\ proof \in Bags(SUBSET Lits)
  BY BagsFacts DEF Kept, Typed
<1>2. PICK S : S = State
  OBVIOUS
<1>3. S \in States /\ S.db = db /\ S.status = status /\ S.unsat = unsat
  BY <1>1, <1>2 DEF State, States, Kept, Typed
<1>4. ~unsat => \A c \in DOMAIN db : Lasts(c, status, FALSE)
  <2> SUFFICES ASSUME ~unsat, NEW c \in DOMAIN db PROVE Lasts(c, status, FALSE)
    OBVIOUS
  <2>1. Lasts(c, status, Late)
    BY DEF Kept, ClausesLast, Clauses, BagToSet
  <2>2. QED
    BY <2>1 DEF Lasts
<1>5. \A v \in VarsOf(frozen \cup assumptions) : status[v] \in {"active", "fixed"}
  BY DEF Kept, FrozenKept, VarsOf
<1>6. S \in With(VarsOf(frozen \cup assumptions))
  BY <1>3, <1>4, <1>5 DEF With
<1>7. QED
  BY <1>2, <1>6

LEMMA BecomesKept ==
    ASSUME NEW S, S \in With(VarsOf(frozen' \cup assumptions')), Become(S),
           tainted' \in SUBSET Lits, extension' \in Seq(Entries),
           frozen' \in SUBSET Vars, assumptions' \in SUBSET Lits
    PROVE  Kept'
<1>1. S \in States
  BY DEF With
<1>2. /\ db' = S.db /\ fixed' = S.fixed /\ status' = S.status /\ unsat' = S.unsat
      /\ proof' = S.proof /\ accepted' = S.accepted
  BY DEF Become
<1>3. Typed'
  <2>1. /\ db' \in Bags(ClauseSet) /\ proof' \in Bags(SUBSET Lits)
        /\ fixed' \in SUBSET Lits /\ status' \in [Vars -> Statuses]
        /\ unsat' \in BOOLEAN /\ accepted' \in BOOLEAN
    BY <1>1, <1>2 DEF States
  <2>2. QED
    BY <2>1, BagsFacts DEF Typed
<1>4. FrozenKept'
  BY <1>2 DEF With, FrozenKept, VarsOf
<1>5. ClausesLast'
  <2> SUFFICES ASSUME ~unsat', NEW c \in DOMAIN db' PROVE Lasts(c, status', Late')
    BY DEF ClausesLast, Clauses, BagToSet
  <2>1. Lasts(c, status', FALSE)
    BY <1>2 DEF With
  <2>2. QED
    BY <2>1 DEF Lasts
<1>6. QED
  BY <1>3, <1>4, <1>5 DEF Kept

LEMMA KeepsByUserStep ==
    ASSUME Kept, NEW W, NEW S \in With(W), UserStep(S),
           frozen' \in SUBSET Vars, assumptions' \in SUBSET Lits,
           VarsOf(frozen' \cup assumptions') \subseteq W
    PROVE  Kept'
<1>1. S \in With(VarsOf(frozen' \cup assumptions'))
  BY WithLess
<1>2. Become(S) /\ tainted' = S.tainted /\ extension' = extension
  BY DEF UserStep, stackVars
<1>3. S.tainted \in SUBSET Lits
  BY DEF With, States
<1>4. extension \in Seq(Entries)
  BY DEF Kept, Typed
<1>5. QED
  BY <1>1, <1>2, <1>3, <1>4, BecomesKept

LEMMA KeptByUser == Kept /\ User => Kept'
<1> SUFFICES ASSUME Kept, User PROVE Kept'
  OBVIOUS
<1>1. PICK W : W = VarsOf(frozen \cup assumptions)
  OBVIOUS
<1>2. /\ frozen \in SUBSET Vars /\ assumptions \in SUBSET Lits /\ frozen \subseteq Lits
      /\ W \in SUBSET Vars
  BY <1>1, LitFacts DEF Kept, Typed, VarsOf
<1>3. State \in With(W)
  <2>1. ~Late
    BY DEF User, AddClause, Assume, Freeze, Melt, Calling, Late
  <2>2. QED
    BY <1>1, <2>1, StateWith
<1>4. KeptAssumptions \subseteq assumptions
  BY DEF KeptAssumptions
<1>5. CASE AddClause
  <2>1. PICK C \in Inputs : UserStep(Adding(State, C))
    BY <1>5 DEF AddClause
  <2>2. frozen' = frozen /\ assumptions' \subseteq assumptions
    BY <1>4, <1>5 DEF AddClause
  <2>3. C \in SUBSET Lits
    BY CallsAssumption
  <2>4. Adding(State, C) \in With(W)
    BY <1>2, <1>3, <2>3, AddingWith
  <2>5. VarsOf(frozen' \cup assumptions') \subseteq W
    BY <1>1, <2>2 DEF VarsOf
  <2>6. QED
    BY <1>2, <2>1, <2>2, <2>4, <2>5, KeepsByUserStep
<1>6. CASE Assume
  <2>1. PICK l \in Questions : /\ UserStep(Internalized(State, {l}))
                               /\ assumptions' = KeptAssumptions \cup {l}
    BY <1>6 DEF Assume
  <2>2. frozen' = frozen
    BY <1>6 DEF Assume
  <2>3. l \in Lits /\ {l} \in SUBSET Lits
    BY CallsAssumption
  <2>4. Internalized(State, {l}) \in With(W \cup VarsOf({l}))
    BY <1>2, <1>3, <2>3, InternalizedWith
  <2>5. VarsOf(frozen' \cup assumptions') \subseteq W \cup VarsOf({l})
    BY <1>1, <1>4, <2>1, <2>2 DEF VarsOf
  <2>6. assumptions' \in SUBSET Lits
    BY <1>2, <1>4, <2>1, <2>3
  <2>7. QED
    BY <1>2, <2>1, <2>2, <2>4, <2>5, <2>6, KeepsByUserStep
<1>7. CASE Freeze \/ Melt
  <2>1. PICK v \in Vars : /\ UserStep(Internalized(State, {v}))
                          /\ frozen' \in {frozen \cup {v}, frozen \ {v}}
                          /\ assumptions' = assumptions
    <3>1. Freezable \subseteq Vars
      BY CallsAssumption
    <3>2. QED
      BY <1>2, <1>7, <3>1 DEF Freeze, Melt
  <2>2. {v} \in SUBSET Lits
    BY LitFacts
  <2>3. Internalized(State, {v}) \in With(W \cup VarsOf({v}))
    BY <1>2, <1>3, <2>2, InternalizedWith
  <2>4. VarsOf(frozen' \cup assumptions') \subseteq W \cup VarsOf({v})
    BY <1>1, <2>1 DEF VarsOf
  <2>5. frozen' \in SUBSET Vars /\ assumptions' \in SUBSET Lits
    BY <1>2, <2>1
  <2>6. QED
    BY <2>1, <2>3, <2>4, <2>5, KeepsByUserStep
<1>8. QED
  BY <1>5, <1>6, <1>7 DEF User

LEMMA KeptByCall == Kept /\ Call => Kept'
<1> SUFFICES ASSUME Kept, Call PROVE Kept'
  OBVIOUS
<1>1. /\ ~Late /\ RestoreClauses /\ frozen' = frozen
      /\ assumptions' \in SUBSET assumptions
  <2>1. ASSUME NEW plan, Run(plan)
        PROVE  /\ ~Late /\ RestoreClauses /\ frozen' = frozen
               /\ assumptions' \in SUBSET assumptions
    BY <2>1 DEF Run, Calling, Begin, KeptAssumptions, Late
  <2>2. CASE SplittingLiteral
    BY <2>2 DEF SplittingLiteral, Begin, Late
  <2>3. QED
    BY <2>1, <2>2 DEF Call, Solve, Simplify
<1>2. CASE unsat \/ (tainted = {} /\ RestoreAll < 2)
  <2>1. UNCHANGED <<dbVars, stackVars, tainted, frozen, proofVars>>
    BY <1>1, <1>2 DEF RestoreClauses
  <2>2. QED
    BY <1>1, <2>1, KeepsClauses
<1>3. CASE ~(unsat \/ (tainted = {} /\ RestoreAll < 2))
  <2>1. PICK R : R = Restored[Len(extension)]
    OBVIOUS
  <2>2. Become(R.state) /\ extension' = R.kept /\ tainted' = {}
    BY <1>1, <1>3, <2>1 DEF RestoreClauses
  <2>3. PICK W : W = VarsOf(frozen \cup assumptions)
    OBVIOUS
  <2>4. /\ frozen \in SUBSET Vars /\ assumptions \in SUBSET Lits /\ frozen \subseteq Lits
        /\ W \in SUBSET Vars /\ extension \in Seq(Entries)
    BY <2>3, LitFacts DEF Kept, Typed, VarsOf
  <2>5. R \in Restores(W)
    BY <1>1, <2>1, <2>3, <2>4, StateWith, RestoredWith
  <2>6. R.state \in With(W) /\ R.kept \in Seq(Entries)
    BY <2>5 DEF Restores
  <2>7. VarsOf(frozen' \cup assumptions') \in SUBSET W
    BY <1>1, <2>3 DEF VarsOf
  <2>8. R.state \in With(VarsOf(frozen' \cup assumptions'))
    BY <2>6, <2>7, WithLess
  <2>9. frozen' \in SUBSET Vars /\ assumptions' \in SUBSET Lits /\ tainted' \in SUBSET Lits
    BY <1>1, <2>2, <2>4
  <2>10. QED
    BY <2>2, <2>6, <2>8, <2>9, BecomesKept
<1>4. QED
  BY <1>2, <1>3

\* The clauses the user starts with, one after the other.
LEMMA AddedWith ==
    ASSUME NEW clauses \in Seq(SUBSET Lits)
    PROVE  Added(clauses) \in With({})
<1> DEFINE N == Len(clauses)
           IsAdded(f) == f = [n \in 0..N |-> IF n = 0 THEN Empty
                                             ELSE Adding(f[n - 1], clauses[n])]
           V == With({})
           step == [x \in (1..N) \X V |-> Adding(x[2], clauses[x[1]])]
<1>1. N \in Nat /\ \A n \in 1..N : clauses[n] \in SUBSET Lits
  BY LenProperties
<1>2. Empty \in V
  <2>1. EmptyBag \in Bags(ClauseSet) /\ EmptyBag \in Bags(SUBSET Lits) /\ DOMAIN EmptyBag = {}
    <3>1. IsFcn(EmptyBag)
      BY DEF EmptyBag, SetToBag, IsFcn
    <3>2. QED
      BY <3>1, EmptyBagFacts, BagsFacts
  <2>2. {} \in SUBSET Lits /\ [v \in Vars |-> "unused"] \in [Vars -> Statuses]
    BY DEF Statuses
  <2>3. PICK st : st = [v \in Vars |-> "unused"]
    OBVIOUS
  <2>4. PICK S : S = [db |-> EmptyBag, fixed |-> {}, unsat |-> FALSE, tainted |-> {},
                      status |-> st, proof |-> EmptyBag, accepted |-> TRUE]
    OBVIOUS
  <2>5. S \in States /\ S.db = EmptyBag
    BY <2>1, <2>2, <2>3, <2>4 DEF States
  <2>6. S \in V
    BY <2>1, <2>5 DEF With
  <2>7. QED
    BY <2>3, <2>4, <2>6 DEF Empty
<1>3. \A n \in 1..N, S \in V : step[<<n, S>>] = Adding(S, clauses[n])
  OBVIOUS
<1>4. ASSUME NEW n \in 1..N, NEW S \in V PROVE Adding(S, clauses[n]) \in V
  <2>1. PICK W : W = {}
    OBVIOUS
  <2>2. W \in SUBSET Vars /\ S \in With(W) /\ clauses[n] \in SUBSET Lits
    BY <1>1, <2>1
  <2>3. Adding(S, clauses[n]) \in With(W)
    BY <2>2, AddingWith
  <2>4. QED
    BY <2>1, <2>3
<1> HIDE DEF N, V, step
<1>5. \E f : IsAdded(f)
  <2>1. SteppingTo(N, V, step)
    <3>1. ASSUME NEW n \in 1..N, NEW S \in V PROVE step[<<n, S>>] \in V
      <4>1. step[<<n, S>>] = Adding(S, clauses[n])
        BY <1>3
      <4>2. QED
        BY <1>4, <4>1
    <3>2. QED
      BY <3>1, Zenon DEF SteppingTo
  <2>2. PICK f \in [0..N -> V] : FollowsTo(f, N, Empty, step)
    BY <1>1, <1>2, <2>1, FiniteRecursion
  <2>3. \A n \in 0..N : n # 0 => step[<<n, f[n - 1]>>] = Adding(f[n - 1], clauses[n])
    <3> SUFFICES ASSUME NEW n \in 0..N, n # 0
                 PROVE step[<<n, f[n - 1]>>] = Adding(f[n - 1], clauses[n])
      OBVIOUS
    <3>1. n \in 1..N /\ n - 1 \in 0..N
      BY <1>1
    <3>2. f[n - 1] \in V
      BY <3>1
    <3>3. QED
      BY <1>3, <3>1, <3>2
  <2>4. IsAdded(f)
    BY <2>2, <2>3 DEF FollowsTo
  <2>5. QED
    BY <2>4
<1>6. PICK g : g = CHOOSE f : IsAdded(f)
  OBVIOUS
<1>7. IsAdded(g)
  <2> HIDE DEF IsAdded
  <2>1. QED
    BY <1>5, <1>6
<1>8. \A n \in 0..N : g[n] \in V
  <2>1. \A n \in 0..N : g[n] = IF n = 0 THEN Empty ELSE Adding(g[n - 1], clauses[n])
    <3> DEFINE h == [n \in 0..N |-> IF n = 0 THEN Empty ELSE Adding(g[n - 1], clauses[n])]
    <3>1. g = h
      BY <1>7
    <3>2. \A n \in 0..N : h[n] = IF n = 0 THEN Empty ELSE Adding(g[n - 1], clauses[n])
      OBVIOUS
    <3> HIDE DEF h
    <3>3. QED
      BY <3>1, <3>2
  <2>2. g[0] \in V
    <3>1. 0 \in 0..N
      BY <1>1
    <3>2. QED
      BY <1>2, <2>1, <3>1
  <2>3. ASSUME NEW n \in 1..N, g[n - 1] \in V PROVE g[n] \in V
    <3>1. n \in 0..N /\ n # 0
      BY <1>1
    <3>2. g[n] = Adding(g[n - 1], clauses[n])
      BY <2>1, <3>1
    <3>3. QED
      BY <1>4, <2>3, <3>2
  <2>4. PassesAlong(N, V, g)
    BY <2>2, <2>3 DEF PassesAlong
  <2> HIDE DEF IsAdded
  <2>5. QED
    BY <1>1, <2>4, FiniteInduct
<1>9. Added(clauses) = g[N]
  BY <1>6 DEF Added, IsAdded, N
<1>10. N \in 0..N
  BY <1>1
<1>11. QED
  BY <1>8, <1>9, <1>10 DEF V

LEMMA InitKept == Init => Kept
<1> SUFFICES ASSUME Init PROVE Kept
  OBVIOUS
<1> DEFINE Begun(start) ==
      LET S == Internalized(Added(start.clauses), start.frozen \cup start.assumptions) IN
      /\ frozen = start.frozen /\ assumptions = start.assumptions
      /\ db = S.db /\ fixed = S.fixed /\ status = S.status /\ unsat = S.unsat
      /\ proof = S.proof /\ accepted = S.accepted
<1>1. PICK start \in Starts : Begun(start)
  BY DEF Init
<1>2. PICK L : L = start.frozen \cup start.assumptions
  OBVIOUS
<1>3. PICK S : S = Internalized(Added(start.clauses), L)
  OBVIOUS
<1>4. /\ frozen = start.frozen /\ assumptions = start.assumptions
      /\ db = S.db /\ fixed = S.fixed /\ status = S.status /\ unsat = S.unsat
      /\ proof = S.proof /\ accepted = S.accepted
  BY <1>1, <1>2, <1>3
<1> HIDE DEF Begun
<1>5. /\ start.clauses \in Seq(SUBSET Lits)
      /\ start.frozen \subseteq Vars /\ start.assumptions \subseteq Lits
  BY CallsAssumption
<1>6. L \in SUBSET Lits
  BY <1>2, <1>5, LitFacts
<1>7. S \in With(VarsOf(L))
  <2>1. PICK W : W = {}
    OBVIOUS
  <2>2. W \in SUBSET Vars /\ Added(start.clauses) \in With(W)
    BY <1>5, <2>1, AddedWith
  <2>3. S \in With(W \cup VarsOf(L))
    BY <1>3, <1>6, <2>2, InternalizedWith
  <2>4. W \cup VarsOf(L) = VarsOf(L)
    BY <2>1
  <2>5. QED
    BY <2>3, <2>4
<1>8. S \in States
  BY <1>7 DEF With
<1>9. Typed
  <2>1. /\ db \in Bags(ClauseSet) /\ proof \in Bags(SUBSET Lits)
        /\ fixed \in SUBSET Lits /\ status \in [Vars -> Statuses]
        /\ unsat \in BOOLEAN /\ accepted \in BOOLEAN
    BY <1>4, <1>8 DEF States
  <2>2. tainted \in SUBSET Lits /\ extension \in Seq(Entries)
    BY DEF Init
  <2>3. QED
    BY <1>4, <1>5, <2>1, <2>2, BagsFacts DEF Typed
<1>10. FrozenKept
  BY <1>2, <1>4, <1>7 DEF With, FrozenKept, VarsOf
<1>11. ClausesLast
  <2> SUFFICES ASSUME ~unsat, NEW c \in DOMAIN db PROVE Lasts(c, status, Late)
    BY DEF ClausesLast, Clauses, BagToSet
  <2>1. Lasts(c, status, FALSE)
    BY <1>4, <1>7 DEF With
  <2>2. QED
    BY <2>1 DEF Lasts
<1>12. QED
  BY <1>9, <1>10, <1>11 DEF Kept

LEMMA NextKept == Kept /\ [Next]_allVars => Kept'
<1> SUFFICES ASSUME Kept, [Next]_allVars PROVE Kept'
  OBVIOUS
<1>1. CASE User \/ Call
  BY <1>1, KeptByUser, KeptByCall
<1>2. CASE Control \/ Search \/ Answer
  BY <1>2, KeptByControl, KeptBySearch, KeptByAnswer
<1>3. CASE Technique \/ Weakening
  BY <1>3, KeptByTechnique, KeptByWeakening
<1>4. CASE Finished \/ UNCHANGED allVars
  <2>1. /\ db' = db /\ fixed' = fixed /\ status' = status /\ unsat' = unsat
        /\ extension' = extension /\ tainted' = tainted /\ frozen' = frozen
        /\ assumptions' = assumptions /\ proof' = proof /\ accepted' = accepted
        /\ phase' = phase
    BY <1>4 DEF Finished, allVars, vars, dbVars, stackVars, userVars, proofVars
  <2>2. Typed' /\ FrozenKept'
    BY <2>1 DEF Kept, Typed, FrozenKept
  <2>3. ClausesLast'
    BY <2>1 DEF Kept, ClausesLast, Clauses, Late
  <2>4. QED
    BY <2>2, <2>3 DEF Kept
<1>5. QED
  BY <1>1, <1>2, <1>3, <1>4 DEF Next

--------------------------------------------------------------------------------
\* Every reachable state has its types: the clauses and the proof are bags of
\* clauses, the stack is a sequence of entries, each variable has a status.
THEOREM SimplifierTyped == Spec => []Typed
<1>1. Kept => Typed
  BY DEF Kept
<1>2. QED
  BY <1>1, InitKept, NextKept, PTL DEF Spec

\* No technique, inprocessing round, restoration or compaction takes a
\* variable the user has frozen or assumed (the assertions of compact.cpp and
\* the frozen () tests of every technique that removes variables).
THEOREM FrozenStays == Spec => []FrozenKept
<1>1. Kept => FrozenKept
  BY DEF Kept
<1>2. QED
  BY <1>1, InitKept, NextKept, PTL DEF Spec

\* When a variable is eliminated, substituted, pure or without an internal
\* index then no clause has it any more, but for redundant ones until the end
\* of the round that took it (the assertions that literals are active).
THEOREM RemovedIsGone == Spec => []NoClauseOfRemoved
<1>1. Kept => NoClauseOfRemoved
  <2> SUFFICES ASSUME Kept, ~unsat, NEW c \in Clauses
               PROVE  \/ c.redundant /\ phase \in {"elim", "block"}
                      \/ \A l \in c.lits : status[VarOf(l)] \in {"active", "fixed"}
    BY DEF NoClauseOfRemoved
  <2>1. Lasts(c, status, Late)
    BY DEF Kept, ClausesLast
  <2>2. QED
    BY <2>1 DEF Lasts, Late
<1>2. QED
  BY <1>1, InitKept, NextKept, PTL DEF Spec
================================================================================
