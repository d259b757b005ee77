-------------------------- MODULE ConflictAnalysis --------------------------
(***************************************************************************)
(* What CaDiCaL does with a falsified clause: the level of the conflict    *)
(* after out-of-order assignments, the first unique implication point,     *)
(* shrinking and minimizing the learned clause, the level to go back to    *)
(* (analyze.cpp, minimize.cpp, shrink.cpp); and which assumptions an       *)
(* unsatisfiable answer needed (assume.cpp).                               *)
(*                                                                         *)
(* Bumping of scores and the glue of clauses are left out, and the caches  *)
(* of minimization (removable, poison), which repeat what was computed.    *)
(***************************************************************************)
EXTENDS Propagation

(***************************************************************************)
(* The actual conflict level.  Its first two literals of highest level     *)
(* become the watches of the conflict.                                     *)
(***************************************************************************)
ConflictLits(S) == S.clauses[S.conflict].lits

ConflictLevel(S) == Max({LevelOf(S, l) : l \in ToSet(ConflictLits(S))})

OnConflictLevel(S) ==
  {l \in ToSet(ConflictLits(S)) : LevelOf(S, l) = ConflictLevel(S)}

Unwatched(S, l, c) ==
  [S EXCEPT !.watches[l] = SelectSeq(@, LAMBDA w : w.clause # c)]

HighestFrom(S, s, i) ==
  CHOOSE j \in i..Len(s) :
    \A k \in i..Len(s) : \/ LevelOf(S, s[j]) > LevelOf(S, s[k])
                         \/ LevelOf(S, s[j]) = LevelOf(S, s[k]) /\ j <= k

\* (variant) the watches stay where they were
WatchHighest_NotWatched(S, i) ==
  LET s == ConflictLits(S)
  IN  [S EXCEPT !.clauses[S.conflict].lits = Swapped(s, i, HighestFrom(S, s, i))]

WatchHighest(S, i) ==
  LET s == ConflictLits(S)
      j == HighestFrom(S, s, i)
      M == [S EXCEPT !.clauses[S.conflict].lits = Swapped(s, i, j)]
  IN  IF j <= 2 THEN M
      ELSE Watching(Unwatched(M, s[i], S.conflict), s[j], s[3 - i], S.conflict)

AtConflictLevel(S) == FoldLeft(WatchHighest, S, <<1, 2>>)

(***************************************************************************)
(* The first unique implication point.  A set of trail positions that      *)
(* together falsify the conflict is resolved, latest position first, until *)
(* one of them is left on the highest level.                               *)
(***************************************************************************)
PositionsOf(S, lits) == {Position(S, l) : l \in {k \in lits : LevelOf(S, k) > 0}}

Antecedents(S, p) ==
  LET e == S.trail[p] IN PositionsOf(S, LitsIn(S.clauses[e.reason]) \ {e.lit})

OnLevel(S, P, n) == {p \in P : S.trail[p].level = n}

FirstUip(S) ==
  LET resolve[P \in SUBSET (DOMAIN S.trail)] ==
        LET T == OnLevel(S, P, Level(S)) IN
        IF Cardinality(T) = 1 THEN P
        ELSE resolve[(P \ {Max(T)}) \cup Antecedents(S, Max(T))]
  IN  resolve[PositionsOf(S, ToSet(ConflictLits(S)))]

Uip(S, P) == CHOOSE p \in OnLevel(S, P, Level(S)) : TRUE

(***************************************************************************)
(* minimize_literal: position p is redundant when its reason only needs    *)
(* kept positions "keep" and redundant ones.  "seen" are the positions of  *)
(* the clause, from which the tests that give up early are computed.       *)
(***************************************************************************)
GivenUp(S, seen, p, depth) ==
  LET l == OnLevel(S, seen, S.trail[p].level) IN
  \/ depth = 0 /\ Cardinality(l) < 2
  \/ l = {} \/ p <= Min(l)

RedundantPosition(S, keep, seen, p, depth) ==
  LET redundant[q \in DOMAIN S.trail] ==
        \/ q \in keep
        \/ /\ S.trail[q].reason # 0
           /\ S.trail[q].level # Level(S)
           /\ ~GivenUp(S, seen, q, IF q = p THEN depth ELSE 1)
           /\ \A a \in Antecedents(S, q) : redundant[a]
  IN  redundant[p]

\* The positions of the block B that stay, kept ones first to last.
MinimizedBlock(S, keep, seen, B) ==
  LET try(k, p) == IF options.minimize /\ RedundantPosition(S, k, seen, p, 0)
                   THEN k ELSE k \cup {p}
  IN  FoldLeft(try, keep, InOrder(B))

(***************************************************************************)
(* Shrinking: a block of one level is replaced by its own implication      *)
(* point, 0 when a literal of a lower level would be needed.               *)
(***************************************************************************)
\* (variant) literals of lower levels are taken to be redundant
BlockUip_IgnoresLower(S, keep, seen, B, n) ==
  LET walk[P \in SUBSET (DOMAIN S.trail)] ==
        IF Cardinality(P) = 1 THEN Max(P)
        ELSE walk[(P \ {Max(P)}) \cup OnLevel(S, Antecedents(S, Max(P)), n)]
  IN  walk[B]

BlockUip(S, keep, seen, B, n) ==
  LET walk[P \in SUBSET (DOMAIN S.trail)] ==
        LET u == Max(P)
            A == Antecedents(S, u)
            lower == A \ OnLevel(S, A, n) IN
        IF P = {u} THEN u
        ELSE IF \E q \in lower : ~RedundantPosition(S, keep, seen, q, 1) THEN 0
        ELSE walk[(P \ {u}) \cup OnLevel(S, A, n)]
  IN  walk[B]

\* M is what is kept and what counts as seen; blocks come lowest level first.
ShrunkenBlock(S, M, n) ==
  LET B == OnLevel(S, M.seen, n)
      u == BlockUip(S, M.keep, M.seen, B, n)
  IN  IF Cardinality(B) = 1 THEN [M EXCEPT !.keep = @ \cup B]
      ELSE IF options.shrink /\ u # 0
           THEN [keep |-> M.keep \cup {u}, seen |-> (M.seen \ B) \cup {u}]
      ELSE [M EXCEPT !.keep = MinimizedBlock(S, @, M.seen, B)]

\* The learned clause as positions; "shrink" off leaves plain minimization.
Minimized(S, P) ==
  LET lower == P \ OnLevel(S, P, Level(S))
      levels == InOrder({S.trail[p].level : p \in lower})
      shrunken == FoldLeft(LAMBDA M, n : ShrunkenBlock(S, M, n), [keep |-> {}, seen |-> P], levels)
  IN  (P \ lower) \cup (IF options.shrink THEN shrunken.keep
                        ELSE MinimizedBlock(S, {}, P, lower))

\* Later levels and later positions first: the watches come to the front.
TrailOrder(S, P) ==
  LET later(p, q) == \/ S.trail[p].level > S.trail[q].level
                     \/ S.trail[p].level = S.trail[q].level /\ p > q
      order == SortSeq(InOrder(P), later)
  IN  [i \in DOMAIN order |-> -S.trail[order[i]].lit]

(***************************************************************************)
(* The level to go back to: the jump level, the level below, or with       *)
(* trail reuse the level of the best variable, any level between.          *)
(***************************************************************************)
BacktrackLevels(S, jump, assumed) ==
  LET n == Level(S) IN
  IF options.chrono = 0 THEN {jump}
  ELSE IF options.chronoalways THEN {n - 1}
  ELSE IF jump >= n - 1 \/ jump < assumed THEN {jump}
  ELSE IF n - jump > options.chronolevelim THEN {n - 1}
  ELSE IF options.chronoreusetrail THEN (jump + 1)..(n - 1)
  ELSE {jump}

\* eagerly_subsume_recently_learned_clauses.
EagerlySubsumed(S, c) ==
  LET subsumed(d) == /\ d # c /\ options.eagersubsume
                     /\ S.clauses[d].redundant
                     /\ LitsIn(S.clauses[c]) \subseteq LitsIn(S.clauses[d])
  IN  [S EXCEPT !.clauses = [d \in DOMAIN @ |->
          IF subsumed(d) THEN [@[d] EXCEPT !.garbage = TRUE] ELSE @[d]]]

\* S is on the conflict level; the clause is learned, its literal driven.
Learned(S, P, n) ==
  LET s == TrailOrder(S, P)
      B == [Backtracked(S, n) EXCEPT !.conflict = 0]
      c == NewClauseNumber(B)
  IN  IF Len(s) = 1 THEN AssignedUnit(B, s[1])
      ELSE LET W == WithClause(B, s, TRUE)
           IN  EagerlySubsumed(Implied(W, s[1], c), c)

JumpLevel(S, P) ==
  LET s == TrailOrder(S, P) IN IF Len(s) = 1 THEN 0 ELSE LevelOf(S, s[2])

(***************************************************************************)
(* analyze: what it can leave behind.  A single literal on the conflict    *)
(* level is flipped without learning; a conflict on level 0 ends it all.   *)
(***************************************************************************)
Analyzed(S, assumed) ==
  LET C == IF options.chrono = 0 THEN S ELSE AtConflictLevel(S)
      n == ConflictLevel(C)
      forced == CHOOSE l \in OnConflictLevel(C) : TRUE
      flipped == Implied(Backtracked(C, n - 1), forced, C.conflict)
      L == IF options.chrono = 0 THEN C ELSE Backtracked(C, n)
      P == LET F == FirstUip(L) IN IF Cardinality(F) = 1 THEN F ELSE Minimized(L, F)
  IN  IF options.chrono # 0 /\ n > 0 /\ Cardinality(OnConflictLevel(C)) = 1
      THEN {[flipped EXCEPT !.conflict = 0]}
      ELSE IF Level(L) = 0 THEN {[L EXCEPT !.unsat = TRUE]}
      ELSE {Learned(L, P, m) : m \in BacktrackLevels(L, JumpLevel(L, P), assumed)}

(***************************************************************************)
(* Failed assumptions.  The decisions that the trail positions P rest on.  *)
(***************************************************************************)
\* (variant) only the direct reasons are followed
Roots_Direct(S, P) ==
  LET Q == P \cup UNION {Antecedents(S, q) : q \in {p \in P : S.trail[p].reason # 0}}
  IN  {S.trail[p].lit : p \in {q \in Q : S.trail[q].reason = 0}}
Roots(S, P) ==
  LET back[Q \in SUBSET (DOMAIN S.trail)] ==
        LET R == Q \cup UNION {Antecedents(S, q) : q \in {p \in Q : S.trail[p].reason # 0}} IN
        IF R = Q THEN Q ELSE back[R]
  IN  {S.trail[p].lit : p \in {q \in back[P] : S.trail[q].reason = 0}}

FirstOf(s, T) == s[Min({i \in DOMAIN s : s[i] \in T})]

\* failing: "as" are the assumptions, "con" the constraint if it failed.
Failing(S, as, con) ==
  LET false == {a \in ToSet(as) : IsFalse(S, a)}
      units == {a \in false : LevelOf(S, a) = 0}
      clashing == {a \in false : ReasonOf(S, a) = 0}
      lowest == Min({LevelOf(S, a) : a \in false})
      first == FirstOf(as, {a \in false : LevelOf(S, a) = lowest})
  IN  IF con # << >> THEN Roots(S, PositionsOf(S, Negated(ToSet(con))))
      ELSE IF units # {} THEN {FirstOf(as, units)}
      ELSE IF clashing # {} THEN {FirstOf(as, clashing), -FirstOf(as, clashing)}
      ELSE {first} \cup Roots(S, {Position(S, first)})
=============================================================================
