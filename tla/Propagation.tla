---------------------------- MODULE Propagation ----------------------------
(***************************************************************************)
(* The data the search of CaDiCaL works on and the operations every part   *)
(* of it shares: the trail with its decision levels, assignment            *)
(* (propagate.cpp), the two watched literals of each clause (watch.cpp),   *)
(* unit propagation over the watch lists, and chronological backtracking,  *)
(* which keeps literals of lower levels on the trail (backtrack.cpp).      *)
(*                                                                         *)
(* A literal on the trail carries its level and its reason, the number of  *)
(* a clause or 0; the level of the search is the length of "control".      *)
(* The operators take and return the whole search state as a record, since *)
(* the functions of the code change several parts of it at once.           *)
(***************************************************************************)
EXTENDS Formulas, Sequences, SequencesExt

VARIABLES
  clauses,      \* Internal::clauses: number -> literals, redundant, garbage, pos
  watches,      \* literal -> sequence of watches [blit, clause]
  trail,        \* sequence of [lit, level, reason]
  propagated,   \* how many literals of the trail have been propagated
  control,      \* for each level its decision (0: none) and where it starts
  conflict,     \* the number of a falsified clause, or 0
  unsat,        \* Internal::unsat
  options       \* the options of the search (options.hpp)

searchVars == <<clauses, watches, trail, propagated, control, conflict, unsat>>

Search == [clauses |-> clauses, watches |-> watches, trail |-> trail,
           propagated |-> propagated, control |-> control,
           conflict |-> conflict, unsat |-> unsat]

Become(N) ==
  \E S \in {N} :
    /\ clauses' = S.clauses /\ watches' = S.watches /\ trail' = S.trail
    /\ propagated' = S.propagated /\ control' = S.control
    /\ conflict' = S.conflict /\ unsat' = S.unsat

Level(S) == Len(S.control)

TrueIn(S) == {S.trail[i].lit : i \in DOMAIN S.trail}
IsTrue(S, l) == l \in TrueIn(S)
IsFalse(S, l) == -l \in TrueIn(S)
Unassigned(S, l) == ~IsTrue(S, l) /\ ~IsFalse(S, l)

\* Internal::var: the place of a variable on the trail.
Position(S, l) == CHOOSE i \in DOMAIN S.trail : VarOf(S.trail[i].lit) = VarOf(l)
LevelOf(S, l) == S.trail[Position(S, l)].level
ReasonOf(S, l) == S.trail[Position(S, l)].reason

LitsIn(c) == ToSet(c.lits)

\* A set of positive numbers, smallest first.
InOrder(T) == SelectSeq([i \in 1..Max({0} \cup T) |-> i], LAMBDA i : i \in T)

Swapped(s, i, j) == [s EXCEPT ![i] = s[j], ![j] = s[i]]

(***************************************************************************)
(* Assignment.  A literal without a reason is a unit on level 0; with      *)
(* chronological backtracking a propagated literal gets the highest level  *)
(* of the other literals of its reason.                                    *)
(***************************************************************************)
Assigned(S, l, lvl, reason) ==
  [S EXCEPT !.trail = Append(@, [lit |-> l, level |-> lvl,
                                 reason |-> IF lvl = 0 THEN 0 ELSE reason])]

AssignedUnit(S, l) == Assigned(S, l, 0, 0)

\* (variant) the level of the search
AssignmentLevel_Current(S, l, c) == Level(S)
AssignmentLevel(S, l, c) ==
  IF options.chrono = 0 THEN Level(S)
  ELSE Max({0} \cup {LevelOf(S, k) : k \in LitsIn(S.clauses[c]) \ {l}})

Implied(S, l, c) == Assigned(S, l, AssignmentLevel(S, l, c), c)

\* search_assume_decision, and the pseudo level of decide for decision 0.
WithLevel(S, d) ==
  [S EXCEPT !.control = Append(@, [decision |-> d, start |-> Len(S.trail)])]

Decided(S, l) == Assigned(WithLevel(S, l), l, Level(S) + 1, 0)

(***************************************************************************)
(* Watches.  A new clause watches its first two literals.                  *)
(***************************************************************************)
Watching(S, l, blit, c) ==
  [S EXCEPT !.watches[l] = Append(@, [blit |-> blit, clause |-> c])]

WatchClause(S, c) ==
  LET s == S.clauses[c].lits IN Watching(Watching(S, s[1], s[2], c), s[2], s[1], c)

NewClauseNumber(S) == 1 + Max({0} \cup DOMAIN S.clauses)

WithClause(S, s, r) ==
  LET c == NewClauseNumber(S)
      n == [lits |-> s, redundant |-> r, garbage |-> FALSE, pos |-> 3] IN
  WatchClause([S EXCEPT !.clauses = [k \in DOMAIN @ \cup {c} |->
                                       IF k = c THEN n ELSE S.clauses[k]]], c)

IsBinary(S, c) == Len(S.clauses[c].lits) = 2

\* clear_watches and connect_watches on level 0: binary clauses first, and a
\* watch that is false already has its literal propagated again.
Connected(S) ==
  LET numbers == InOrder({c \in DOMAIN S.clauses : ~S.clauses[c].garbage})
      order == SelectSeq(numbers, LAMBDA c : IsBinary(S, c))
               \o SelectSeq(numbers, LAMBDA c : ~IsBinary(S, c))
      W == FoldLeft(WatchClause, [S EXCEPT !.watches = [l \in Lits |-> << >>]], order)
      late == {c \in ToSet(numbers) : /\ ~IsBinary(S, c)
                                      /\ ~IsTrue(S, S.clauses[c].lits[1])
                                      /\ ~IsTrue(S, S.clauses[c].lits[2])}
      again == {S.clauses[c].lits[i] : c \in late, i \in 1..2}
      places == {Position(S, l) - 1 : l \in {k \in again : IsFalse(S, k)}}
  IN  [W EXCEPT !.propagated = Min({@} \cup places)]

(***************************************************************************)
(* Propagation of one literal that became false, over its watches.  R is   *)
(* the search, the watches that stay and whether the loop was left.        *)
(***************************************************************************)
KeepWatch(R, w) == [R EXCEPT !.kept = Append(@, w)]

\* The replacement is searched from the saved position, then from the start.
Replacement(S, c) ==
  LET s == S.clauses[c].lits
      p == S.clauses[c].pos
      from == [i \in 1..(Len(s) - 2) |-> IF p + i - 1 <= Len(s) THEN p + i - 1
                                         ELSE p + i - 1 - (Len(s) - 2)]
      good == SelectSeq(from, LAMBDA k : ~IsFalse(S, s[k]))
  IN  IF good = << >> THEN 0 ELSE good[1]

\* The other watch becomes true.  With chrono > 1 a literal of the same
\* level is watched with it instead of the older false one.
ImpliedLarge(R, w, false, other) ==
  LET c == w.clause
      S == Implied(R.search, other, c)
      s == S.clauses[c].lits
      p == CHOOSE i \in 3..Len(s) : /\ LevelOf(S, s[i]) = LevelOf(S, other)
                                    /\ \A j \in 3..(i - 1) : LevelOf(S, s[j]) # LevelOf(S, other)
  IN  IF options.chrono > 1 /\ LevelOf(S, other) > LevelOf(S, false)
      THEN [R EXCEPT !.search =
              Watching([S EXCEPT !.clauses[c].lits = [s EXCEPT ![1] = other, ![2] = s[p], ![p] = false]],
                       s[p], other, c)]
      ELSE KeepWatch([R EXCEPT !.search = S], w)

VisitLarge(R, w, false) ==
  LET S == R.search
      c == w.clause
      s == S.clauses[c].lits
      other == IF s[1] = false THEN s[2] ELSE s[1]
      k == Replacement(S, c)
      P == IF k = 0 THEN S ELSE [S EXCEPT !.clauses[c].pos = k]
  IN  IF IsTrue(S, other) THEN KeepWatch(R, [w EXCEPT !.blit = other])
      ELSE IF k # 0 /\ IsTrue(S, s[k])
           THEN KeepWatch([R EXCEPT !.search = P], [w EXCEPT !.blit = s[k]])
      ELSE IF k # 0
           THEN [R EXCEPT !.search =
                   Watching([P EXCEPT !.clauses[c].lits = [s EXCEPT ![1] = other, ![2] = s[k], ![k] = false]],
                            s[k], false, c)]
      ELSE IF Unassigned(S, other) THEN ImpliedLarge(R, w, false, other)
      ELSE KeepWatch([R EXCEPT !.search.conflict = c, !.left = TRUE], w)

\* A conflict in a binary clause does not stop the loop at once.
VisitWatch(R, w, false) ==
  LET S == R.search IN
  IF R.left \/ IsTrue(S, w.blit) THEN KeepWatch(R, w)
  ELSE IF IsBinary(S, w.clause)
       THEN IF IsFalse(S, w.blit)
            THEN KeepWatch([R EXCEPT !.search.conflict = w.clause], w)
            ELSE KeepWatch([R EXCEPT !.search = Implied(S, w.blit, w.clause)], w)
  ELSE IF S.conflict # 0 THEN KeepWatch([R EXCEPT !.left = TRUE], w)
  ELSE IF S.clauses[w.clause].garbage THEN R
  ELSE VisitLarge(R, w, false)

PropagatedLiteral(S) ==
  LET false == -S.trail[S.propagated + 1].lit
      R == FoldLeft(LAMBDA X, w : VisitWatch(X, w, false),
                    [search |-> [S EXCEPT !.propagated = @ + 1], kept |-> << >>, left |-> FALSE],
                    S.watches[false])
  IN  [R.search EXCEPT !.watches[false] = R.kept]

Pending(S) == S.conflict = 0 /\ S.propagated < Len(S.trail)

(***************************************************************************)
(* Backtracking to level n: literals of level n or lower that come later   *)
(* on the trail stay, and are propagated again.                            *)
(***************************************************************************)
\* (variant) the literals that stay count as propagated
Backtracked_Propagated(S, n) ==
  LET start == S.control[n + 1].start
      kept == SelectSeq(SubSeq(S.trail, start + 1, Len(S.trail)), LAMBDA e : e.level <= n) IN
  IF n = Level(S) THEN S
  ELSE [S EXCEPT !.trail = SubSeq(@, 1, start) \o kept,
                 !.propagated = Min({@, start + Len(kept)}),
                 !.control = SubSeq(@, 1, n)]

Backtracked(S, n) ==
  IF n = Level(S) THEN S
  ELSE LET start == S.control[n + 1].start
           later == SubSeq(S.trail, start + 1, Len(S.trail)) IN
       [S EXCEPT !.trail = SubSeq(@, 1, start) \o SelectSeq(later, LAMBDA e : e.level <= n),
                 !.propagated = Min({@, start}),
                 !.control = SubSeq(@, 1, n)]
=============================================================================
