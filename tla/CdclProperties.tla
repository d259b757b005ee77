--------------------------- MODULE CdclProperties ---------------------------
(***************************************************************************)
(* What makes the search of module Cdcl correct.                           *)
(***************************************************************************)
EXTENDS Cdcl

Live == {c \in DOMAIN clauses : ~clauses[c].garbage}

WatchesOf(l, c) == {i \in DOMAIN watches[l] : watches[l][i].clause = c}

\* Every clause is watched by its first two literals, once each, and by no
\* other; only a clause that became garbage may have lost a watch.  Blocking
\* literals are in the clause (assertion FW1 of flush_watches, collect.cpp).
WatchedFirst ==
  \A c \in DOMAIN clauses :
    LET s == clauses[c].lits IN
    /\ Len(s) > 1 /\ Cardinality(ToSet(s)) = Len(s)
    /\ \A l \in Lits : \A i \in WatchesOf(l, c) :
         watches[l][i].blit \in ToSet(s) \ {l}
    /\ c \in Live => \A l \in Lits :
         Cardinality(WatchesOf(l, c)) = IF l \in {s[1], s[2]} THEN 1 ELSE 0

\* When propagation is complete no clause is falsified or has a single
\* literal left, whatever was assigned out of order, kept by backtracking
\* or skipped for a blocking literal.
NothingMissed ==
  Ready => \A c \in Live :
    \/ \E l \in LitsIn(clauses[c]) : IsTrue(Search, l)
    \/ Cardinality({l \in LitsIn(clauses[c]) : Unassigned(Search, l)}) > 1

\* A literal with a reason is the only true one of it, all others are false
\* and earlier on the trail, and its level is the highest of theirs.
ReasonHolds(p) ==
  LET e == trail[p]
      others == LitsIn(clauses[e.reason]) \ {e.lit} IN
  /\ e.reason \in DOMAIN clauses
  /\ e.lit \in LitsIn(clauses[e.reason])
  /\ \A l \in others : IsFalse(Search, l) /\ Position(Search, l) < p
  /\ e.level = Max({LevelOf(Search, l) : l \in others})

\* The trail explains itself: each literal is a unit, a decision or implied.
\* The first levels belong to the assumptions in their order, the next to the
\* constraint, and what was assumed is true on its level or before.
TrailSound ==
  /\ Consistent(TrueIn(Search)) /\ Cardinality(TrueIn(Search)) = Len(trail)
  /\ \A p \in DOMAIN trail :
       \/ trail[p].level = 0
       \/ trail[p].reason # 0 /\ ReasonHolds(p)
       \/ trail[p].reason = 0 /\ control[trail[p].level].decision = trail[p].lit
  /\ \A n \in 1..Level(Search) :
       /\ control[n].decision # 0 => trail[control[n].start + 1].lit = control[n].decision
       /\ n <= Len(assumptions) /\ mode \in {"search", "failing"} =>
            /\ control[n].decision \in {0, assumptions[n]}
            /\ IsTrue(Search, assumptions[n]) /\ LevelOf(Search, assumptions[n]) <= n
       /\ n = Len(assumptions) + 1 /\ constraint # << >> /\ mode = "search" =>
            \E l \in ToSet(constraint) : IsTrue(Search, l) /\ LevelOf(Search, l) <= n

\* Learning, minimizing and collecting keep the meaning: the clauses and the
\* units of level 0 say what the user's clauses say, learned ones follow.
LearnedImplied ==
  /\ unsat => ~Satisfiable(original)
  /\ ~unsat =>
       /\ \A c \in DOMAIN clauses : clauses[c].redundant => Entails(original, LitsIn(clauses[c]))
       /\ Models({LitsIn(clauses[c]) : c \in {d \in DOMAIN clauses : ~clauses[d].redundant}}
                 \cup {{l} : l \in RootTrue(Search)})
            \subseteq Models(original)
       /\ \A l \in RootTrue(Search) : Entails(original, {l})

\* After an unsatisfiable answer the failed literals are assumptions, and with
\* them, and the constraint if it is said to have failed, the clauses have no
\* model (External::check_failing).
CoreRefutes ==
  state = "unsatisfied" /\ markedFailed =>
    /\ failed \subseteq ToSet(assumptions)
    /\ ~Satisfiable(original \cup {{l} : l \in failed}
                    \cup (IF unsatConstraint THEN constrained ELSE {}))

\* The answers are those an incremental solver promises.
Promise == INSTANCE IncrementalSat WITH clauses <- original, assumed <- ToSet(assumptions)
KeepsPromise == Promise!Spec

\* Solving comes to an end: conflicts, restarts, reductions, local search and
\* lucky phases never go on forever.
AnswersComeBack == state = "solving" ~> state # "solving"
=============================================================================
