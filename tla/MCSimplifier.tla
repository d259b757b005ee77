---------------------------- MODULE MCSimplifier ----------------------------
(***************************************************************************)
(* Seven variables and a few first formulas.                               *)
(***************************************************************************)
EXTENDS Simplifier

MCVars == 1..7

\* Formulas of four variables, for the techniques given, with a search that
\* learns clauses and later calls.
Start(clauses, vs, as, techniques) ==
  [clauses |-> clauses \o << {5}, {6}, {7} >>, frozen |-> vs, assumptions |-> as,
   options |-> techniques \cup {"learn", "calls"}]

\* Formulas for bounded variable elimination alone; the pivots are the
\* variables that are not frozen.  While the resolvents of 1 are added a unit
\* turns up that is not propagated, so what follows meets clauses that it
\* satisfies or shortens.
Base == << {1, -5}, {-1, -5}, {1, 2, 3}, {1, -3, 5}, {-1, -3}, {-1, 2, 4}, {3, -4} >>

Pivots(clauses, pivots) ==
  [clauses |-> clauses, frozen |-> MCVars \ pivots, assumptions |-> {}, options |-> {"elim"}]

MCStarts == {
  Start(<< {1, 2}, {-1, 3}, {1, -2, 3} >>, {}, {},
        {"decompose", "ternary", "deduplicate", "transred", "elim"}),
  Start(<< {1, 2, 3}, {-1, -2}, {-1, -3} >>, {1}, {},
        {"cover"}),
  Start(<< {1, 2, 3}, {1, -2, -3}, {-1, 2, -3}, {-1, -2, 3} >>, {}, {-2},
        {"elim", "ternary", "vivify", "subsume"}),
  Start(<< {-1, 2}, {-1, 3}, {-2, -3, 4}, {-2, -3, -4} >>, {}, {},
        {"probe", "instantiate"}),
  Start(<< {1, 2}, {-1, 2}, {1, -2}, {-1, -2} >>, {}, {-2}, {"decompose", "deduplicate"}),
  Start(<< {1, 2}, {-1, 2, 3} >>, {1}, {-2}, {"block", "condition"}),
  Pivots(Base, {1, 2, 5}),
  Pivots(Base \o << {2, 6, 7}, {-6, 7} >>, {1, 6}),
  Pivots(Base \o << {6, -2}, {-6, -2} >>, {1, 6}),
  Pivots(Base \o << {1, 6}, {-1, 7}, {7, 2, 3}, {7, 2, 4} >>, {1}),
  Pivots(Base \o << {-1, 6}, {-4, -2, 5}, {-2, -1, 5} >>, {1}),
  Pivots(Base \o << {-2, 4, -5}, {1, -4, -5}, {-1, -2, -3}, {-1, 4} >>, {1, 2}),
  Pivots(<< {1, -2, 3}, {-1, -5}, {-1, -4, -5}, {1, -2}, {-2, 4, 5}, {1, 2, 4}, {-1, 3, 5} >>,
        {1}) }

MCInputs == {{-1}, {-2, -3}}
MCQuestions == {-2}
MCFreezable == {1}
=============================================================================
