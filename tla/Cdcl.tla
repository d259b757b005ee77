-------------------------------- MODULE Cdcl --------------------------------
(***************************************************************************)
(* The search of CaDiCaL and the calls of the program that uses it:        *)
(* decisions under assumptions and a constraint (decide.cpp, assume.cpp,   *)
(* constrain.cpp), restarts, reduction of the learned clauses, local       *)
(* search and lucky phases before the search (internal.cpp, restart.cpp,   *)
(* reduce.cpp, walk.cpp, lucky.cpp), and termination from outside          *)
(* (solver.cpp).                                                           *)
(*                                                                         *)
(* Which variable is decided and with which phase is left open, so scores, *)
(* queue and target phases are not kept.  What simplification does to the  *)
(* clauses is module Simplifier; here no variable is eliminated.           *)
(***************************************************************************)
EXTENDS ConflictAnalysis

CONSTANTS
  Starts,          \* bound: what the user starts with: clauses, assumptions,
                   \* a constraint or << >>, options
  Inputs,          \* bound: clauses that can be added later
  Questions,       \* bound: literals that can be assumed later
  Constraints,     \* bound: constraints that can be given later
  MaxCalls,        \* bound: calls after the first one
  MaxReductions,   \* bound: reductions; their distance grows without limit
  MaxTerminates    \* bound: calls of terminate

VARIABLES
  state,           \* Solver::_state: "unknown", "solving", "satisfied", ...
  mode,            \* what solving is doing, "idle" outside of it
  lucky,           \* the lucky phases still to try
  saved,           \* Phases::saved as far as it matters, a set of literals
  walked,          \* stats.walk.minimum = 0: the best phases stay as they are
  due,             \* limits passed by a conflict: restart, rephase, reduce
  assumptions,     \* Internal::assumptions
  constraint,      \* Internal::constraint
  unsatConstraint, \* Internal::unsat_constraint
  failed,          \* literals with the flag "failed"
  markedFailed,    \* Internal::marked_failed
  forced,          \* Internal::termination_forced
  original,        \* External::original
  constrained,     \* External::constraint, a set of at most one clause
  answer,          \* the result and the model, NoAnswer when there is none
  calls, reductions, terminates   \* counters for the bounds

questionVars == <<assumptions, constraint, unsatConstraint, failed, markedFailed,
                  original, constrained>>
modeVars == <<lucky, saved, walked, due>>
boundVars == <<calls, reductions, terminates>>
vars == <<searchVars, options, state, mode, modeVars, questionVars, forced,
          answer, boundVars>>

NoAnswer == [status |-> -1, model |-> {}]

(***************************************************************************)
(* The calls that change the question.  The first one after a definite     *)
(* answer drops the assumptions and the constraint; after result 0 solving *)
(* itself has dropped the assumptions only.                                *)
(***************************************************************************)
Calling ==
  /\ mode = "idle"
  /\ answer # NoAnswer \/ calls > 0
  /\ calls < MaxCalls /\ calls' = calls + 1
  /\ state' = "unknown"
  /\ answer' = NoAnswer
  /\ UNCHANGED <<options, mode, modeVars, forced, reductions, terminates>>

Answered == state \in {"satisfied", "unsatisfied"}
Kept(x, empty) == IF Answered THEN empty ELSE x

\* (variant) the clause is simplified with the values of all levels
Adding_AllLevels(S, s) ==
  LET B == Backtracked(S, 0)
      t == SelectSeq(s, LAMBDA l : ~IsFalse(S, l)) IN
  IF S.unsat \/ \E l \in ToSet(s) : IsTrue(S, l) THEN B
  ELSE IF t = << >> THEN [B EXCEPT !.unsat = TRUE]
  ELSE IF Len(t) = 1 THEN AssignedUnit(B, t[1])
  ELSE WithClause(B, t, FALSE)

\* add_new_original_clause on level 0.
Adding(S, s) ==
  LET B == Backtracked(S, 0)
      t == SelectSeq(s, LAMBDA l : ~IsFalse(B, l)) IN
  IF \/ S.unsat \/ Tautological(ToSet(s)) \/ \E l \in ToSet(s) : IsTrue(B, l) THEN B
  ELSE IF t = << >> THEN [B EXCEPT !.unsat = TRUE]
  ELSE IF Len(t) = 1 THEN AssignedUnit(B, t[1])
  ELSE WithClause(B, t, FALSE)

AddClause ==
  /\ Calling
  /\ \E s \in Inputs : /\ Become(Adding(Search, s))
                       /\ original' = original \cup {ToSet(s)}
  /\ assumptions' = Kept(assumptions, << >>)
  /\ constraint' = Kept(constraint, << >>)
  /\ constrained' = Kept(constrained, {})
  /\ unsatConstraint' = Kept(unsatConstraint, FALSE)
  /\ failed' = Kept(failed, {}) /\ markedFailed' = Kept(markedFailed, TRUE)

Assume ==
  /\ Calling
  /\ \E l \in Questions :
       LET old == Kept(assumptions, << >>) IN
       assumptions' = IF l \in ToSet(old) THEN old ELSE Append(old, l)
  /\ constraint' = Kept(constraint, << >>)
  /\ constrained' = Kept(constrained, {})
  /\ unsatConstraint' = Kept(unsatConstraint, FALSE)
  /\ failed' = Kept(failed, {}) /\ markedFailed' = Kept(markedFailed, TRUE)
  /\ UNCHANGED <<searchVars, original>>

\* Internal::constrain on the clause s: values of level 0 simplify it.
Simplified(S, s) ==
  LET B == Backtracked(S, 0) IN
  IF Tautological(ToSet(s)) \/ \E l \in ToSet(s) : IsTrue(B, l)
  THEN [lits |-> << >>, failed |-> FALSE]
  ELSE LET t == SelectSeq(s, LAMBDA l : ~IsFalse(B, l))
       IN  [lits |-> t, failed |-> t = << >>]

Constrain ==
  /\ Calling
  /\ \E s \in Constraints :
       LET c == Simplified(Search, s) IN
       /\ constraint' = c.lits
       /\ unsatConstraint' = c.failed
       /\ constrained' = {ToSet(s)}
  /\ Become(Backtracked(Search, 0))
  /\ assumptions' = Kept(assumptions, << >>)
  /\ failed' = Kept(failed, {}) /\ markedFailed' = Kept(markedFailed, TRUE)
  /\ UNCHANGED original

(***************************************************************************)
(* Solver::failed computes the failed assumptions when first asked.        *)
(***************************************************************************)
Failed ==
  /\ mode = "idle" /\ state = "unsatisfied" /\ ~markedFailed
  /\ failed' = failed \cup Failing(Search, assumptions, IF unsatConstraint THEN constraint ELSE << >>)
  /\ markedFailed' = TRUE
  /\ UNCHANGED <<searchVars, options, state, mode, modeVars, assumptions, constraint,
                 unsatConstraint, original, constrained, forced, answer, boundVars>>

\* terminate can be called while another thread solves, and before.
Terminate ==
  /\ ~forced /\ terminates < MaxTerminates
  /\ forced' = TRUE
  /\ terminates' = terminates + 1
  /\ UNCHANGED <<searchVars, options, state, mode, modeVars, questionVars, answer,
                 calls, reductions>>

(***************************************************************************)
(* solve: what is left of an earlier call is dropped, then already_solved  *)
(* propagates on level 0.                                                  *)
(***************************************************************************)
Solve ==
  /\ mode = "idle"
  /\ IF answer = NoAnswer THEN UNCHANGED calls
     ELSE calls < MaxCalls /\ calls' = calls + 1
  /\ state' = "solving" /\ answer' = NoAnswer
  /\ mode' = "root"
  /\ Become(IF unsat \/ Kept(unsatConstraint, FALSE) THEN Search ELSE Backtracked(Search, 0))
  /\ assumptions' = Kept(assumptions, << >>)
  /\ constraint' = Kept(constraint, << >>)
  /\ constrained' = Kept(constrained, {})
  /\ unsatConstraint' = Kept(unsatConstraint, FALSE)
  /\ failed' = Kept(failed, {}) /\ markedFailed' = Kept(markedFailed, TRUE)
  /\ UNCHANGED <<options, modeVars, original, forced, reductions, terminates>>

\* init_search_limits: the next call counts anew to restarts and rephasing.
KeptLimits == due \cap {"reduce"}

\* The end of solve: result 0 drops the assumptions.
Return(a) ==
  /\ answer' = a
  /\ mode' = "idle" /\ lucky' = << >> /\ saved' = {} /\ due' = KeptLimits
  /\ forced' = FALSE
  /\ state' = IF a.status = 10 THEN "satisfied" ELSE IF a.status = 20 THEN "unsatisfied" ELSE "unknown"
  /\ assumptions' = IF a.status = 0 THEN << >> ELSE assumptions

Quiet == <<original, constrained, options, boundVars>>

ReturnUnknown ==
  /\ Return([status |-> 0, model |-> {}])
  /\ failed' = {} /\ markedFailed' = TRUE
  /\ UNCHANGED <<constraint, unsatConstraint, walked, Quiet>>

Solving == mode # "idle"
Ready == Solving /\ ~unsat /\ ~unsatConstraint /\ conflict = 0 /\ ~Pending(Search)

Stay == UNCHANGED <<options, state, mode, modeVars, questionVars, forced, answer, boundVars>>

\* Internal::satisfied, only asked with everything propagated.
Satisfied ==
  /\ Level(Search) >= Len(assumptions) + (IF constraint = << >> THEN 0 ELSE 1)
  /\ Len(trail) = Cardinality(Vars)

(***************************************************************************)
(* Propagation and conflicts, whatever part of solving they come from.     *)
(***************************************************************************)
PropagateLiteral ==
  /\ Solving /\ ~unsat /\ ~unsatConstraint /\ Pending(Search)
  /\ Become(PropagatedLiteral(Search))
  /\ Stay

Analyze ==
  /\ mode \in {"search", "failing"} /\ ~unsat /\ conflict # 0
  /\ \E S \in Analyzed(Search, Len(assumptions)) : Become(S)
  /\ due' = options.limits
  /\ UNCHANGED <<options, state, mode, lucky, saved, walked, questionVars, forced,
                 answer, boundVars>>

RootConflict ==
  /\ mode \in {"root", "reduce", "walk"} /\ ~unsat /\ conflict # 0
  /\ Become([Search EXCEPT !.unsat = TRUE])
  /\ Stay

Unsatisfiable ==
  /\ Solving
  /\ unsat \/ unsatConstraint
  /\ Return([status |-> 20, model |-> {}])
  /\ UNCHANGED <<searchVars, constraint, unsatConstraint, failed, markedFailed, walked, Quiet>>

(***************************************************************************)
(* decide: assumptions in their order, one level each, then the constraint,*)
(* then any variable with a phase out of "phases".                         *)
(***************************************************************************)
Open(phases) == {l \in phases : Unassigned(Search, l)}

NextAssumption == assumptions[Level(Search) + 1]

DecideAssumption ==
  /\ Level(Search) < Len(assumptions)
  /\ ~IsFalse(Search, NextAssumption)
  /\ Become(IF IsTrue(Search, NextAssumption) THEN WithLevel(Search, 0)
            ELSE Decided(Search, NextAssumption))

AtConstraint == Level(Search) = Len(assumptions) /\ constraint # << >>

OpenInConstraint == SelectSeq(constraint, LAMBDA l : Unassigned(Search, l))

DecideConstraint ==
  /\ AtConstraint
  /\ IF \E l \in ToSet(constraint) : IsTrue(Search, l) THEN Become(WithLevel(Search, 0))
     ELSE /\ OpenInConstraint # << >>
          /\ Become(Decided(Search, OpenInConstraint[1]))

DecideFree(phases) ==
  /\ Level(Search) >= Len(assumptions) /\ ~AtConstraint
  /\ \E l \in Open(phases) : Become(Decided(Search, l))

Decide(phases) ==
  /\ ~Satisfied
  /\ DecideAssumption \/ DecideConstraint \/ DecideFree(phases)
  /\ Stay

\* decide returns 20: an assumption is false, or all of the constraint.
DecideFails ==
  /\ Ready /\ ~Satisfied
  /\ mode \in {"saved", "failing"} \/ (mode = "search" /\ ~forced)
  /\ \/ Level(Search) < Len(assumptions) /\ IsFalse(Search, NextAssumption)
        /\ UNCHANGED unsatConstraint
     \/ AtConstraint /\ \A l \in ToSet(constraint) : IsFalse(Search, l)
        /\ unsatConstraint' = TRUE
  /\ markedFailed' = FALSE
  /\ Return([status |-> 20, model |-> {}])
  /\ UNCHANGED <<searchVars, constraint, failed, walked, Quiet>>

(***************************************************************************)
(* garbage_collection: useless clauses that are no reasons go, with those  *)
(* satisfied on level 0, which also loses its false literals.              *)
(***************************************************************************)
Reasons == {trail[i].reason : i \in DOMAIN trail}
RootTrue(S) == {S.trail[i].lit : i \in {j \in DOMAIN S.trail : S.trail[j].level = 0}}

Shortened(S, c) ==
  LET s == SelectSeq(c.lits, LAMBDA l : -l \notin RootTrue(S))
  IN  [c EXCEPT !.lits = s, !.pos = IF @ > Len(s) THEN 3 ELSE @]

FlushedWatches(S, gone, l) ==
  LET refresh(w) == LET s == S.clauses[w.clause].lits
                    IN  [w EXCEPT !.blit = IF s[1] = l THEN s[2] ELSE s[1]]
      left == SelectSeq(S.watches[l], LAMBDA w : w.clause \notin gone)
      new == [i \in DOMAIN left |-> refresh(left[i])]
  IN  SelectSeq(new, LAMBDA w : IsBinary(S, w.clause))
      \o SelectSeq(new, LAMBDA w : ~IsBinary(S, w.clause))

Collected(S, useless) ==
  LET satisfied == {c \in DOMAIN S.clauses : Satisfies(RootTrue(S), LitsIn(S.clauses[c]))}
      garbage == {c \in DOMAIN S.clauses : S.clauses[c].garbage}
      gone == (useless \cup satisfied \cup garbage) \ Reasons
      short == [S EXCEPT !.clauses = [c \in DOMAIN @ |->
                  IF c \in satisfied \cup garbage THEN @[c] ELSE Shortened(S, @[c])]]
      flushed == [short EXCEPT !.watches = [l \in Lits |-> FlushedWatches(short, gone, l)]]
  IN  [flushed EXCEPT !.clauses = [c \in DOMAIN @ \ gone |->
        IF c \in satisfied THEN [@[c] EXCEPT !.garbage = TRUE] ELSE @[c]]]

(***************************************************************************)
(* Before the search: local search, its two outcomes, and lucky phases.    *)
(***************************************************************************)
LuckyPhases == <<"trivially false", "trivially true", "forward true", "forward false",
                 "backward false", "backward true", "positive horn", "negative horn">>

FirstLucky ==
  IF options.lucky /\ assumptions = << >> /\ constraint = << >> THEN LuckyPhases ELSE << >>

GoToLucky == lucky' = FirstLucky /\ mode' = "lucky"

Walks == options.walk /\ constraint = << >>

Irredundant == InOrder({c \in DOMAIN clauses : ~clauses[c].redundant /\ ~clauses[c].garbage})

Inconsistent == \E l \in ToSet(assumptions) : IsFalse(Search, l) \/ -l \in ToSet(assumptions)

\* A walk ends at once with inconsistent assumptions, and with a clause they
\* falsify.
Falsified == {c \in ToSet(Irredundant) :
                LitsIn(clauses[c]) \subseteq Negated(TrueIn(Search) \cup ToSet(assumptions))}
Clashing == Inconsistent \/ Falsified # {}

Complete == {T \in Assignments : TrueIn(Search) \cup ToSet(assumptions) \subseteq T}

\* What a walk can find: assignments of all irredundant clauses.
Solutions ==
  {T \in Complete : \A c \in DOMAIN clauses :
                      clauses[c].redundant \/ Satisfies(T, LitsIn(clauses[c]))}

(***************************************************************************)
(* walk_round leaves the clauses collected, and connected with other       *)
(* literals in front: true ones come first, up to two of them.  T is the   *)
(* assignment it starts from; the flips move literals to the front as      *)
(* another T would.                                                        *)
(***************************************************************************)
TrueFirst(s, T) ==
  LET true == SelectSeq([i \in DOMAIN s |-> i], LAMBDA i : s[i] \in T)
      one == IF true = << >> THEN s ELSE Swapped(s, 1, true[1])
  IN  IF Len(true) < 2 THEN one ELSE Swapped(one, 2, true[2])

Walked(T) ==
  LET seen == {c \in ToSet(Irredundant) : ~Inconsistent /\ \A d \in Falsified : c < d}
      C == Collected(Search, {})
  IN  Connected([C EXCEPT !.clauses = [c \in DOMAIN @ |->
                   IF c \in seen THEN [@[c] EXCEPT !.lits = TrueFirst(@, T)] ELSE @[c]]])

Walk(some) == \E T \in some : Become(Walked(T))

\* local_search: no rounds, or rounds that end with inconsistent assumptions,
\* with a solution, or with neither.  Only the first solution ever is saved
\* (walk_save_minimum).
LocalSearch ==
  /\ Ready /\ mode = "root"
  /\ \/ GoToLucky /\ UNCHANGED <<searchVars, saved, walked>>
     \/ /\ Walks /\ Clashing
        /\ Walk(IF Inconsistent THEN {{}} ELSE Complete)
        /\ mode' = "failing" /\ UNCHANGED <<lucky, saved, walked>>
     \/ /\ Walks /\ ~Clashing
        /\ Walk(Complete)
        /\ GoToLucky /\ UNCHANGED <<saved, walked>>
     \/ /\ Walks /\ ~Clashing
        /\ Walk(Solutions)
        /\ saved' \in (IF walked THEN Assignments ELSE Solutions)
        /\ walked' = TRUE /\ mode' = "saved" /\ UNCHANGED lucky
  /\ UNCHANGED <<options, state, due, questionVars, forced, answer, boundVars>>

\* try_to_satisfy_formula_by_saved_phases gives up at its first conflict.
SavedConflict ==
  /\ mode = "saved" /\ ~unsat /\ conflict # 0
  /\ Become([Backtracked(Search, 0) EXCEPT !.conflict = 0])
  /\ GoToLucky
  /\ UNCHANGED <<options, state, saved, walked, due, questionVars, forced, answer, boundVars>>

OpenClauses == SelectSeq(Irredundant, LAMBDA c : \A l \in LitsIn(clauses[c]) : ~IsTrue(Search, l))

OpenLits(sign) == {l \in Lits : l * sign > 0 /\ Unassigned(Search, l)}

OpenOf(c, sign) == SelectSeq(clauses[c].lits, LAMBDA l : l \in OpenLits(sign))

\* The sign a lucky phase prefers, and whether it goes over the clauses.
Sign(p) == IF p \in {"trivially true", "forward true", "backward true", "positive horn"} THEN 1 ELSE -1
Horn(p) == p \in {"positive horn", "negative horn"}
Trivial(p) == p \in {"trivially false", "trivially true"}
Backward(p) == p \in {"backward false", "backward true"}

\* A clause without a literal of the sign ends a phase at once.
Hopeless(p) ==
  \/ Horn(p) /\ OpenClauses # << >> /\ OpenOf(OpenClauses[1], Sign(p)) = << >>
  \/ Trivial(p) /\ Level(Search) = 0 /\ \E c \in ToSet(OpenClauses) : OpenOf(c, Sign(p)) = << >>

Smallest(s, T) == IF s THEN CHOOSE l \in T : \A k \in T : VarOf(k) >= VarOf(l)
                  ELSE CHOOSE l \in T : \A k \in T : VarOf(k) <= VarOf(l)

LuckyLit(p) ==
  IF Horn(p) /\ OpenClauses # << >> THEN OpenOf(OpenClauses[1], Sign(p))[1]
  ELSE IF Horn(p) THEN Smallest(TRUE, OpenLits(-Sign(p)))
  ELSE Smallest(~Backward(p), OpenLits(Sign(p)))

LuckyDecide ==
  /\ Ready /\ mode = "lucky" /\ lucky # << >> /\ ~forced
  /\ Len(trail) < Cardinality(Vars) /\ ~Hopeless(Head(lucky))
  /\ Become(Decided(Search, LuckyLit(Head(lucky))))
  /\ Stay

\* unlucky: back to level 0 and on to the next phase.
Unlucky ==
  /\ mode = "lucky" /\ lucky # << >> /\ ~unsat
  /\ \/ conflict # 0
     \/ Ready /\ ~forced /\ Hopeless(Head(lucky))
  /\ Become([Backtracked(Search, 0) EXCEPT !.conflict = 0])
  /\ lucky' = Tail(lucky)
  /\ UNCHANGED <<options, state, mode, saved, walked, due, questionVars, forced, answer, boundVars>>

NoLuck ==
  /\ Ready /\ mode = "lucky" /\ lucky = << >>
  /\ mode' = "search" /\ saved' = {}
  /\ UNCHANGED <<searchVars, options, state, lucky, walked, due, questionVars, forced,
                 answer, boundVars>>

(***************************************************************************)
(* The loop of the search.                                                 *)
(***************************************************************************)
Searching == Ready /\ mode = "search" /\ ~Satisfied

Interrupted ==
  /\ \/ Searching /\ (forced \/ options.limited)
     \/ Ready /\ mode = "lucky" /\ lucky # << >> /\ forced
  /\ ReturnUnknown
  /\ Become(IF mode = "lucky" THEN Backtracked(Search, 0) ELSE Search)

Satisfiable10 ==
  /\ Ready /\ mode \in {"search", "saved", "lucky"} /\ Satisfied
  /\ mode = "lucky" => lucky # << >>
  /\ Return([status |-> 10, model |-> TrueIn(Search)])
  /\ UNCHANGED <<searchVars, constraint, unsatConstraint, failed, markedFailed, walked, Quiet>>

\* restart: the levels of assumptions and of the constraint stay, and any
\* number of levels whose decision would be made again.
Restart ==
  /\ Searching /\ ~forced /\ "restart" \in due
  /\ Level(Search) >= Len(assumptions) + 2
  /\ LET trivial == Len(assumptions) + (IF control[Len(assumptions) + 1].decision = 0 THEN 1 ELSE 0)
     IN  \E n \in trivial..(IF options.reusetrail THEN Level(Search) ELSE trivial) :
           Become(Backtracked(Search, n))
  /\ due' = due \ {"restart"}
  /\ UNCHANGED <<options, state, mode, lucky, saved, walked, questionVars, forced,
                 answer, boundVars>>

\* rephase starts from level 0; some rephasings are a walk.
Rephased == {"search"} \cup (IF options.walk THEN {"walk"} ELSE {})

\* (variant) the limit stays passed
Rephase_Again ==
  /\ Searching /\ ~forced /\ "rephase" \in due
  /\ Become(Backtracked(Search, 0))
  /\ mode' \in Rephased
  /\ UNCHANGED <<options, state, modeVars, questionVars, forced, answer, boundVars>>

Rephase ==
  /\ Searching /\ ~forced /\ "rephase" \in due
  /\ Become(Backtracked(Search, 0))
  /\ mode' \in Rephased
  /\ due' = due \ {"rephase"}
  /\ UNCHANGED <<options, state, lucky, saved, walked, questionVars, forced,
                 answer, boundVars>>

RephaseWalk ==
  /\ Ready /\ mode = "walk"
  /\ Walk(IF Inconsistent THEN {{}} ELSE Complete)
  /\ walked' \in {walked, walked \/ Solutions # {}}
  /\ mode' = "search"
  /\ UNCHANGED <<options, state, lucky, saved, due, questionVars, forced, answer, boundVars>>

(***************************************************************************)
(* reduce: some of the redundant clauses are useless.                      *)
(***************************************************************************)
OutOfOrderUnit == \E i \in DOMAIN trail : /\ Level(Search) > 0 /\ i > control[1].start
                                          /\ trail[i].level = 0

\* With units assigned out of order it first goes back to propagate them.
StartReduce ==
  /\ Searching /\ ~forced /\ "reduce" \in due /\ reductions < MaxReductions
  /\ OutOfOrderUnit
  /\ Become(Backtracked(Search, 0))
  /\ mode' = "reduce"
  /\ UNCHANGED <<options, state, modeVars, questionVars, forced, answer, boundVars>>

Reduce ==
  /\ \/ Searching /\ ~forced /\ "reduce" \in due /\ ~OutOfOrderUnit
     \/ Ready /\ mode = "reduce"
  /\ reductions < MaxReductions /\ reductions' = reductions + 1
  /\ \E useless \in SUBSET {c \in DOMAIN clauses : clauses[c].redundant} :
       Become(Collected(Search, useless))
  /\ due' = due \ {"reduce"} /\ mode' = "search"
  /\ UNCHANGED <<options, state, lucky, saved, walked, questionVars, forced, answer,
                 calls, terminates>>

SearchDecide == Searching /\ ~forced /\ Decide(options.phases)
SavedDecide == Ready /\ mode = "saved" /\ Decide(saved)
FailingDecide == Ready /\ mode = "failing" /\ Decide(options.phases)

(***************************************************************************)
Before == LocalSearch \/ SavedDecide \/ SavedConflict \/ FailingDecide
          \/ LuckyDecide \/ Unlucky \/ NoLuck
Loop == PropagateLiteral \/ Analyze \/ RootConflict \/ SearchDecide \/ Restart
        \/ Rephase \/ RephaseWalk \/ StartReduce \/ Reduce
Answer == Satisfiable10 \/ Unsatisfiable \/ DecideFails \/ Interrupted
Solver == Before \/ Loop \/ Answer
User == AddClause \/ Assume \/ Constrain \/ Failed \/ Terminate \/ Solve

Empty == [clauses |-> << >>, watches |-> [l \in Lits |-> << >>], trail |-> << >>,
          propagated |-> 0, control |-> << >>, conflict |-> 0, unsat |-> FALSE]

\* All variables have been declared (Solver::reserve).
Init ==
  /\ \E start \in Starts :
       LET S == FoldLeft(Adding, Empty, start.clauses)
           c == Simplified(S, start.constraint) IN
       /\ clauses = S.clauses /\ watches = S.watches /\ trail = S.trail
       /\ propagated = S.propagated /\ control = S.control
       /\ conflict = S.conflict /\ unsat = S.unsat
       /\ options = start.options
       /\ original = {ToSet(s) : s \in ToSet(start.clauses)}
       /\ assumptions = start.assumptions
       /\ constraint = c.lits
       /\ unsatConstraint = (c.failed /\ start.constraint # << >>)
       /\ constrained = {ToSet(start.constraint)} \ {{}}
  /\ failed = {} /\ markedFailed = TRUE
  /\ state = "unknown" /\ mode = "idle" /\ answer = NoAnswer
  /\ lucky = << >> /\ saved = {} /\ walked = FALSE /\ due = {} /\ forced = FALSE
  /\ calls = 0 /\ reductions = 0 /\ terminates = 0

\* The user need not call anything.
Finished == mode = "idle" /\ UNCHANGED vars

Next == Solver \/ User \/ Finished

\* Solving goes on by itself.  This is weak fairness of Solver, with "Solving"
\* in the place of "Solver is enabled": that solving is never stuck is what
\* the search for deadlocks shows, and while it lasts only terminate can come
\* from outside.
SolverMoves == Solving /\ UNCHANGED terminates
Fairness == []<>(~Solving) \/ []<><<SolverMoves>>_vars

Spec == Init /\ [][Next]_vars /\ Fairness
=============================================================================
