----------------------------- MODULE Simplifier -----------------------------
(***************************************************************************)
(* CaDiCaL used incrementally: the calls of the user (solver.cpp,          *)
(* external.cpp), the order in which solving runs the simplifications      *)
(* (internal.cpp), and the search, of which only its results are kept: it  *)
(* learns clauses that follow by unit propagation, forgets redundant ones, *)
(* and ends with an answer.  The search itself is module Cdcl.             *)
(***************************************************************************)
EXTENDS Elimination

CONSTANTS
  Starts,         \* bound: what the user may start with: clauses in their
                  \* order, frozen variables, assumptions and options
  Inputs,         \* bound: clauses that can be added later
  Questions,      \* bound: literals that can be assumed
  Freezable,      \* bound: variables that can be frozen
  MaxCalls,       \* bound: calls after the first answer, and lookaheads
  MaxLearned,     \* bound: redundant clauses at any time
  MaxStarts       \* bound: inprocessing and repeated rounds

\* Literals are those of the variables, and options are those of techniques.
ASSUME CallsAssumption ==
  /\ Inputs \subseteq SUBSET Lits /\ Questions \subseteq Lits /\ Freezable \subseteq Vars
  /\ \A start \in Starts :
       /\ start.clauses \in Seq(SUBSET Lits)
       /\ start.frozen \subseteq Vars /\ start.assumptions \subseteq Lits

VARIABLES
  enabled,        \* the techniques whose option is set (options.hpp), "learn" when
                  \* the limit of conflicts is not 0, "calls" when the user goes on
  agenda,         \* what is still to run after the current phase
  answer,         \* result of the last solve and the model
  calls, starts   \* counters for the bounds

controlVars == <<enabled, agenda, answer, calls, starts>>
allVars == <<vars, elimVars, controlVars>>

NoAnswer == [status |-> -1, model |-> {}]

(***************************************************************************)
(* Internal::probe, subsume, elim and condition run these in turn.         *)
(***************************************************************************)
Probing == <<"decompose", "ternary", "decompose", "deduplicate", "probe", "decompose">>
Subsuming == <<"subsume", "vivify", "transred">>
ElimRound == <<"elim", "instantiate", "subsume", "block", "cover", "bound">>
Preprocessing == Probing \o Subsuming \o ElimRound \o <<"condition">>
Lookahead == <<"decompose", "ternary", "decompose", "deduplicate", "probe">>

Techniques == ToSet(Preprocessing)

Enabled(plan) == SelectSeq(plan, LAMBDA t : t \in enabled \/ t \notin Techniques)

Calling ==
  /\ phase = "idle"
  /\ answer # NoAnswer \/ calls > 0
  /\ "calls" \in enabled /\ calls < MaxCalls
  /\ calls' = calls + 1

\* The first call after an answer resets the assumptions.
KeptAssumptions == IF answer = NoAnswer THEN assumptions ELSE {}

UserStep(S) ==
  /\ Become(S)
  /\ tainted' = S.tainted
  /\ UNCHANGED <<stackVars, elimVars, phase, enabled, agenda, starts>>

AddClause ==
  /\ Calling
  /\ \E C \in Inputs :
       /\ UserStep(Adding(State, C))
       /\ original' = original \cup {C}
  /\ assumptions' = KeptAssumptions
  /\ answer' = NoAnswer
  /\ UNCHANGED frozen

Assume ==
  /\ Calling
  /\ \E l \in Questions :
       /\ UserStep(Internalized(State, {l}))
       /\ assumptions' = KeptAssumptions \cup {l}
  /\ answer' = NoAnswer
  /\ UNCHANGED <<original, frozen>>

\* freeze and melt internalize their literal and keep the state of the solver.
Freeze ==
  /\ Calling
  /\ \E v \in Freezable \ frozen :
       /\ UserStep(Internalized(State, {v}))
       /\ frozen' = frozen \cup {v}
  /\ UNCHANGED <<original, assumptions, answer>>

Melt ==
  /\ Calling
  /\ \E v \in frozen :
       /\ UserStep(Internalized(State, {v}))
       /\ frozen' = frozen \ {v}
  /\ UNCHANGED <<original, assumptions, answer>>

\* A call that works on the clauses restores those a tainted literal needs.
Begin(plan) ==
  /\ RestoreClauses
  /\ phase' = "start"
  /\ agenda' = Enabled(plan)
  /\ UNCHANGED <<starts, original, frozen, elimVars, enabled>>

\* solve and simplify start a new question; lookahead, which looks for a
\* literal to split on, keeps the state of the solver and the assumptions.
Run(plan) ==
  /\ IF answer = NoAnswer THEN phase = "idle" /\ UNCHANGED calls ELSE Calling
  /\ Begin(plan)
  /\ assumptions' = KeptAssumptions
  /\ answer' = NoAnswer

Solve == Run(<<"search">>)
Simplify == Run(Preprocessing \o <<"return">>)

SplittingLiteral ==
  /\ phase = "idle"
  /\ "calls" \in enabled /\ calls < MaxCalls /\ calls' = calls + 1
  /\ Begin(Lookahead \o <<"literal">>)
  /\ UNCHANGED <<assumptions, answer>>

(***************************************************************************)
(* Moving on in the agenda.  A second decompose only follows a successful  *)
(* hyper ternary resolution, and an elimination that is not complete skips *)
(* the rest of its rounds.                                                 *)
(***************************************************************************)
GoTo(rest) ==
  /\ phase' = Head(rest)
  /\ agenda' = Tail(rest)

Untouchable == <<enabled, answer, calls, starts>>

\* The end of an elimination or blocking round drops the redundant clauses
\* of the variables that are gone.
Advance ==
  /\ ~unsat /\ phase \in Techniques \cup {"start"}
  /\ phase # "bound"
  /\ phase \notin {"elim", "instantiate", "subsume"} => ~Pending
  /\ phase = "elim" => attempt.at = "schedule"
  /\ GoTo(agenda)
  /\ attempt' = NoAttempt
  /\ IF phase \in {"elim", "block"} THEN ElimRewrite(StaleRedundant, EmptyBag, << >>)
     ELSE Idle
  /\ UNCHANGED <<elimbound, Untouchable>>

SkipDecompose ==
  /\ ~unsat /\ phase = "ternary" /\ Head(agenda) = "decompose"
  /\ GoTo(Tail(agenda))
  /\ Idle /\ UNCHANGED <<elimVars, Untouchable>>

\* The next round after subsume_round, block or cover had an effect.
NextElimRound ==
  /\ ~unsat
  /\ phase = "subsume" \/ (phase \in {"block", "cover"} /\ ~Pending)
  /\ \E i \in DOMAIN agenda :
       /\ agenda[i] = "bound"
       /\ GoTo(Enabled(ElimRound) \o SubSeq(agenda, i + 1, Len(agenda)))
  /\ starts < MaxStarts /\ starts' = starts + 1
  /\ IF phase = "block" THEN ElimRewrite(StaleRedundant, EmptyBag, << >>) ELSE Idle
  /\ UNCHANGED <<elimVars, enabled, answer, calls>>

\* The loop of elim () ends at a limit or complete; then the bound grows.
LeaveElim ==
  /\ ~unsat /\ ~Pending
  /\ phase = "instantiate"
  /\ \E i \in DOMAIN agenda :
       agenda[i] = "bound" /\ GoTo(SubSeq(agenda, i + 1, Len(agenda)))
  /\ Idle /\ UNCHANGED <<elimVars, Untouchable>>

CompleteElim ==
  /\ ~unsat /\ ~Pending
  /\ phase = "bound"
  /\ elimbound' = IncreasedBound
  /\ GoTo(agenda)
  /\ Idle
  /\ UNCHANGED <<attempt, Untouchable>>

\* Whatever is running propagates what is pending and collects garbage, with
\* the redundant clauses of eliminated variables in the loop of elim_round.
Clean ==
  /\ ~unsat
  /\ \/ phase \in {"instantiate", "block", "cover", "bound"} /\ Propagate
     \/ At("schedule") /\ GarbageCollection({c \in Clauses : Stale(c)})
     \/ phase \in {"block", "search"} /\ GarbageCollection({})
  /\ UNCHANGED <<phase, elimVars, controlVars>>

(***************************************************************************)
(* cdcl_loop_with_inprocessing.                                            *)
(***************************************************************************)
Searching == phase = "search" /\ ~unsat

LearnedNow == BagCardinality([c \in Redundant |-> db[c]])

Learn ==
  /\ Searching /\ "learn" \in enabled
  /\ \E C \in SUBSET {l \in Lits : Active(l)} :
       /\ C # {} /\ ~Tautological(C)
       /\ Cardinality(C) > 1 => LearnedNow < MaxLearned /\ C \notin LitsOf(Clauses)
       /\ Rup(LitsOf(Clauses) \cup Root, C)
       /\ IF Cardinality(C) = 1 THEN Rewrite(EmptyBag, EmptyBag, C, << >>)
          ELSE Rewrite(EmptyBag, One(Clause(C, TRUE)), {}, << >>)
  /\ UNCHANGED <<phase, elimVars, controlVars>>

Reduce ==
  /\ Searching
  /\ \E c \in Redundant : Discard(One(c))
  /\ UNCHANGED <<phase, elimVars, controlVars>>

Inprocess ==
  /\ Searching
  /\ starts < MaxStarts /\ starts' = starts + 1
  /\ \E plan \in {Probing, Subsuming, ElimRound, Subsuming \o ElimRound, <<"condition">>} :
       GoTo(Enabled(plan) \o <<"search">>)
  /\ Idle
  /\ UNCHANGED <<elimVars, enabled, answer, calls>>

Compact ==
  /\ Searching /\ ~CollectNeeded
  /\ status' = Compacted
  /\ status' # status
  /\ UNCHANGED <<db, fixed, unsat, stackVars, tainted, userVars, proofVars,
                 phase, elimVars, controlVars>>

(***************************************************************************)
(* The answer.  A satisfying assignment of the search gives all variables  *)
(* it has a value, the others are false until extend changes them.         *)
(***************************************************************************)
Return(a) ==
  /\ answer' = a
  /\ phase' = "idle"
  /\ agenda' = << >>
  /\ attempt' = NoAttempt
  /\ assumptions' = IF a.status = 0 THEN {} ELSE assumptions
  /\ UNCHANGED <<dbVars, stackVars, tainted, original, frozen, proofVars,
                 elimbound, enabled, calls, starts>>

Assigned(T) ==
  /\ fixed \cup assumptions \subseteq T
  /\ \A v \in Vars : status[v] = "unused" => -v \in T
  /\ \A C \in LitsOf(Clauses) : Satisfies(T, C)

Satisfiable10 ==
  /\ Searching
  /\ \E T \in Assignments : /\ Assigned(T)
                            /\ Return([status |-> 10, model |-> Extended(T)])

\* What the current call ends with: the search, the end of simplify, or the
\* literal of lookahead.
Goal == Last(<<phase>> \o agenda)

Unsatisfiable20 ==
  /\ phase # "idle" /\ Goal # "literal"
  /\ \/ unsat
     \/ phase = "search" /\ ~\E T \in Assignments : Assigned(T)
  /\ Return([status |-> 20, model |-> {}])

Interrupted ==
  /\ ~unsat /\ phase \in {"search", "return"}
  /\ Return([status |-> 0, model |-> {}])

\* lookahead returns its literal, or 0 when it refuted the clauses: that is no
\* answer yet.
GiveLiteral ==
  /\ phase # "idle" /\ Goal = "literal"
  /\ unsat \/ phase = "literal"
  /\ phase' = "idle" /\ agenda' = << >> /\ attempt' = NoAttempt
  /\ Idle
  /\ UNCHANGED <<elimbound, Untouchable>>

\* The user need not call anything.
Finished == phase = "idle" /\ UNCHANGED allVars

(***************************************************************************)
Technique ==
  /\ ~unsat
  /\ \/ SubsumeClause \/ StrengthenClause \/ RemoveDuplicate \/ HyperUnary
     \/ RemoveTransitive \/ TransitiveUnit
     \/ VivifySatisfied \/ VivifyImplied \/ VivifyStrengthen
     \/ TernaryResolve \/ FailedLiteral \/ HyperBinaryResolve
     \/ DecomposeConflict \/ DecomposeRound
  /\ UNCHANGED <<elimVars, controlVars>>

Weakening ==
  /\ ~unsat
  /\ \/ StartRound \/ TryVariable
     \/ ElimBinaryUnit \/ ElimBinaryDuplicate \/ ElimSatisfied \/ FindGateClauses
     \/ ResolveSatisfied \/ ResolveTautology \/ ResolveEmpty \/ ResolveUnit
     \/ ResolveSubsuming \/ CountResolvent \/ GiveUp \/ Bounded \/ AddResolvent
     \/ EliminateVariable
     \/ BackwardSkip \/ BackwardSatisfied \/ BackwardConnect \/ BackwardDone
     \/ BackwardPass \/ BackwardDropSatisfied \/ BackwardStop \/ BackwardSubsume
     \/ BackwardStrengthen \/ BackwardUnit \/ BackwardNext
     \/ InstantiateCandidate
     \/ BlockPureLiteral \/ BlockClause \/ CoverClause \/ ConditionClause
  /\ UNCHANGED controlVars

User == AddClause \/ Assume \/ Freeze \/ Melt
Call == Solve \/ Simplify \/ SplittingLiteral
Control == Advance \/ SkipDecompose \/ NextElimRound \/ LeaveElim \/ CompleteElim \/ Clean
Search == Learn \/ Reduce \/ Inprocess \/ Compact
Answer == Satisfiable10 \/ Unsatisfiable20 \/ Interrupted \/ GiveLiteral

Empty == [db |-> EmptyBag, fixed |-> {}, unsat |-> FALSE, tainted |-> {},
          status |-> [v \in Vars |-> "unused"], proof |-> EmptyBag, accepted |-> TRUE]

\* The user adds clauses one after the other.
Added(clauses) ==
  LET after[n \in 0..Len(clauses)] ==
        IF n = 0 THEN Empty ELSE Adding(after[n - 1], clauses[n])
  IN  after[Len(clauses)]

\* Status "unused": the variable has never occurred.
Init ==
  /\ extension = << >> /\ witness = {} /\ tainted = {}
  /\ \E start \in Starts :
       LET S == Internalized(Added(start.clauses),
                             start.frozen \cup start.assumptions) IN
       /\ original = ToSet(start.clauses)
       /\ enabled = start.options \cup {"bound"}
       /\ frozen = start.frozen /\ assumptions = start.assumptions
       /\ db = S.db /\ fixed = S.fixed /\ status = S.status /\ unsat = S.unsat
       /\ proof = S.proof /\ accepted = S.accepted
  /\ phase = "idle" /\ agenda = << >> /\ answer = NoAnswer
  /\ elimbound = 0 /\ attempt = NoAttempt /\ calls = 0 /\ starts = 0

Next == User \/ Call \/ Control \/ Search \/ Answer \/ Technique \/ Weakening \/ Finished

Spec == Init /\ [][Next]_allVars

(***************************************************************************)
(* Properties.                                                             *)
(***************************************************************************)
\* A model of what the solver still has, extended by the stack, satisfies
\* everything the user ever added, and the assumptions when it satisfies
\* those (External::check_assignment, check_assumptions_satisfied).  Between
\* calls tainted clauses may be missing.
ModelsExtend ==
  phase # "idle" /\ ~unsat =>
    \A T \in Models(LitsOf(Irredundant) \cup Root) :
      /\ \A C \in original : Satisfies(Extended(T), C)
      /\ assumptions \subseteq T => assumptions \subseteq Extended(T)

\* No technique loses the last model: what is satisfiable with the assumptions
\* stays so with all clauses, the redundant ones included.
ModelsKept ==
  Satisfiable(original \cup {{l} : l \in assumptions}) =>
    /\ ~unsat
    /\ Satisfiable(LitsOf(Clauses) \cup Root \cup {{l} : l \in assumptions})

\* No clause has a variable that is gone; redundant ones may until the end of
\* an elimination or blocking round (the assertions on active literals).  Once
\* the clauses are refuted they are left as they are.
NoClauseOfRemoved ==
  ~unsat => \A c \in Clauses :
    \/ c.redundant /\ phase \in {"elim", "block"}
    \/ \A l \in c.lits : status[VarOf(l)] \in {"active", "fixed"}

\* What the user refers to keeps its variable: frozen and assumed literals
\* survive every technique (the assertions of compact).
FrozenKept ==
  \A l \in frozen \cup assumptions : status[VarOf(l)] \in {"active", "fixed"}

\* The checker accepts every step of the proof (checker.cpp).
ProofAccepted == accepted

\* External::check_assignment: the model given satisfies every clause ever added.
\* A clause that elim_backward_clause drops because an earlier one was satisfied
\* is on no stack, and the model may violate it.
AnswerChecked == answer.status = 10 => \A C \in original : Satisfies(answer.model, C)

\* The answers are those an incremental solver promises.
Promise == INSTANCE IncrementalSat WITH clauses <- original, assumed <- assumptions,
                                       constrained <- {}
KeepsPromise == Promise!Spec
=============================================================================
