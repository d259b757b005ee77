--------------------------- MODULE IncrementalSat ---------------------------
(***************************************************************************)
(* What the solver promises to the program that uses it (cadical.hpp): the *)
(* user adds clauses and assumes literals, and an answer to solve is       *)
(* unknown, or satisfiable with a model of everything added and assumed,   *)
(* or unsatisfiable when there is no such model.  One more clause can be   *)
(* given as a constraint.  The assumptions and the constraint are gone     *)
(* with the first call after an answer that is not unknown.                *)
(***************************************************************************)
EXTENDS Formulas

VARIABLES clauses,    \* everything added so far
          assumed,    \* the literals assumed since the last answer
          constrained,\* the constraint, a set of at most one clause
          answer      \* the last answer, NoAnswer when the user went on

promiseVars == <<clauses, assumed, constrained, answer>>

NoAnswer == [status |-> -1, model |-> {}]
Answers  == [status : {-1, 0, 10, 20}, model : SUBSET Lits]

Wanted == clauses \cup constrained \cup {{l} : l \in assumed}

Init == /\ clauses \in SUBSET (SUBSET Lits)
        /\ assumed \in SUBSET Lits
        /\ constrained \in SUBSET (SUBSET Lits)
        /\ answer = NoAnswer

\* A call that changes the question: added clauses stay, assumptions last
\* until the next answer.
Ask ==
  /\ answer' = NoAnswer
  /\ clauses \subseteq clauses'
  /\ assumed' \subseteq Lits
  /\ answer = NoAnswer => assumed \subseteq assumed'
  /\ Cardinality(constrained') <= 1 /\ \A C \in constrained' : C \subseteq Lits
  /\ constrained' # {} \/ constrained = {} \/ answer.status \in {10, 20}

\* An unknown answer drops the assumptions at once.
Unknown == answer' = [status |-> 0, model |-> {}] /\ assumed' = {} /\ UNCHANGED constrained

Sat ==
  /\ \E T \in Models(Wanted) : answer' = [status |-> 10, model |-> T]
  /\ UNCHANGED <<assumed, constrained>>

Unsat ==
  /\ ~Satisfiable(Wanted)
  /\ answer' = [status |-> 20, model |-> {}]
  /\ UNCHANGED <<assumed, constrained>>

Solve ==
  /\ answer = NoAnswer
  /\ Unknown \/ Sat \/ Unsat
  /\ UNCHANGED clauses

Next == Ask \/ Solve

Spec == Init /\ [][Next]_promiseVars
=============================================================================
