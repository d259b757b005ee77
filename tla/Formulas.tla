------------------------------ MODULE Formulas ------------------------------
(***************************************************************************)
(* Propositional formulas as the SAT solver CaDiCaL sees them: a literal   *)
(* is a non-zero integer, a clause a set of literals, a formula a set of   *)
(* clauses.  Every module about the solver is built on these operators.    *)
(***************************************************************************)
EXTENDS Integers, FiniteSets

CONSTANT Vars        \* the variables, positive integers

ASSUME VarsAssumption == Vars \subseteq Nat \ {0} /\ IsFiniteSet(Vars)

Lits == Vars \cup {-v : v \in Vars}

VarOf(l) == IF l < 0 THEN -l ELSE l

VarsOf(S) == {VarOf(l) : l \in S}

Negated(S) == {-l : l \in S}

Tautological(C) == \E l \in C : -l \in C

\* A partial assignment is the set of its true literals.
Consistent(T) == \A l \in T : -l \notin T

Assignments == {P \cup {-v : v \in Vars \ P} : P \in SUBSET Vars}

Satisfies(T, C) == T \cap C # {}

Models(F) == {T \in Assignments : \A C \in F : Satisfies(T, C)}

Satisfiable(F) == \E T \in Assignments : \A C \in F : Satisfies(T, C)

Entails(F, C) == \A T \in Models(F) : Satisfies(T, C)

\* The literals a clause still has once the literals T are true.
Reduced(C, T) == C \ Negated(T)

(***************************************************************************)
(* Unit propagation of F from the true literals T.                         *)
(***************************************************************************)
UnitsUnder(F, T) ==
  UNION {Reduced(C, T) : C \in {D \in F : /\ ~Satisfies(T, D)
                                          /\ Cardinality(Reduced(D, T)) = 1}}

Propagated(F, T) ==
  LET closure[S \in SUBSET Lits] ==
        LET U == S \cup UnitsUnder(F, S) IN
        IF U = S \/ ~Consistent(S) THEN S ELSE closure[U]
  IN  closure[T]

Conflicting(F, T) == ~Consistent(T) \/ \E C \in F : C \subseteq Negated(T)

\* What makes propagation fail; what a proof checker accepts as derived.
Refuted(F, T) == Conflicting(F, Propagated(F, T))

Rup(F, C) == Refuted(F, Negated(C))

Resolvent(C, D, l) == (C \ {l}) \cup (D \ {-l})
=============================================================================
