--------------------------- MODULE ClauseDatabase ---------------------------
(***************************************************************************)
(* What CaDiCaL knows of a formula and what every simplification step      *)
(* shares: the clauses (clause.cpp, collect.cpp), the root-level values    *)
(* and the status of the variables (flags.cpp), the extension stack that   *)
(* undoes eliminations in a model (extend.cpp, restore.cpp), and the proof *)
(* that is traced and checked on the fly (proof.cpp, checker.cpp).         *)
(*                                                                         *)
(* Clauses form a bag, since the solver keeps equal clauses side by side.  *)
(* Watches, occurrence lists, memory and the order of literals in a clause *)
(* are left out; so is the numbering of internal variables, of which only  *)
(* "has no internal variable" (status "unmapped", e2i = 0) is kept.        *)
(***************************************************************************)
EXTENDS Formulas, Sequences, SequencesExt

CONSTANTS MaxCopies,      \* bound: copies of one clause in the bag
          RestoreAll,     \* option restoreall: 0, 1 or 2
          RestoreFlush    \* option restoreflush

VARIABLES
  db,           \* Internal::clauses without garbage: a bag of clauses
  fixed,        \* the literals true on the root level
  status,       \* Flags::status of each variable
  unsat,        \* Internal::unsat
  extension,    \* External::extension, bottom first
  witness,      \* External::witness: the literals of the stack's witnesses
  tainted,      \* External::tainted
  frozen,       \* variables the user has frozen
  assumptions,  \* External::assumptions
  original,     \* External::original: what the user has added
  proof,        \* the clauses of the checker, a bag of literal sets
  accepted,     \* FALSE when the checker has stopped the program
  phase         \* what the solver is doing

proofVars == <<proof, accepted>>
userVars  == <<original, frozen, assumptions>>
stackVars == <<extension, witness>>
dbVars    == <<db, fixed, status, unsat>>
vars == <<dbVars, stackVars, tainted, userVars, proofVars, phase>>

Clause(C, r) == [lits |-> C, redundant |-> r]

Clauses == BagToSet(db)
Irredundant == {c \in Clauses : ~c.redundant}
Redundant == {c \in Clauses : c.redundant}
LitsOf(S) == {c.lits : c \in S}
One(c) == SetToBag({c})
Copies(e, B) == IF BagIn(e, B) THEN B[e] ELSE 0

\* The bag of F(c) for the copies c in B.
Image(F(_), B) ==
  LET from(e) == {c \in BagToSet(B) : F(c) = e}
  IN  [e \in {F(c) : c \in BagToSet(B)} |->
         Cardinality(UNION {{c} \X (1..B[c]) : c \in from(e)})]
BagOfLits(B) == Image(LAMBDA c : c.lits, B)

Occurring(l) == {c \in Irredundant : l \in c.lits}
Active(l) == status[VarOf(l)] = "active"

\* Assumed literals are frozen too, until the assumptions are reset.
Frozen(l) == VarOf(l) \in frozen \cup VarsOf(assumptions)
Root == {{l} : l \in fixed}
Current(c) == Reduced(c.lits, fixed)               \* without false literals
SatisfiedRoot(c) == Satisfies(fixed, c.lits)
Untouched(c) == VarsOf(c.lits) \cap VarsOf(fixed) = {}

(***************************************************************************)
(* The proof.  add_original_clause takes a clause as it is, an added       *)
(* derived clause has to follow by unit propagation, and deleting a clause *)
(* that is not there is an error; a clause satisfied on the root level is  *)
(* skipped by all three (Checker::tautological).                           *)
(***************************************************************************)
CheckerRoot(P) == Propagated(BagToSet(P), {})
Skipped(P, C) == Tautological(C) \/ Satisfies(CheckerRoot(P), C)
Inconsistent(P) == Refuted(BagToSet(P), {})
Derivable(P, added) ==
  \/ Inconsistent(P)
  \/ \A C \in added : Skipped(P, C) \/ Rup(BagToSet(P), C)

Deletable(P, gone) ==
  \/ Inconsistent(P)
  \/ \A C \in BagToSet(gone) :
       Skipped(P, C) \/ (BagIn(C, P) /\ Copies(C, P) >= Copies(C, gone))

\* (variant) Units are not traced.
UnitClauses_Untraced(U) == EmptyBag
UnitClauses(U) == SetToBag({{l} : l \in U})

\* New clauses first, then the units U and what they propagate, then the
\* empty clause if there is one, then the deletions.  A unit stays.
Trace(added, U, propagated, gone) ==
  LET with == proof (+) added
      units == with (+) UnitClauses(U)
      more == units (+) UnitClauses(propagated)
  IN  /\ accepted' = (/\ accepted
                      /\ Derivable(proof, BagToSet(added))
                      /\ Derivable(with, {{l} : l \in U})
                      /\ unsat' /\ ~unsat => Derivable(units, {{}})
                      /\ Deletable(more, gone))
      /\ proof' = more (-) gone

(***************************************************************************)
(* assign_unit, learn_unit_clause, propagate on level zero over the        *)
(* clauses F and, on a conflict, learn_empty_clause; mark_fixed for each   *)
(* new value, on top of the status base.                                   *)
(***************************************************************************)
Marked(base, L) == [v \in Vars |-> IF v \in VarsOf(L) THEN "fixed" ELSE base[v]]

AssignAndPropagate(F, base, U) ==
  LET T == Propagated(F, fixed \cup U)
      bad == Conflicting(F, T)
  IN  /\ unsat' = (unsat \/ bad)
      /\ fixed' = IF bad THEN fixed ELSE T
      /\ status' = IF bad THEN status ELSE Marked(base, T \ fixed)

\* External::push_clause_on_extension_stack: a clause with its witness.
Entry(W, C) == [witness |-> W, clause |-> C]

WitnessesOf(entries) == UNION {entries[i].witness : i \in DOMAIN entries}

Push(entries) ==
  /\ extension' = extension \o entries
  /\ witness' = witness \cup WitnessesOf(entries)

\* One simplification step: clauses go, clauses come, units are assigned and
\* propagated over F, variables get the status base.
RewriteOver(F, base, gone, new, U, entries) ==
  /\ db' = (db (-) gone) (+) new
  /\ AssignAndPropagate(F, base, U)
  /\ Push(entries)
  /\ Trace(BagOfLits(new), U \ fixed, fixed' \ (fixed \cup U), BagOfLits(gone))
  /\ UNCHANGED <<tainted, userVars>>

Rewrite(gone, new, U, entries) ==
  LET kept == (db (-) gone) (+) new IN
  /\ \A c \in BagToSet(new) : Copies(c, kept) <= MaxCopies
  /\ RewriteOver(LitsOf(BagToSet(kept)), status, gone, new, U, entries)

Discard(gone) == Rewrite(gone, EmptyBag, {}, << >>)

Replace(c, d) == Rewrite(One(c), One(d), {}, << >>)

LearnUnit(l) == Rewrite(EmptyBag, EmptyBag, {l}, << >>)

Size(c) == Cardinality(c.lits)

Others(c) == db (-) One(c)                  \* the database without this copy

Without(c, l) == Clause(c.lits \ {l}, c.redundant)

\* All copies of the clauses in S.
CopiesOf(S) == [c \in S |-> db[c]]

\* Units that were only propagated over some of the clauses (elim_propagate)
\* are pending until propagate () is called for all of them.
Pending ==
  LET F == LitsOf(Clauses)
      T == Propagated(F, fixed)
  IN  ~unsat /\ (T # fixed \/ Conflicting(F, T))

Propagate == Pending /\ Rewrite(EmptyBag, EmptyBag, {}, << >>)

(***************************************************************************)
(* garbage_collection: satisfied clauses go, and those in stale; false     *)
(* literals are removed from the others as long as two literals remain.    *)
(* Nothing is propagated.                                                  *)
(***************************************************************************)
Flushed(c) == IF Cardinality(Current(c)) < 2 THEN c
              ELSE Clause(Current(c), c.redundant)

CollectNeeded == \E c \in Clauses : SatisfiedRoot(c) \/ Flushed(c) # c

GarbageCollection(stale) ==
  CollectNeeded /\
  LET garbage == stale \cup {c \in Clauses : SatisfiedRoot(c)}
      shrunken == {c \in Clauses \ garbage : Flushed(c) # c}
  IN  RewriteOver({}, status, CopiesOf(garbage \cup shrunken),
                  Image(Flushed, CopiesOf(shrunken)), {}, << >>)

(***************************************************************************)
(* External::extend: from the top of the stack down, the witness of every  *)
(* clause the assignment T falsifies is made true.                         *)
(***************************************************************************)
Flip(T, e) == IF Satisfies(T, e.clause) THEN T
              ELSE (T \ Negated(e.witness)) \cup e.witness

\* (variant) The stack is gone through in the wrong direction.
Extended_BottomUp(T) == FoldLeft(Flip, T, extension)
Extended(T) == FoldLeft(Flip, T, Reverse(extension))

(***************************************************************************)
(* External::internalize of a literal: an unused or unmapped variable      *)
(* becomes active, an eliminated, substituted or pure one is reactivated,  *)
(* and the literal is tainted when its negation is a witness.              *)
(***************************************************************************)
\* (variant) Literals are not tainted.
Internalized_Untainted(S, L) ==
  [S EXCEPT !.status = [v \in Vars |-> IF v \in VarsOf(L) /\ S.status[v] # "fixed"
                                       THEN "active" ELSE S.status[v]]]
Internalized(S, L) ==
  [S EXCEPT
     !.status = [v \in Vars |->
                   IF v \in VarsOf(L) /\ S.status[v] # "fixed" THEN "active"
                   ELSE S.status[v]],
     !.tainted = S.tainted \cup {l \in L : -l \in witness}]

(***************************************************************************)
(* add_new_original_clause: false and repeated literals are dropped, a     *)
(* satisfied or tautological clause is skipped, an empty one makes the     *)
(* formula unsatisfiable and a unit is assigned and propagated.            *)
(* S carries the state through several additions.                          *)
(***************************************************************************)
NewOriginal(S, C) ==
  LET P == S.proof (+) SetToBag({C})
      D == Reduced(C, S.fixed)
      skip == S.unsat \/ Tautological(C) \/ Satisfies(S.fixed, C)
      B == IF Cardinality(D) < 2 THEN S.db ELSE S.db (+) One(Clause(D, FALSE))
      F == LitsOf(BagToSet(S.db))
      T == IF Cardinality(D) = 1 THEN Propagated(F, S.fixed \cup D) ELSE S.fixed
      bad == D = {} \/ Conflicting(F, T)
      P2 == P (+) UnitClauses(T \ (S.fixed \cup D))
  IN  IF skip THEN [S EXCEPT !.accepted = @ /\ Deletable(P, SetToBag({C})),
                             !.proof = P (-) SetToBag({C})]
      ELSE [S EXCEPT
              !.db = B,
              !.unsat = bad,
              !.fixed = IF bad THEN @ ELSE T,
              !.status = IF bad THEN @ ELSE Marked(@, T \ S.fixed),
              !.accepted = @ /\ (D = C \/ Derivable(P, {D})),
              !.proof = IF D = C THEN P2
                        ELSE (P2 (+) SetToBag({D})) (-) SetToBag({C})]

Adding(S, C) == NewOriginal(Internalized(S, C), C)

State == [db |-> db, fixed |-> fixed, status |-> status, unsat |-> unsat,
          tainted |-> tainted, proof |-> proof, accepted |-> accepted]

Become(S) ==
  /\ db' = S.db
  /\ fixed' = S.fixed
  /\ status' = S.status
  /\ unsat' = S.unsat
  /\ proof' = S.proof
  /\ accepted' = S.accepted

(***************************************************************************)
(* External::restore_clauses: one pass over the stack, bottom first.  A    *)
(* clause whose witness has a literal with a tainted negation is added     *)
(* again, and adding it may taint literals for the clauses above it.  With *)
(* restoreflush a clause that is satisfied anyway is dropped, and with     *)
(* restoreall the others are all added.                                    *)
(***************************************************************************)
RestoreEntry(R, e) ==
  LET hit == Negated(e.witness) \cap R.state.tainted # {}
      satisfied == RestoreFlush /\ Satisfies(R.state.fixed, e.clause)
  IN  IF satisfied THEN R
      ELSE IF hit \/ RestoreAll > 0 THEN [R EXCEPT !.state = Adding(R.state, e.clause)]
      ELSE [R EXCEPT !.kept = Append(@, e)]

Restored[n \in 0..Len(extension)] ==
  IF n = 0 THEN [state |-> State, kept |-> << >>]
  ELSE RestoreEntry(Restored[n - 1], extension[n])

RestoreClauses ==
  LET R == Restored[Len(extension)] IN
  IF unsat \/ (tainted = {} /\ RestoreAll < 2)
  THEN UNCHANGED <<dbVars, stackVars, tainted, proofVars>>
  ELSE /\ Become(R.state)
       /\ extension' = R.kept
       /\ witness' = WitnessesOf(R.kept)
       /\ tainted' = {}
=============================================================================
