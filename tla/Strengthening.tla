---------------------------- MODULE Strengthening ----------------------------
(***************************************************************************)
(* The simplifications of CaDiCaL that keep the set of models: subsumption *)
(* and self-subsuming resolution (subsume.cpp), duplicated binary clauses  *)
(* (deduplicate.cpp), transitive reduction (transred.cpp), vivification    *)
(* (vivify.cpp), hyper ternary resolution (ternary.cpp), failed literal    *)
(* probing with hyper binary resolution (probe.cpp); and equivalent        *)
(* literal substitution (decompose.cpp), which needs the extension stack.  *)
(*                                                                         *)
(* An action is what the technique does to one candidate (decomposition:   *)
(* the whole round).  Schedules, scores and effort limits only choose the  *)
(* candidates and the moment to stop: any candidate may come next, and the *)
(* technique may end after any.                                            *)
(***************************************************************************)
EXTENDS ClauseDatabase

(***************************************************************************)
(* subsume_round and try_to_subsume_clause.  A redundant clause that       *)
(* subsumes an irredundant one takes its place.  Nothing is propagated.    *)
(***************************************************************************)
Subsumes(d, c) == d.lits \subseteq c.lits

Promoted(d, c) == IF d.redundant /\ ~c.redundant
                  THEN [gone |-> SetToBag({c, d}), new |-> One(Clause(d.lits, FALSE))]
                  ELSE [gone |-> One(c), new |-> EmptyBag]

SubsumeClause ==
  /\ phase = "subsume"
  /\ \E c \in Clauses : \E d \in BagToSet(Others(c)) :
       /\ Size(c) > 2
       /\ Untouched(c) /\ Untouched(d)
       /\ Subsumes(d, c)
       /\ LET p == Promoted(d, c) IN RewriteOver({}, status, p.gone, p.new, {}, << >>)
  /\ UNCHANGED phase

StrengthenClause ==
  /\ phase = "subsume"
  /\ \E c \in Clauses, d \in Clauses : \E l \in d.lits :
       /\ Size(c) > 2
       /\ Untouched(c) /\ Untouched(d)
       /\ -l \in c.lits /\ d.lits \ {l} \subseteq c.lits
       /\ RewriteOver({}, status, One(c), One(Without(c, -l)), {}, << >>)
  /\ UNCHANGED phase

(***************************************************************************)
(* mark_duplicated_binary_clauses_as_garbage: of two equal binary clauses  *)
(* a redundant one goes first; clauses l k and l -k give the unit l.       *)
(***************************************************************************)
RemoveDuplicate ==
  /\ phase = "deduplicate"
  /\ \E c \in Clauses : \E d \in BagToSet(Others(c)) :
       /\ Size(c) = 2 /\ d.lits = c.lits
       /\ \A l \in c.lits : Active(l)
       /\ ~c.redundant => ~d.redundant
       /\ Discard(One(c))
  /\ UNCHANGED phase

HyperUnary ==
  /\ phase = "deduplicate"
  /\ \E c, d \in Clauses : \E l \in c.lits \cap d.lits :
       /\ Size(c) = 2 /\ Size(d) = 2
       /\ Active(l)
       /\ Negated(c.lits \ {l}) = d.lits \ {l}
       /\ LearnUnit(l)
  /\ UNCHANGED phase

(***************************************************************************)
(* transred: what a literal implies through binary clauses of B.           *)
(***************************************************************************)
Step(B, S) ==
  S \cup {l \in Lits : \E k \in S \ {-l} : {-k, l} \in B}

Reach(B, l) ==
  LET closure[S \in SUBSET Lits] ==
        LET U == Step(B, S) IN IF U = S THEN S ELSE closure[U]
  IN  closure[{l}]

\* An irredundant clause is only compared with irredundant ones.
Paths(c, l) ==
  Reach({d.lits : d \in {e \in BagToSet(Others(c)) : c.redundant \/ ~e.redundant}}, l)

RemoveTransitive ==
  /\ phase = "transred"
  /\ \E c \in Clauses : \E src \in Negated(c.lits) :
       /\ Size(c) = 2 /\ Untouched(c)
       /\ c.lits \ {-src} \subseteq Paths(c, src)
       /\ Discard(One(c))
  /\ UNCHANGED phase

TransitiveUnit ==
  /\ phase = "transred"
  /\ \E c \in Clauses : \E src \in Negated(c.lits) :
       /\ Size(c) = 2 /\ Untouched(c)
       /\ Tautological(Paths(c, src))
       /\ LearnUnit(-src)
  /\ UNCHANGED phase

(***************************************************************************)
(* vivify_clause.  The negated literals of a candidate are assumed one     *)
(* after the other, without the candidate itself; an irredundant one only  *)
(* sees irredundant clauses (connect_watches (!redundant_mode)).           *)
(***************************************************************************)
VivifyView(c) ==
  {d.lits : d \in {e \in BagToSet(Others(c)) : c.redundant \/ ~e.redundant}}

Assumed(c, E) == Propagated(VivifyView(c), fixed \cup Negated(E))

\* The candidate is implied once E is assumed false: a conflict, or another
\* of its literals becomes true.  What is needed of it is the learned clause.
ImpliedBy(c, E) == Conflicting(VivifyView(c), Assumed(c, E))
Learned(c, E) ==
  IF ImpliedBy(c, E) THEN {E}
  ELSE {E \cup {l} : l \in (c.lits \ E) \cap (Assumed(c, E) \ fixed)}

\* Literals that became false while E was decided are not needed.
Decided(c, E) ==
  /\ ~ImpliedBy(c, E)
  /\ c.lits \cap Assumed(c, E) = {}
  /\ Current(c) \ E \subseteq Negated(Assumed(c, E))

Candidate(c) == Size(c) > 2 /\ ~SatisfiedRoot(c)

VivifySatisfied ==
  /\ phase = "vivify"
  /\ \E c \in Clauses : Size(c) > 2 /\ SatisfiedRoot(c) /\ Discard(One(c))
  /\ UNCHANGED phase

\* An irredundant clause that the others imply goes; so does a redundant one
\* when all the reasons were binary (only_binary_reasons).
BinaryView(c) == {D \in VivifyView(c) : Cardinality(D) = 2}

VivifyImplied ==
  /\ phase = "vivify"
  /\ \E c \in Clauses :
       /\ Candidate(c)
       /\ IF c.redundant
          THEN LET T == Propagated(BinaryView(c), fixed \cup Negated(c.lits))
               IN  Conflicting(BinaryView(c), T)
          ELSE \E E \in SUBSET Current(c) : Learned(c, E) # {}
       /\ Discard(One(c))
  /\ UNCHANGED phase

\* vivify_strengthen: the new clause is as redundant as the candidate was.
Shortened(c) ==
  {E \in SUBSET Current(c) : Decided(c, E)} \cup
  IF c.redundant THEN UNION {Learned(c, E) : E \in SUBSET Current(c)} ELSE {}

VivifyStrengthen ==
  /\ phase = "vivify"
  /\ \E c \in Clauses : \E D \in Shortened(c) :
       /\ Candidate(c)
       /\ D # {} /\ D # Current(c)
       /\ IF Cardinality(D) = 1
          THEN Rewrite(One(c), EmptyBag, D, << >>)
          ELSE Replace(c, Clause(D, c.redundant))
  /\ UNCHANGED phase

(***************************************************************************)
(* hyper_ternary_resolve: a binary resolvent replaces both clauses and is  *)
(* only redundant when both were; a ternary one is redundant.              *)
(***************************************************************************)
Known(C) == \E d \in Clauses : Size(d) \in {2, 3} /\ d.lits \subseteq C

TernaryResolve ==
  /\ phase = "ternary"
  /\ \E c, d \in Clauses : \E l \in c.lits :
       LET R == Resolvent(c.lits, d.lits, l) IN
       /\ Size(c) = 3 /\ Size(d) = 3
       /\ Untouched(c) /\ Untouched(d)
       /\ -l \in d.lits /\ Active(l)
       /\ ~Tautological(R)
       /\ Cardinality(R) <= 3
       /\ ~Known(R)
       /\ IF Cardinality(R) = 2
          THEN Rewrite(SetToBag({c, d}), One(Clause(R, c.redundant /\ d.redundant)),
                       {}, << >>)
          ELSE Rewrite(EmptyBag, One(Clause(R, TRUE)), {}, << >>)
  /\ UNCHANGED phase

(***************************************************************************)
(* probe_round: a probe is a root of the binary implication graph.         *)
(***************************************************************************)
BinaryNow == {Current(c) : c \in {d \in Clauses : ~SatisfiedRoot(d)
                                                  /\ Cardinality(Current(d)) = 2}}
Probe(l) ==
  /\ Active(l)
  /\ \E C \in BinaryNow : -l \in C
  /\ \A C \in BinaryNow : l \notin C

Under(l) == Propagated(LitsOf(Clauses), fixed \cup {l})

\* failed_literal: the negation of the unique implication point, of the
\* literals between it and the probe, and of the probe.
FailedLiteral ==
  /\ phase = "probe"
  /\ \E p \in Lits :
       /\ Probe(p)
       /\ Conflicting(LitsOf(Clauses), Under(p))
       /\ \E uip \in Reach(BinaryNow, p) :
            /\ Active(uip) /\ Conflicting(LitsOf(Clauses), Under(uip))
            /\ Rewrite(EmptyBag, EmptyBag, {-uip, -p}, << >>)
  /\ UNCHANGED phase

\* hyper_binary_resolve: the dominator of the false literals of a reason,
\* with the forced literal, is a new clause; it replaces the reason when it
\* subsumes it, and then it is as redundant as the reason was.
HyperBinaryResolve ==
  /\ phase = "probe"
  /\ \E p \in Lits : \E c \in Clauses : \E l \in Current(c) :
     \E dom \in Reach(BinaryNow, p) :
       LET contained == -dom \in c.lits IN
       /\ Probe(p) /\ Active(dom)
       /\ Size(c) > 2 /\ ~SatisfiedRoot(c) /\ Cardinality(Current(c)) > 2
       /\ l \notin Reach(BinaryNow, p) /\ -l \notin Reach(BinaryNow, p)
       /\ Negated(Current(c) \ {l}) \subseteq Reach(BinaryNow, dom)
       /\ Rewrite(IF contained THEN One(c) ELSE EmptyBag,
                  One(Clause({-dom, l}, ~contained \/ c.redundant)), {}, << >>)
  /\ UNCHANGED phase

(***************************************************************************)
(* decompose_round.  Literals in a strongly connected component of the     *)
(* binary implication graph are equal; all but frozen ones are replaced by *)
(* the one with the smallest variable, and the extension stack keeps the   *)
(* equivalence.                                                            *)
(***************************************************************************)
ActiveBinary == {c.lits : c \in {d \in Clauses : Size(d) = 2 /\ \A l \in d.lits : Active(l)}}

\* (variant) Literals that are implied, but not equivalent.
Component_OneWay(l) == Reach(ActiveBinary, l)
Component(l) == {k \in Reach(ActiveBinary, l) : l \in Reach(ActiveBinary, k)}

Smallest(S) == CHOOSE l \in S : \A k \in S : VarOf(l) <= VarOf(k)

Representatives ==
  [l \in Lits |-> IF ~Active(l) \/ Frozen(l) THEN l ELSE Smallest(Component(l))]

Substituted(repr, c) == {repr[l] : l \in Current(c)} \ Negated(fixed)

EquivalenceEntries(v, r) == << Entry({-v}, {-v, r}), Entry({v}, {v, -r}) >>

DecomposeConflict ==
  /\ phase = "decompose"
  /\ \E l \in Lits : /\ Active(l) /\ -l \in Component(l)
                     /\ LearnUnit(l)
  /\ UNCHANGED phase

DecomposeRound ==
  /\ phase = "decompose"
  /\ \A l \in Lits : Active(l) => -l \notin Component(l)
  /\ LET repr == Representatives
         gone == {v \in Vars : repr[v] # v}
         changed == {c \in Clauses : \E l \in c.lits : repr[l] # l}
         rest == {c \in changed : /\ ~SatisfiedRoot(c)
                                  /\ ~Tautological(Substituted(repr, c))}
         large == {c \in rest : Cardinality(Substituted(repr, c)) > 1}
         new == Image(LAMBDA c : Clause(Substituted(repr, c), c.redundant), CopiesOf(large))
         F == LitsOf(BagToSet((db (-) CopiesOf(changed)) (+) new))
         units == UNION {Substituted(repr, c) : c \in rest \ large}
         values == VarsOf(Propagated(F, fixed \cup units))
         base == [v \in Vars |-> IF v \in gone /\ VarOf(repr[v]) \notin values
                                 THEN "substituted" ELSE status[v]]
         entries == FlattenSeq([v \in 1..Max(Vars) |->
                                  IF v \in gone \ values
                                  THEN EquivalenceEntries(v, repr[v]) ELSE << >>])
     IN  /\ gone # {}
         /\ RewriteOver(F, base, CopiesOf(changed), new, units, entries)
  /\ UNCHANGED phase
=============================================================================
