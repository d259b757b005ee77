----------------------------- MODULE Elimination -----------------------------
(***************************************************************************)
(* The simplifications of CaDiCaL that change the set of models and push   *)
(* what is needed to undo that on the extension stack: bounded variable    *)
(* elimination (elim.cpp) with gate detection (gates.cpp) and backward     *)
(* subsumption (backward.cpp), blocked clauses (block.cpp), covered        *)
(* clauses (cover.cpp), globally blocked clauses (condition.cpp); further  *)
(* the instantiation of literals (instantiate.cpp) and the compaction of   *)
(* the variables (compact.cpp).                                            *)
(*                                                                         *)
(* As in Strengthening, an action treats one candidate and the schedule    *)
(* may pick any.  The limits on clause sizes and occurrences are options   *)
(* beyond the size of any instance here.                                   *)
(***************************************************************************)
EXTENDS Strengthening

CONSTANT ElimBoundMax      \* option elimboundmax

VARIABLES
  elimbound,         \* lim.elimbound
  attempt            \* where elim_round is, and what it holds there

elimVars == <<elimbound, attempt>>

Nothing == Clause({}, FALSE)

NoAttempt ==
  [at        |-> "round",    \* the next step
   pivot     |-> 0,          \* of try_to_eliminate_variable
   gate      |-> {},         \* Eliminator::gates
   room      |-> 0,          \* resolvents that may still come
   todo      |-> EmptyBag,   \* pairs of clauses not yet resolved
   outer     |-> Nothing,    \* the clause of the outer loop
   queue     |-> << >>,      \* Eliminator::backward, the head not yet done
   left      |-> EmptyBag,   \* clauses to be compared with the head
   satisfied |-> FALSE]      \* the variable of that name of the comparison

At(point) == phase = "elim" /\ attempt.at = point
GoOn(next) == attempt' = next /\ UNCHANGED <<phase, elimbound>>

Number(S) == MapThenSumSet(LAMBDA c : db[c], S)          \* with the copies

\* A step that only moves on, one that changes clauses, and a unit that is
\* assigned but not propagated.
Idle == UNCHANGED <<dbVars, stackVars, tainted, userVars, proofVars>>
ElimRewrite(gone, new, entries) ==
  RewriteOver({}, status, gone, new, {}, entries)
Delay(U) == RewriteOver({}, status, EmptyBag, EmptyBag, U, << >>)

(***************************************************************************)
(* elim_propagate: the occurrence lists hold irredundant clauses only.     *)
(* Only clauses with the negation of a literal that is assigned now are    *)
(* visited, so one that earlier units made unit, but were not propagated,  *)
(* stays as it is.  Satisfied clauses that are met go.                     *)
(***************************************************************************)
Open(c) == {l \in c.lits : VarOf(l) \notin VarsOf(fixed)}

ElimAssign(U) ==
  LET T == Propagated(LitsOf({c \in Irredundant : Cardinality(Current(c)) > 1}),
                      fixed \cup U)
      met == {c \in Irredundant : c.lits \cap Negated(T \ fixed) # {}}
      satisfied == {c \in Irredundant : \/ Satisfies(T \ fixed, c.lits)
                                        \/ c \in met /\ SatisfiedRoot(c)}
  IN  RewriteOver(LitsOf(met), status,
                  IF Conflicting(LitsOf(met), T) THEN EmptyBag ELSE CopiesOf(satisfied),
                  EmptyBag, U, << >>)

(***************************************************************************)
(* elim_round: satisfied clauses go first, then any candidate may be tried *)
(* next.  try_to_eliminate_variable takes the literal with fewer           *)
(* occurrences as pivot; there may be elimbound more resolvents than       *)
(* clauses.                                                                *)
(***************************************************************************)
StartRound ==
  /\ At("round")
  /\ ElimRewrite(CopiesOf({c \in Irredundant : SatisfiedRoot(c)}), EmptyBag, << >>)
  /\ GoOn([attempt EXCEPT !.at = "schedule"])

\* (variant) Frozen variables are tried as well.
Pivot_Any(p) == Active(p)
Pivot(p) == Active(p) /\ ~Frozen(p)

\* The pivot of the attempt, as long as it has no value.
Trying(point) == {p \in Lits : At(point) /\ attempt.pivot = p /\ Pivot(p)}

TryVariable ==
  /\ At("schedule")
  /\ \E p \in {l \in Lits : Pivot(l)} :
       LET pos == Number(Occurring(p))
           neg == Number(Occurring(-p))
       IN  /\ pos < neg \/ (pos = neg /\ p > 0)
           /\ GoOn([attempt EXCEPT
                      !.pivot = p, !.gate = {},
                      !.at = IF pos = 0 THEN "bound" ELSE "gates",
                      !.room = elimbound + (IF pos = 0 THEN 0 ELSE pos + neg)])
  /\ Idle

(***************************************************************************)
(* mark_binary_literals and find_equivalence: two binary clauses of the    *)
(* pivot, or of its negation, that differ in the sign of the other literal *)
(* give a unit, and so do one of each that agree in it; of two equal ones  *)
(* one goes, and so do satisfied clauses that are met.  Only a unit of the *)
(* pivot is found whatever the order of the clauses.                       *)
(***************************************************************************)
BinaryOf(p) == {c \in Occurring(p) : /\ ~SatisfiedRoot(c)
                                     /\ Cardinality(Current(c)) = 2}
Second(c, p) == CHOOSE l \in Current(c) : l # p

BinaryUnits(p) ==
  {l \in {p, -p} : \E c, d \in BinaryOf(l) : Second(c, l) = -Second(d, l)}
    \cup {l \in Lits : /\ \E c \in BinaryOf(p) : Second(c, p) = l
                       /\ \E c \in BinaryOf(-p) : Second(c, -p) = l}

ElimBinaryUnit ==
  /\ \E p \in Trying("gates") : \E l \in BinaryUnits(p) : ElimAssign({l})
  /\ GoOn(attempt)

ElimBinaryDuplicate ==
  /\ \E p \in Trying("gates") : \E l \in {p, -p} : \E c, d \in BinaryOf(l) :
       /\ Second(c, l) = Second(d, l)
       /\ BagIn(d, Others(c))
       /\ ElimRewrite(One(c), EmptyBag, << >>)
  /\ GoOn(attempt)

ElimSatisfied ==
  /\ \E p \in Trying("gates") : \E c \in Occurring(p) \cup Occurring(-p) :
       SatisfiedRoot(c) /\ ElimRewrite(One(c), EmptyBag, << >>)
  /\ GoOn(attempt)

(***************************************************************************)
(* find_gate_clauses: the sets of clauses that define the pivot p, of the  *)
(* first kind there is one of.  The last two kinds leave out assigned      *)
(* literals, the true ones as well as the false ones.                      *)
(***************************************************************************)
Equivalences(p) ==
  {ToSet(pair) : pair \in {x \in BinaryOf(-p) \X BinaryOf(p) :
                              Second(x[1], -p) = -Second(x[2], p)}}

AndGates(p) ==
  LET inputs(c) == Negated(Current(c) \ {-p})
      short(c) == {d \in BinaryOf(p) : Second(d, p) \in inputs(c)}
  IN  {{c} \cup short(c) :
         c \in {e \in Occurring(-p) :
                  /\ Size(e) > 2 /\ ~SatisfiedRoot(e)
                  /\ inputs(e) \subseteq {Second(d, p) : d \in short(e)}}}

Is(c, C) == Open(c) = C

IfThenElses(p) ==
  LET branches(b, t, e) ==
        {ToSet(clauses) : clauses \in
           {x \in Occurring(p) \X Occurring(p) \X Occurring(-p) \X Occurring(-p) :
              /\ Is(x[1], {p, b, t}) /\ Is(x[2], {p, -b, e})
              /\ Is(x[3], {-p, b, -t}) /\ Is(x[4], {-p, -b, -e})}}
      distinct == {x \in Lits \X Lits \X Lits :
                     Cardinality(VarsOf({p, x[1], x[2], x[3]})) = 4}
  IN  UNION {branches(x[1], x[2], x[3]) : x \in distinct}

XorGates(p) ==
  LET flips(C) == {(C \ F) \cup Negated(F) :
                     F \in {G \in SUBSET C : Cardinality(G) % 2 = 0}}
      found(C) == {e \in Irredundant : Is(e, C)}
      first(C) == CHOOSE e \in found(C) : TRUE
  IN  {{first(C) : C \in flips(Open(d))} :
         d \in {e \in Occurring(p) :
                  /\ Cardinality(Open(e)) > 2
                  /\ \A C \in flips(Open(e)) : found(C) # {}}}

FirstOf(kinds) ==
  LET some == {i \in DOMAIN kinds : kinds[i] # {}} IN
  IF some = {} THEN {{}} ELSE kinds[Min(some)]

Gates(p) ==
  FirstOf(<<Equivalences(p), AndGates(p), AndGates(-p), IfThenElses(p), XorGates(p)>>)

\* With a gate G only a gate clause and one that is not are resolved; of a
\* clause in G one copy is the gate clause.
InGate(G, c) == IF c \in G THEN 1 ELSE 0

\* (variant) Gate clauses are resolved with each other only.
Times_Gate(G, c, d) ==
  IF G = {} THEN db[c] * db[d] ELSE InGate(G, c) * InGate(G, d)
Times(G, c, d) ==
  IF G = {} THEN db[c] * db[d]
  ELSE InGate(G, c) * (db[d] - InGate(G, d)) + InGate(G, d) * (db[c] - InGate(G, c))

Pairs(p, G) ==
  LET some == {x \in Occurring(p) \X Occurring(-p) : Times(G, x[1], x[2]) > 0}
  IN  [x \in some |-> Times(G, x[1], x[2])]

FindGateClauses ==
  /\ \E p \in Trying("gates") :
       /\ p \notin BinaryUnits(p)
       /\ \E G \in Gates(p) :
            GoOn([attempt EXCEPT !.at = "bound", !.gate = G, !.todo = Pairs(p, G)])
  /\ Idle

(***************************************************************************)
(* The pair resolved next: the outer loop is over the clauses of the       *)
(* pivot, the inner one over those of its negation, the shorter ones       *)
(* first, and pairs with garbage are passed over.                          *)
(***************************************************************************)
Waiting == {x \in BagToSet(attempt.todo) : {x[1], x[2]} \subseteq Irredundant}

NextPairs(p) ==
  {x \in Waiting \cap (Occurring(p) \X Occurring(-p)) :
     \A y \in Waiting : /\ y[1] = attempt.outer => x[1] = attempt.outer
                        /\ Size(x[1]) <= Size(y[1])
                        /\ x[1] = y[1] => Size(x[2]) <= Size(y[2])}

Done(x) == [attempt EXCEPT !.todo = @ (-) SetToBag({x}), !.outer = x[1]]

(***************************************************************************)
(* resolve_clauses.  While resolvents are counted ("bound") a unit is      *)
(* propagated, while they are added ("add") it is only assigned.           *)
(***************************************************************************)
Resolved(c, d, p) == Resolvent(Current(c), Current(d), p)

Shorter(x) == IF Size(x[1]) > Size(x[2]) THEN x[2] ELSE x[1]

\* A clash may be met before the true literal of the longer clause.
ResolveSatisfied ==
  \E p \in Trying("bound") \cup Trying("add") : \E x \in NextPairs(p) :
    /\ \E c \in {x[1], x[2]} :
         /\ SatisfiedRoot(c)
         /\ SatisfiedRoot(Shorter(x)) => c = Shorter(x)
         /\ ElimRewrite(One(c), EmptyBag, << >>)
    /\ GoOn(Done(x))

ResolveTautology ==
  /\ \E p \in Trying("bound") \cup Trying("add") : \E x \in NextPairs(p) :
       /\ ~SatisfiedRoot(Shorter(x))
       /\ Tautological(Resolved(x[1], x[2], p))
       /\ GoOn(Done(x))
  /\ Idle

Resolvable(x, p) ==
  /\ ~SatisfiedRoot(x[1]) /\ ~SatisfiedRoot(x[2])
  /\ ~Tautological(Resolved(x[1], x[2], p))

ResolveEmpty ==
  \E p \in Trying("bound") \cup Trying("add") : \E x \in NextPairs(p) :
    /\ Resolvable(x, p)
    /\ Resolved(x[1], x[2], p) = {}
    /\ RewriteOver({x[1].lits, x[2].lits}, status, EmptyBag, EmptyBag, {}, << >>)
    /\ GoOn(Done(x))

AssignUnit(U) == IF At("add") THEN Delay(U) ELSE ElimAssign(U)

ResolveUnit ==
  \E p \in Trying("bound") \cup Trying("add") : \E x \in NextPairs(p) :
    /\ Resolvable(x, p)
    /\ Cardinality(Resolved(x[1], x[2], p)) = 1
    /\ AssignUnit(Resolved(x[1], x[2], p))
    /\ GoOn(Done(x))

\* elim_on_the_fly_self_subsumption: a clause the resolvent subsumes is
\* replaced by it, and when it subsumes both one of them just goes.
Subsumed(x, R) == {c \in {x[1], x[2]} : Cardinality(Current(c)) > Cardinality(R)}

ResolveSubsuming ==
  \E p \in Trying("bound") \cup Trying("add") : \E x \in NextPairs(p) :
    LET R == Resolved(x[1], x[2], p) IN
    /\ Resolvable(x, p)
    /\ Cardinality(R) > 1
    /\ Subsumed(x, R) # {}
    /\ ElimRewrite(SetToBag(Subsumed(x, R)), One(Clause(R, FALSE)), << >>)
    /\ GoOn(Done(x))

Resolves(x, p) ==
  /\ Resolvable(x, p)
  /\ Cardinality(Resolved(x[1], x[2], p)) > 1
  /\ Subsumed(x, Resolved(x[1], x[2], p)) = {}

(***************************************************************************)
(* elim_resolvents_are_bounded, elim_add_resolvents, and the end of        *)
(* try_to_eliminate_variable: all clauses of the pivot go, and on the      *)
(* stack come all of them or those of the gate, the pivot's side first.    *)
(***************************************************************************)
CountResolvent ==
  /\ \E p \in Trying("bound") : \E x \in NextPairs(p) :
       /\ Resolves(x, p)
       /\ GoOn(IF attempt.room = 0
               THEN [attempt EXCEPT !.at = "backward", !.todo = EmptyBag]
               ELSE [Done(x) EXCEPT !.room = @ - 1])
  /\ Idle

\* The pivot was assigned.
GiveUp ==
  /\ At("gates") \/ At("bound")
  /\ Trying(attempt.at) = {}
  /\ GoOn([attempt EXCEPT !.at = "backward", !.todo = EmptyBag])
  /\ Idle

Bounded ==
  /\ \E p \in Trying("bound") :
       /\ Waiting = {}
       /\ GoOn(IF attempt.room >= 0
               THEN [attempt EXCEPT !.at = "add", !.outer = Nothing,
                                    !.todo = Pairs(p, attempt.gate)]
               ELSE [attempt EXCEPT !.at = "backward"])
  /\ Idle

AddResolvent ==
  \E p \in Trying("add") : \E x \in NextPairs(p) :
    LET r == Clause(Resolved(x[1], x[2], p), FALSE) IN
    /\ Resolves(x, p)
    /\ ElimRewrite(EmptyBag, One(r), << >>)
    /\ GoOn([Done(x) EXCEPT !.queue = Append(@, r)])

\* (variant) Only the pivot's side is saved.
Removed_OneSide(p, G) ==
  SetToSeq({Entry({p}, c.lits) : c \in IF G = {} THEN Occurring(p) ELSE Occurring(p) \cap G})
Removed(p, G) ==
  LET saved(l) == IF G = {} THEN Occurring(l) ELSE Occurring(l) \cap G
      entries(l) == SetToSeq({Entry({l}, c.lits) : c \in saved(l)})
  IN  entries(p) \o entries(-p)

EliminateVariable ==
  \E p \in Trying("add") :
    /\ Waiting = {}
    /\ RewriteOver({}, [status EXCEPT ![VarOf(p)] = "eliminated"],
                   CopiesOf(Occurring(p) \cup Occurring(-p)),
                   EmptyBag, {}, Removed(p, attempt.gate))
    /\ GoOn([attempt EXCEPT !.at = "backward", !.todo = EmptyBag, !.outer = Nothing])

(***************************************************************************)
(* elim_backward_clauses and elim_backward_clause: the head c of the queue *)
(* is compared with the other clauses of one of its literals, one with the *)
(* fewest; the occurrence lists hold garbage, so any may be that.          *)
(***************************************************************************)
Dequeued == [attempt EXCEPT !.at = "backward", !.queue = Tail(@),
                            !.left = EmptyBag, !.satisfied = FALSE]

BackwardSkip ==
  /\ At("backward") /\ attempt.queue # << >>
  /\ LET c == Head(attempt.queue) IN c \in Irredundant => Current(c) = {}
  /\ GoOn(Dequeued)
  /\ Idle

BackwardSatisfied ==
  /\ At("backward") /\ attempt.queue # << >>
  /\ \E c \in Irredundant :
       /\ c = Head(attempt.queue) /\ SatisfiedRoot(c)
       /\ ElimRewrite(One(c), EmptyBag, << >>)
  /\ GoOn(Dequeued)

BackwardConnect ==
  /\ At("backward") /\ attempt.queue # << >>
  /\ \E c \in Irredundant :
       /\ c = Head(attempt.queue) /\ ~SatisfiedRoot(c)
       /\ \E best \in Current(c) :
            GoOn([attempt EXCEPT !.at = "subsume",
                                 !.left = CopiesOf(Occurring(best)) (-) One(c)])
  /\ Idle

BackwardDone ==
  /\ At("backward") /\ attempt.queue = << >>
  /\ GoOn([NoAttempt EXCEPT !.at = "schedule"])
  /\ Idle

(***************************************************************************)
(* The loop of elim_backward_clause over the clauses d.  They are compared *)
(* by their literals without value, up to the first true one; which        *)
(* literal of d comes first is open.  satisfied is not reset between two   *)
(* clauses: after one that is satisfied all that are not smaller go.       *)
(***************************************************************************)
Clashes(c, d) == Current(d) \cap Negated(Current(c))
Matches(c, d) == /\ Cardinality(Clashes(c, d)) <= 1
                 /\ Current(c) \subseteq Current(d) \cup Negated(Clashes(c, d))

Compared ==
  {x \in Irredundant \X BagToSet(attempt.left) :
     /\ At("subsume")
     /\ x[1] = Head(attempt.queue)
     /\ x[2] \in Irredundant}
Large(x) == Size(x[2]) >= Cardinality(Current(x[1]))
Passed(d) == [attempt EXCEPT !.left = @ (-) One(d)]
Stopped == [attempt EXCEPT !.left = EmptyBag]

SatisfiedNow(d) == attempt.satisfied \/ SatisfiedRoot(d)

\* Two clashing literals end the loop: size becomes UINT_MAX.
TwoClash(x) == Cardinality(Clashes(x[1], x[2])) > 1

AfterDrop(x) ==
  (IF TwoClash(x) /\ attempt.satisfied THEN {Stopped} ELSE {}) \cup
  (IF TwoClash(x) /\ ~SatisfiedRoot(x[2]) THEN {}
   ELSE {[Passed(x[2]) EXCEPT !.satisfied = TRUE]})

BackwardPass ==
  /\ \E x \in Compared :
       /\ Large(x) => ~SatisfiedNow(x[2]) /\ ~Matches(x[1], x[2]) /\ ~TwoClash(x)
       /\ GoOn(Passed(x[2]))
  /\ Idle

BackwardDropSatisfied ==
  \E x \in Compared :
    /\ Large(x) /\ SatisfiedNow(x[2])
    /\ ElimRewrite(One(x[2]), EmptyBag, << >>)
    /\ \E next \in AfterDrop(x) : GoOn(next)

BackwardStop ==
  /\ \E x \in Compared :
       /\ Large(x) /\ ~attempt.satisfied /\ TwoClash(x)
       /\ GoOn(Stopped)
  /\ Idle

BackwardSubsume ==
  \E x \in Compared :
    /\ Large(x) /\ ~attempt.satisfied
    /\ Matches(x[1], x[2]) /\ Clashes(x[1], x[2]) = {}
    /\ ElimRewrite(One(x[2]), EmptyBag, << >>)
    /\ GoOn(Passed(x[2]))

\* A clause that is in the queue stays where it is there.
Requeued(d, e) ==
  IF \E i \in DOMAIN attempt.queue : attempt.queue[i] = d
  THEN [i \in DOMAIN attempt.queue |-> IF attempt.queue[i] = d THEN e ELSE attempt.queue[i]]
  ELSE Append(attempt.queue, e)

BackwardStrengthen ==
  \E x \in Compared : \E l \in Clashes(x[1], x[2]) :
    LET d == x[2] IN
    /\ Large(x) /\ ~attempt.satisfied
    /\ Matches(x[1], d)
    /\ Cardinality(Open(d)) > 2
    /\ ElimRewrite(One(d), One(Without(d, l)), << >>)
    /\ GoOn([Passed(d) EXCEPT !.queue = Requeued(d, Without(d, l))])

BackwardUnit ==
  \E x \in Compared : \E l \in Clashes(x[1], x[2]) :
    /\ Large(x) /\ ~SatisfiedNow(x[2])
    /\ Matches(x[1], x[2])
    /\ Cardinality(Current(x[2])) = 2
    /\ ElimAssign(Current(x[2]) \ {l})
    /\ GoOn(Stopped)

BackwardNext ==
  /\ At("subsume") /\ Compared = {}
  /\ GoOn(Dequeued)
  /\ Idle

(***************************************************************************)
(* mark_redundant_clauses_with_eliminated_variables_as_garbage.            *)
(***************************************************************************)
Stale(c) == c.redundant /\ \E l \in c.lits : status[VarOf(l)] \in {"eliminated", "pure"}

\* (variant) The redundant clauses are forgotten.
StaleRedundant_None == EmptyBag
StaleRedundant == CopiesOf({c \in Clauses : Stale(c)})

(***************************************************************************)
(* increase_elimination_bound.                                             *)
(***************************************************************************)
IncreasedBound ==
  LET next == CASE elimbound < 0 -> 0
                [] elimbound = 0 -> 1
                [] OTHER -> 2 * elimbound
  IN  IF elimbound >= ElimBoundMax THEN elimbound ELSE Min({next, ElimBoundMax})

(***************************************************************************)
(* instantiate_candidate: if l cannot be the only true literal of c then   *)
(* it is not needed in c.                                                  *)
(***************************************************************************)
InstantiateCandidate ==
  /\ phase = "instantiate" /\ ~Pending
  /\ \E c \in Irredundant : \E l \in Current(c) :
       /\ Pivot(l)
       /\ ~SatisfiedRoot(c) /\ Cardinality(Current(c)) > 2
       /\ \A k \in Current(c) : Active(k)
       /\ Refuted(LitsOf(Clauses), fixed \cup {l} \cup Negated(Current(c) \ {l}))
       /\ Replace(c, Without(c, l))
  /\ UNCHANGED <<phase, elimVars>>

(***************************************************************************)
(* block_pure_literal, and the two forms of the search for clauses that    *)
(* are blocked: every clause with -l clashes with c on another literal.    *)
(***************************************************************************)
Blockable(l) == /\ phase = "block" /\ ~Pending /\ ~CollectNeeded
                /\ Active(l) /\ ~Frozen(l)

BlockPureLiteral ==
  /\ \E l \in Lits :
       /\ Blockable(l)
       /\ Occurring(-l) = {}
       /\ RewriteOver({}, [status EXCEPT ![VarOf(l)] = "pure"],
                      CopiesOf(Occurring(l)), EmptyBag, {},
                      SetToSeq({Entry({l}, c.lits) : c \in Occurring(l)}))
  /\ UNCHANGED <<phase, elimVars>>

Clash(c, d, l) == \E k \in c.lits \ {l} : -k \in d.lits

IsBlockedClause(c, l) == \A d \in Occurring(-l) : Clash(c, d, l)

BlockClause ==
  /\ \E l \in Lits :
       /\ Blockable(l)
       /\ Occurring(-l) # {}
       /\ \E c \in Occurring(l) :
            /\ IsBlockedClause(c, l)
            /\ ElimRewrite(One(c), EmptyBag, <<Entry({l}, c.lits)>>)
  /\ UNCHANGED <<phase, elimVars>>

(***************************************************************************)
(* cover_clause.  A run extends the clause: A are the literals taken to be *)
(* false, covered those that are in the clause or were added for one of    *)
(* them, extend the entries for the stack.  First come the literals that   *)
(* propagation over the other irredundant clauses makes true (asymmetric   *)
(* literal addition), then those all resolvents on a covered literal share *)
(* (covered literal addition).                                             *)
(***************************************************************************)
OtherIrredundant(c) == {d \in BagToSet(Others(c)) : ~d.redundant}

Asymmetric(c, A) == Negated(Propagated(LitsOf(OtherIrredundant(c)), Negated(A)))

Candidates(l, A) ==
  {d.lits \ ({-l} \cup A) : d \in {e \in Occurring(-l) :
                                     ~Satisfies(Negated(A), e.lits \ {-l})}}

Intersection(S) == {l \in UNION S : \A C \in S : l \in C}

CoverStep(c, run) ==
  LET A == Asymmetric(c, run.added)
      hidden == Conflicting(LitsOf(OtherIrredundant(c)), Negated(A))
      extended(l) == Append(run.extend, Entry({l}, run.covered))
      usable == {l \in run.covered : ~Frozen(l)}
      blocking == {l \in usable : Candidates(l, A) = {}}
      adding == {l \in usable : Intersection(Candidates(l, A)) # {}}
  IN  IF run.tautological THEN {run}
      ELSE IF hidden THEN {[run EXCEPT !.added = A, !.tautological = TRUE]}
      ELSE {[run EXCEPT !.added = A, !.extend = extended(l), !.tautological = TRUE] :
              l \in blocking} \cup
           {[run EXCEPT !.added = A \cup Intersection(Candidates(l, A)),
                        !.covered = @ \cup Intersection(Candidates(l, A)),
                        !.extend = extended(l)] : l \in adding}

CoverRuns(c) ==
  LET start == [added |-> Current(c) \cup Negated(fixed), covered |-> Current(c),
                extend |-> << >>, tautological |-> FALSE]
      runs[n \in 0..2 * Cardinality(Vars)] ==
        IF n = 0 THEN {start} ELSE UNION {CoverStep(c, r) : r \in runs[n - 1]}
  IN  {r \in runs[2 * Cardinality(Vars)] : r.tautological}

CoverClause ==
  /\ phase = "cover" /\ ~Pending
  /\ ~RestoreFlush
  /\ \E c \in Irredundant :
       /\ ~SatisfiedRoot(c) /\ \E l \in c.lits : ~Frozen(l)
       /\ \E run \in CoverRuns(c) : Rewrite(One(c), EmptyBag, {}, run.extend)
  /\ UNCHANGED <<phase, elimVars>>

(***************************************************************************)
(* condition_round.  alpha is the trail, extended to all variables that    *)
(* are active and not frozen.  A literal of alpha is conditional when an   *)
(* irredundant clause needs its negation, so that unassigning the          *)
(* conditional literals not in c leaves an autarky.                        *)
(***************************************************************************)
Alphas == {T \in SUBSET {l \in Lits : Active(l) /\ ~Frozen(l)} :
             /\ Consistent(T)
             /\ VarsOf(T) = {v \in Vars : Active(v) /\ ~Frozen(v)}}

InitialConditional(alpha) ==
  UNION {Negated(c.lits) \cap alpha :
           c \in {d \in Irredundant : /\ ~SatisfiedRoot(d)
                                      /\ ~Satisfies(alpha, d.lits)}}

\* Conditional literals in the negation of c stay assigned, the others go.
Conditional(alpha, c) ==
  LET remaining(K) == alpha \ (K \ Negated(c.lits))
      more(K) == UNION {Negated(d.lits) \cap alpha :
                          d \in {e \in Irredundant :
                                   /\ ~SatisfiedRoot(e)
                                   /\ ~Satisfies(remaining(K), e.lits)}}
      after[n \in 0..Cardinality(Vars)] ==
        IF n = 0 THEN InitialConditional(alpha) ELSE after[n - 1] \cup more(after[n - 1])
  IN  after[Cardinality(Vars)]

ConditionClause ==
  /\ phase = "condition"
  /\ \E alpha \in Alphas : \E c \in Irredundant :
       LET autarky == alpha \ Conditional(alpha, c) IN
       /\ ~SatisfiedRoot(c)
       /\ c.lits \cap autarky # {}
       /\ Rewrite(One(c), EmptyBag, {}, <<Entry(autarky, c.lits)>>)
  /\ UNCHANGED <<phase, elimVars>>

(***************************************************************************)
(* compact: after a garbage collection the variables that are neither      *)
(* active nor fixed lose their internal variable.                          *)
(***************************************************************************)
Compacted == [v \in Vars |-> IF status[v] \in {"active", "fixed"} THEN status[v]
                             ELSE "unmapped"]
=============================================================================
