---------------------------- MODULE MiterSimulation ----------------------------
(***************************************************************************)
(* miterOneOutputRandom: one output of each circuit is simulated, PNUM     *)
(* patterns at a time, with the circuit-2 inputs driven as the match says. *)
(* Few driven circuit-1 inputs: all patterns, in rounds; many: SampleRounds *)
(* rounds of random patterns.  A word (bitset<PNUM>) is the set of the     *)
(* pattern positions that are 1.                                           *)
(***************************************************************************)
EXTENDS Gates, SequencesExt

CONSTANTS
    Problems,           \* the calls: [c1, c2, o1, o2, pairs, consts, limit], where
                        \* limit stands for 18, the inputs that are too many
    PNUM,               \* patterns in a word (8192)
    SampleRounds        \* 30

ASSUME MiterAssumption ==
    /\ PNUM \in Nat \ {0} /\ SampleRounds \in Nat \ {0}

InputsOf(ns) == {n \in DOMAIN ns : ns[n].type = "input"}

\* A netlist ABC has mapped: a gate has the fan-ins it reads, at most all of them
\* inverted, and no signal depends on itself.
Combinational(ns) ==
    /\ \A n \in DOMAIN ns :
          /\ ns[n].type \in GateTypes \cup PortTypes
          /\ ns[n].fi \in Seq(DOMAIN ns)
          /\ ns[n].inv \in 0..Len(ns[n].fi)
          /\ ns[n].type \in {"output", "wire", "BUF"} => ns[n].fi # <<>>
    /\ \A S \in SUBSET DOMAIN ns : S # {} => \E n \in S : ToSet(ns[n].fi) \cap S = {}

\* match_input calls with nodes of two circuits, and an input of circuit 2 has one
\* lock: to an input, to a constant, or none.
ASSUME ProblemsAssumption ==
    \A p \in Problems :
        /\ Combinational(p.c1) /\ Combinational(p.c2)
        /\ DOMAIN p.c1 \cap DOMAIN p.c2 = {}
        /\ p.o1 \in DOMAIN p.c1 /\ p.o2 \in DOMAIN p.c2
        /\ p.pairs \in Seq([c1 : InputsOf(p.c1), c2 : InputsOf(p.c2), neg : BOOLEAN])
        /\ p.consts \in Seq([c2 : InputsOf(p.c2), neg : BOOLEAN])
        /\ \A i, j \in DOMAIN p.pairs : p.pairs[i].c2 = p.pairs[j].c2 => i = j
        /\ \A i \in DOMAIN p.pairs, j \in DOMAIN p.consts : p.pairs[i].c2 # p.consts[j].c2

VARIABLES
    problem,    \* the arguments; never change
    order,      \* c1_input_set in the order its iteration has
    piValue,    \* the word of every input of both circuits
    time,       \* the round
    type,       \* 0: no round yet, 1: equal so far, 2: complementary so far
    pc          \* "round" or "done", when type is the value returned

vars == <<problem, order, piValue, time, type, pc>>

Patterns == 0..(PNUM - 1)
DrivenBy(p) == {p.pairs[i].c1 : i \in DOMAIN p.pairs}

Init ==
    /\ problem \in Problems
    /\ order \in SetToSeqs(DrivenBy(problem))
    /\ piValue = [n \in InputsOf(problem.c1) \cup InputsOf(problem.c2) |->
                     IF \E i \in DOMAIN problem.consts :
                           problem.consts[i].c2 = n /\ problem.consts[i].neg
                     THEN Patterns ELSE {}]
    /\ time = 0
    /\ type = 0
    /\ pc = "round"

\* (variant) the inverters are on the last fan-ins
Inverted_Last(node, i) == node.inv \in DOMAIN node.fi /\ i > Len(node.fi) - node.inv
\* The first inv fan-ins, unless inv is none of the cases the code lists.
Inverted(node, i) == node.inv \in DOMAIN node.fi /\ i <= node.inv

\* The word of every node; bitset<8192> b(1) is 1 in position 0 only.
miterGetResult(ns, pi) ==
    LET word[n \in DOMAIN ns] ==
            CASE ns[n].type = "input"  -> pi[n]
              [] ns[n].type = "ONEBUF" -> {0}
              [] OTHER -> {k \in Patterns :
                             GateValue(ns[n].type,
                                       [i \in DOMAIN ns[n].fi |->
                                          (k \in word[ns[n].fi[i]]) # Inverted(ns[n], i)])}
    IN word

\* The words of the circuit-2 inputs once those of circuit 1 are set.
Follow(pi) ==
    [n \in DOMAIN pi |->
        IF \E i \in DOMAIN problem.pairs : problem.pairs[i].c2 = n
        THEN LET p == problem.pairs[CHOOSE i \in DOMAIN problem.pairs : problem.pairs[i].c2 = n]
             IN IF p.neg THEN Patterns \ pi[p.c1] ELSE pi[p.c1]
        ELSE pi[n]]

\* 1 << n
TwoTo[n \in Nat] == IF n = 0 THEN 1 ELSE 2 * TwoTo[n - 1]

Driven == Len(order)
Exhaustive == Driven < problem.limit
end_index == IF TwoTo[Driven] <= PNUM THEN TwoTo[Driven] ELSE PNUM
Rounds == IF Exhaustive THEN (TwoTo[Driven] \div PNUM) + 1 ELSE SampleRounds

\* (variant) every round simulates the first patterns
Enumerated_SameWord(j) == {k \in Patterns : k < end_index /\ (k \div TwoTo[j - 1]) % 2 = 1}
\* The positions below end_index where the j-th input is 1 in this round.
Enumerated(j) ==
    {k \in Patterns : k < end_index /\ ((PNUM * time + k) \div TwoTo[j - 1]) % 2 = 1}

EnumeratedWords ==
    [n \in DOMAIN piValue |->
        IF n \in ToSet(order)
        THEN LET j == CHOOSE j \in DOMAIN order : order[j] = n
             IN Enumerated(j) \cup (piValue[n] \ 0..(end_index - 1))
        ELSE piValue[n]]
SampledWords(some) ==
    [n \in DOMAIN piValue |-> IF n \in ToSet(order) THEN some[n] ELSE piValue[n]]

\* 1 or 2 as the words are equal or complementary, 0 when neither.
Compared(pi) ==
    LET c1_out == miterGetResult(problem.c1, pi)[problem.o1]
        c2_out == miterGetResult(problem.c2, pi)[problem.o2]
    IN IF c1_out = c2_out THEN 1 ELSE IF c1_out = Patterns \ c2_out THEN 2 ELSE 0

\* The verdict so far: 0 as soon as two rounds differ.
Verdict(result) == IF type \in {0, result} THEN result ELSE 0

Simulate(words) ==
    /\ time < Rounds
    /\ piValue' = Follow(words)
    /\ type' = Verdict(Compared(piValue'))
    /\ time' = time + 1
    /\ pc' = IF type' = 0 \/ time' = Rounds THEN "done" ELSE "round"
    /\ UNCHANGED <<problem, order>>

AllPatterns == pc = "round" /\ Exhaustive /\ Simulate(EnumeratedWords)
RandomPatterns ==
    /\ pc = "round"
    /\ ~Exhaustive
    /\ \E some \in [ToSet(order) -> SUBSET Patterns] : Simulate(SampledWords(some))

Returned == pc = "done" /\ UNCHANGED vars

Next == AllPatterns \/ RandomPatterns \/ Returned
Spec == Init /\ [][Next]_vars /\ WF_vars(Next)

--------------------------------------------------------------------------------
(* Properties *)

\* What the two outputs compute when the driven circuit-1 inputs in ones are 1.
Agree(ones) ==
    LET value2(n) ==
            \/ \E i \in DOMAIN problem.pairs :
                  problem.pairs[i].c2 = n /\ (problem.pairs[i].c1 \in ones) # problem.pairs[i].neg
            \/ \E i \in DOMAIN problem.consts :
                  problem.consts[i].c2 = n /\ problem.consts[i].neg
        ones2 == {n \in InputsOf(problem.c2) : value2(n)}
    IN OutputValue(problem.c1, ones)[problem.o1] = OutputValue(problem.c2, ones2)[problem.o2]

Equal == \A ones \in SUBSET ToSet(order) : Agree(ones)
Complementary == \A ones \in SUBSET ToSet(order) : ~Agree(ones)

\* With few driven inputs the verdict is exact: the rounds simulate every
\* pattern, whatever the order of the set, the size of a word and what is left
\* of a round in the next.
VerdictExact ==
    pc = "done" /\ Exhaustive =>
        type = IF Equal THEN 1 ELSE IF Complementary THEN 2 ELSE 0

\* With many driven inputs a verdict errs on one side only: outputs that are
\* equal or complementary on all patterns are never refused or confused.
VerdictOneSided ==
    pc = "done" => /\ Equal => type = 1
                   /\ Complementary => type = 2
================================================================================
