------------------------------- MODULE MiterProofs ------------------------------
(***************************************************************************)
(* What miterOneOutputRandom computes: every position of the words it      *)
(* simulates is the netlist's own value under the inputs at that position, *)
(* so equal or complementary outputs are never refused or confused; and    *)
(* with few inputs the rounds simulate every pattern, so nothing else      *)
(* passes.                                                                 *)
(***************************************************************************)
EXTENDS MiterSimulation, Recursion

--------------------------------------------------------------------------------
(* The signals of a netlist are well defined.                              *)

\* The value of node n from values f of its fan-ins.
Signal(ns, ones, f, n) ==
    IF ns[n].type = "input" THEN n \in ones
    ELSE GateValue(ns[n].type,
                   [i \in DOMAIN ns[n].fi |-> f[ns[n].fi[i]] # (i <= ns[n].inv)])

\* A set of nodes with their fan-ins, and values that are right on it.
Closed(ns, D) == D \subseteq DOMAIN ns /\ \A n \in D : ToSet(ns[n].fi) \subseteq D
Solves(ns, ones, f, D) == \A n \in D : f[n] = Signal(ns, ones, f, n)

\* Only the fan-ins count.
LEMMA SignalSame ==
    ASSUME NEW ns, NEW ones, NEW f, NEW g, NEW n, \A m \in ToSet(ns[n].fi) : f[m] = g[m]
    PROVE  Signal(ns, ones, f, n) = Signal(ns, ones, g, n)
<1>1. \A i \in DOMAIN ns[n].fi : f[ns[n].fi[i]] = g[ns[n].fi[i]]
  BY DEF ToSet
<1>2. [i \in DOMAIN ns[n].fi |-> f[ns[n].fi[i]] # (i <= ns[n].inv)]
        = [i \in DOMAIN ns[n].fi |-> g[ns[n].fi[i]] # (i <= ns[n].inv)]
  BY <1>1
<1>3. QED
  BY <1>2 DEF Signal

\* A gate gives a truth value.
LEMMA SignalBoolean ==
    ASSUME NEW ns, Combinational(ns), NEW ones, NEW f, NEW n \in DOMAIN ns
    PROVE  Signal(ns, ones, f, n) \in BOOLEAN
<1> DEFINE x == [i \in DOMAIN ns[n].fi |-> f[ns[n].fi[i]] # (i <= ns[n].inv)]
<1>1. ns[n].type \in GateTypes \cup PortTypes /\ ns[n].fi \in Seq(DOMAIN ns)
  BY DEF Combinational
<1>2. CASE ns[n].type = "input"
  BY <1>2 DEF Signal
<1>3. CASE ns[n].type \in {"output", "wire", "BUF"}
  <2>1. ns[n].fi # <<>>
    BY <1>3 DEF Combinational
  <2>2. 1 \in DOMAIN ns[n].fi
    BY <1>1, <2>1
  <2>3. x[1] \in BOOLEAN
    BY <2>2
  <2> HIDE DEF x
  <2>4. GateValue(ns[n].type, x) = x[1]
    BY <1>3 DEF GateValue
  <2>5. Signal(ns, ones, f, n) = GateValue(ns[n].type, x)
    BY <1>3 DEF Signal, x
  <2>6. QED
    BY <2>3, <2>4, <2>5
<1>4. CASE ns[n].type \in {"INV", "AND", "XOR", "FACARRY", "ZEROBUF", "ONEBUF"}
  <2> HIDE DEF x
  <2>1. GateValue(ns[n].type, x) \in BOOLEAN
    <3>1. CASE ns[n].type = "FACARRY"
      <4>1. GateValue(ns[n].type, x) = (Cardinality({i \in 1..3 : x[i]}) >= 2)
        BY <3>1 DEF GateValue
      <4>2. QED
        BY <4>1
    <3>2. CASE ns[n].type \in {"INV", "AND", "XOR", "ZEROBUF", "ONEBUF"}
      BY <3>2 DEF GateValue
    <3>3. QED
      BY <1>4, <3>1, <3>2
  <2>2. Signal(ns, ones, f, n) = GateValue(ns[n].type, x)
    BY <1>4 DEF Signal, x
  <2>3. QED
    BY <2>1, <2>2
<1>5. QED
  BY <1>1, <1>2, <1>3, <1>4 DEF GateTypes, PortTypes

\* Values that are right agree: a first node where they differ has fan-ins where
\* they do not.
LEMMA SignalUnique ==
    ASSUME NEW ns, Combinational(ns), NEW ones, NEW f, NEW g, NEW D, NEW E,
           Closed(ns, D), Closed(ns, E), Solves(ns, ones, f, D), Solves(ns, ones, g, E)
    PROVE  \A n \in D \cap E : f[n] = g[n]
<1> DEFINE S == {n \in D \cap E : f[n] # g[n]}
<1> SUFFICES ASSUME S # {} PROVE FALSE
  OBVIOUS
<1>1. S \in SUBSET DOMAIN ns
  BY DEF Closed
<1>2. PICK n \in S : ToSet(ns[n].fi) \cap S = {}
  BY <1>1 DEF Combinational
<1>3. ToSet(ns[n].fi) \subseteq D \cap E
  BY <1>2 DEF Closed
<1>4. \A m \in ToSet(ns[n].fi) : f[m] = g[m]
  BY <1>2, <1>3
<1>5. Signal(ns, ones, f, n) = Signal(ns, ones, g, n)
  BY <1>4, SignalSame
<1>6. QED
  BY <1>2, <1>5 DEF Solves

\* Every node has a value: a first one without would get it from its fan-ins.
LEMMA SignalExists ==
    ASSUME NEW ns, Combinational(ns), NEW ones
    PROVE  \E f : f = [n \in DOMAIN ns |-> Signal(ns, ones, f, n)]
<1> DEFINE Has(n, v) == \E D, f : /\ Closed(ns, D) /\ Solves(ns, ones, f, D)
                                  /\ n \in D /\ f[n] = v
           G == {n \in DOMAIN ns : \E v \in BOOLEAN : Has(n, v)}
           h == [n \in DOMAIN ns |-> CHOOSE v \in BOOLEAN : Has(n, v)]
<1>1. ASSUME NEW D, NEW f, Closed(ns, D), Solves(ns, ones, f, D)
      PROVE  D \subseteq G /\ \A n \in D : h[n] = f[n]
  <2> SUFFICES ASSUME NEW n \in D PROVE n \in G /\ h[n] = f[n]
    OBVIOUS
  <2>1. n \in DOMAIN ns /\ f[n] \in BOOLEAN
    BY <1>1, SignalBoolean DEF Closed, Solves
  <2>2. Has(n, f[n])
    BY <1>1
  <2>3. ASSUME NEW v \in BOOLEAN, Has(n, v) PROVE v = f[n]
    <3>1. PICK E, g : Closed(ns, E) /\ Solves(ns, ones, g, E) /\ n \in E /\ g[n] = v
      BY <2>3
    <3>2. \A m \in D \cap E : f[m] = g[m]
      BY <1>1, <3>1, SignalUnique
    <3>3. QED
      BY <3>1, <3>2
  <2> HIDE DEF Has
  <2>4. (CHOOSE v \in BOOLEAN : Has(n, v)) = f[n]
    BY <2>1, <2>2, <2>3
  <2>5. QED
    BY <2>1, <2>2, <2>4
<1>2. Closed(ns, G)
  <2> SUFFICES ASSUME NEW n \in G PROVE ToSet(ns[n].fi) \subseteq G
    BY DEF Closed
  <2>1. PICK D, f : Closed(ns, D) /\ Solves(ns, ones, f, D) /\ n \in D
    OBVIOUS
  <2>2. ToSet(ns[n].fi) \subseteq D
    BY <2>1 DEF Closed
  <2>3. QED
    BY <1>1, <2>1, <2>2
<1>3. Solves(ns, ones, h, G)
  <2> SUFFICES ASSUME NEW n \in G PROVE h[n] = Signal(ns, ones, h, n)
    BY DEF Solves
  <2>1. PICK D, f : Closed(ns, D) /\ Solves(ns, ones, f, D) /\ n \in D
    OBVIOUS
  <2>2. ToSet(ns[n].fi) \subseteq D
    BY <2>1 DEF Closed
  <2> HIDE DEF G, h, Has
  <2>3. Signal(ns, ones, h, n) = Signal(ns, ones, f, n)
    BY <1>1, <2>1, <2>2, SignalSame
  <2>4. QED
    BY <1>1, <2>1, <2>3 DEF Solves
<1>4. G = DOMAIN ns
  <2> HIDE DEF G, h
  <2> SUFFICES ASSUME DOMAIN ns \ G # {} PROVE FALSE
    BY <1>2 DEF Closed
  <2>1. DOMAIN ns \ G \in SUBSET DOMAIN ns
    OBVIOUS
  <2>2. PICK n \in DOMAIN ns \ G : ToSet(ns[n].fi) \cap (DOMAIN ns \ G) = {}
    BY <2>1 DEF Combinational
  <2>3. ToSet(ns[n].fi) \subseteq DOMAIN ns
    BY DEF Combinational, ToSet
  <2> DEFINE f == [m \in DOMAIN ns |-> IF m = n THEN Signal(ns, ones, h, n) ELSE h[m]]
  <2>4. ToSet(ns[n].fi) \subseteq G /\ n \notin G
    BY <2>2, <2>3
  <2>5. f[n] = Signal(ns, ones, h, n) /\ \A m \in G : f[m] = h[m]
    BY <1>2, <2>2, <2>4 DEF Closed
  <2> HIDE DEF f
  <2>6. Closed(ns, G \cup {n})
    BY <1>2, <2>2, <2>4 DEF Closed
  <2>7. ASSUME NEW m \in G \cup {n} PROVE f[m] = Signal(ns, ones, f, m)
    <3>1. ToSet(ns[m].fi) \subseteq G
      BY <1>2, <2>4 DEF Closed
    <3>2. Signal(ns, ones, f, m) = Signal(ns, ones, h, m)
      BY <2>5, <3>1, SignalSame
    <3>3. CASE m = n
      BY <2>5, <3>2, <3>3
    <3>4. CASE m \in G
      BY <1>3, <2>5, <3>2, <3>4 DEF Solves
    <3>5. QED
      BY <3>3, <3>4
  <2>8. n \in G
    BY <1>1, <2>6, <2>7 DEF Solves
  <2>9. QED
    BY <2>4, <2>8
<1> HIDE DEF G
<1>5. h = [n \in DOMAIN ns |-> Signal(ns, ones, h, n)]
  <2>1. \A n \in DOMAIN ns : h[n] = Signal(ns, ones, h, n)
    BY <1>3, <1>4 DEF Solves
  <2>2. QED
    BY <2>1
<1>6. QED
  BY <1>5

\* So OutputValue is right on every node, and it is the only such function.
LEMMA OutputValueRight ==
    ASSUME NEW ns, Combinational(ns), NEW ones
    PROVE  Solves(ns, ones, OutputValue(ns, ones), DOMAIN ns)
<1>1. OutputValue(ns, ones) = CHOOSE f : f = [n \in DOMAIN ns |-> Signal(ns, ones, f, n)]
  BY DEF OutputValue, Signal
<1>2. OutputValue(ns, ones) = [n \in DOMAIN ns |-> Signal(ns, ones, OutputValue(ns, ones), n)]
  BY <1>1, SignalExists
<1>3. QED
  BY <1>2 DEF Solves

--------------------------------------------------------------------------------
(* Words are signals, position by position.                                *)

\* The inputs of ns that are 1 at position k.
OnesAt(ns, pi, k) == {n \in InputsOf(ns) : k \in pi[n]}

\* The word of node n from words w of its fan-ins.
Word(ns, pi, w, n) ==
    CASE ns[n].type = "input"  -> pi[n]
      [] ns[n].type = "ONEBUF" -> {0}
      [] OTHER -> {k \in Patterns :
                     GateValue(ns[n].type,
                               [i \in DOMAIN ns[n].fi |->
                                  (k \in w[ns[n].fi[i]]) # Inverted(ns[n], i)])}

\* miterGetResult has no constant 1 to give, and the inputs have words.
Simulates(ns, pi) ==
    /\ Combinational(ns)
    /\ \A n \in DOMAIN ns : ns[n].type # "ONEBUF"
    /\ \A n \in InputsOf(ns) : pi[n] \subseteq Patterns

\* A word is right if its positions are.
LEMMA WordPositions ==
    ASSUME NEW ns, NEW pi, Simulates(ns, pi), NEW w, NEW n \in DOMAIN ns
    PROVE  /\ Word(ns, pi, w, n) \subseteq Patterns
           /\ \A k \in Patterns : k \in Word(ns, pi, w, n) <=>
                Signal(ns, OnesAt(ns, pi, k), [m \in DOMAIN ns |-> k \in w[m]], n)
<1>1. CASE ns[n].type = "input"
  <2>1. Word(ns, pi, w, n) = pi[n] /\ n \in InputsOf(ns)
    BY <1>1 DEF Word, InputsOf
  <2>2. \A k : Signal(ns, OnesAt(ns, pi, k), [m \in DOMAIN ns |-> k \in w[m]], n)
                 = (n \in OnesAt(ns, pi, k))
    BY <1>1 DEF Signal
  <2>3. QED
    BY <2>1, <2>2 DEF OnesAt, Simulates
<1>2. CASE ns[n].type # "input"
  <2> DEFINE x(k) == [i \in DOMAIN ns[n].fi |-> (k \in w[ns[n].fi[i]]) # Inverted(ns[n], i)]
             y(k) == [i \in DOMAIN ns[n].fi |->
                        [m \in DOMAIN ns |-> k \in w[m]][ns[n].fi[i]] # (i <= ns[n].inv)]
  <2>1. /\ ns[n].fi \in Seq(DOMAIN ns) /\ ns[n].inv \in 0..Len(ns[n].fi)
    BY DEF Simulates, Combinational
  <2>2. \A i \in DOMAIN ns[n].fi : Inverted(ns[n], i) <=> i <= ns[n].inv
    BY <2>1 DEF Inverted
  <2>3. ASSUME NEW k PROVE x(k) = y(k)
    <3>1. ASSUME NEW i \in DOMAIN ns[n].fi
          PROVE  ((k \in w[ns[n].fi[i]]) # Inverted(ns[n], i))
                   = ([m \in DOMAIN ns |-> k \in w[m]][ns[n].fi[i]] # (i <= ns[n].inv))
      <4>1. ns[n].fi[i] \in DOMAIN ns
        BY <2>1
      <4>2. [m \in DOMAIN ns |-> k \in w[m]][ns[n].fi[i]] = (k \in w[ns[n].fi[i]])
        BY <4>1
      <4>3. Inverted(ns[n], i) <=> i <= ns[n].inv
        BY <2>2
      <4>4. Inverted(ns[n], i) \in BOOLEAN
        BY DEF Inverted
      <4>5. Inverted(ns[n], i) = (i <= ns[n].inv)
        BY <4>3, <4>4
      <4>6. QED
        BY <4>2, <4>5
    <3>2. QED
      BY <3>1
  <2>4. Word(ns, pi, w, n) = {k \in Patterns : GateValue(ns[n].type, x(k))}
    BY <1>2 DEF Simulates, Word
  <2>5. \A k : Signal(ns, OnesAt(ns, pi, k), [m \in DOMAIN ns |-> k \in w[m]], n)
                 = GateValue(ns[n].type, y(k))
    BY <1>2 DEF Signal
  <2> HIDE DEF x, y
  <2>6. QED
    BY <2>3, <2>4, <2>5
<1>3. QED
  BY <1>1, <1>2

\* The word of a node holds the positions at which the netlist gives it 1.
LEMMA WordsAreSignals ==
    ASSUME NEW ns, NEW pi, Simulates(ns, pi), NEW n \in DOMAIN ns
    PROVE  miterGetResult(ns, pi)[n] = {k \in Patterns : OutputValue(ns, OnesAt(ns, pi, k))[n]}
<1> DEFINE W == [m \in DOMAIN ns |-> {k \in Patterns : OutputValue(ns, OnesAt(ns, pi, k))[m]}]
           w == miterGetResult(ns, pi)
<1>1. Combinational(ns)
  BY DEF Simulates
<1>2. ASSUME NEW k \in Patterns, NEW m \in DOMAIN ns
      PROVE  (k \in W[m]) = OutputValue(ns, OnesAt(ns, pi, k))[m]
  <2>1. OutputValue(ns, OnesAt(ns, pi, k))[m] \in BOOLEAN
    BY <1>1, OutputValueRight, SignalBoolean DEF Solves
  <2>2. QED
    BY <2>1
<1> HIDE DEF W
<1>3. ASSUME NEW m \in DOMAIN ns PROVE W[m] = Word(ns, pi, W, m)
  <2>1. W[m] \subseteq Patterns /\ Word(ns, pi, W, m) \subseteq Patterns
    BY WordPositions DEF W
  <2>2. ASSUME NEW k \in Patterns PROVE (k \in W[m]) <=> (k \in Word(ns, pi, W, m))
    <3> DEFINE f == OutputValue(ns, OnesAt(ns, pi, k))
               g == [j \in DOMAIN ns |-> k \in W[j]]
    <3>1. \A j \in ToSet(ns[m].fi) : g[j] = f[j]
      BY <1>1, <1>2 DEF Combinational, ToSet
    <3> HIDE DEF f, g
    <3>2. Signal(ns, OnesAt(ns, pi, k), g, m) = Signal(ns, OnesAt(ns, pi, k), f, m)
      BY <3>1, SignalSame
    <3>3. f[m] = Signal(ns, OnesAt(ns, pi, k), f, m)
      BY <1>1, OutputValueRight DEF Solves, f
    <3>4. (k \in Word(ns, pi, W, m)) <=> Signal(ns, OnesAt(ns, pi, k), g, m)
      BY WordPositions DEF g
    <3>5. (k \in W[m]) = f[m]
      BY <1>2 DEF f
    <3>6. QED
      BY <3>2, <3>3, <3>4, <3>5
  <2>3. QED
    BY <2>1, <2>2
<1>4. \E v : v = [m \in DOMAIN ns |-> Word(ns, pi, v, m)]
  <2>1. W = [m \in DOMAIN ns |-> Word(ns, pi, W, m)]
    BY <1>3 DEF W
  <2>2. QED
    BY <2>1
<1>5. w = CHOOSE v : v = [m \in DOMAIN ns |-> Word(ns, pi, v, m)]
  BY DEF miterGetResult, Word
<1> HIDE DEF w
<1>6. \A m \in DOMAIN ns : w[m] = Word(ns, pi, w, m)
  BY <1>4, <1>5
<1>7. ASSUME NEW k \in Patterns PROVE (k \in w[n]) <=> (k \in W[n])
  <2> DEFINE f == OutputValue(ns, OnesAt(ns, pi, k))
             g == [j \in DOMAIN ns |-> k \in w[j]]
  <2>1. Closed(ns, DOMAIN ns)
    BY <1>1 DEF Closed, Combinational, ToSet
  <2>2. ASSUME NEW m \in DOMAIN ns PROVE g[m] = Signal(ns, OnesAt(ns, pi, k), g, m)
    <3>1. (k \in w[m]) <=> Signal(ns, OnesAt(ns, pi, k), g, m)
      BY <1>6, WordPositions
    <3>2. Signal(ns, OnesAt(ns, pi, k), g, m) \in BOOLEAN
      BY <1>1, SignalBoolean
    <3>3. QED
      BY <3>1, <3>2
  <2> HIDE DEF f, g
  <2>3. Solves(ns, OnesAt(ns, pi, k), g, DOMAIN ns) /\ Solves(ns, OnesAt(ns, pi, k), f, DOMAIN ns)
    BY <1>1, <2>2, OutputValueRight DEF Solves, f
  <2>4. g[n] = f[n]
    BY <1>1, <2>1, <2>3, SignalUnique
  <2>5. (k \in W[n]) = f[n] /\ g[n] = (k \in w[n])
    BY <1>2 DEF f, g
  <2>6. QED
    BY <2>4, <2>5
<1>8. w[n] \subseteq Patterns /\ W[n] \subseteq Patterns
  BY <1>6, WordPositions DEF W
<1>9. w[n] = W[n]
  BY <1>7, <1>8
<1>10. QED
  BY <1>9 DEF w, W

--------------------------------------------------------------------------------
(* The verdict.                                                            *)

\* What the lock of a circuit-2 input makes of the circuit-1 inputs in ones.
PairedOne(n, ones) ==
    \E i \in DOMAIN problem.pairs :
        problem.pairs[i].c2 = n /\ (problem.pairs[i].c1 \in ones) # problem.pairs[i].neg
ConstantOne(n) ==
    \E i \in DOMAIN problem.consts : problem.consts[i].c2 = n /\ problem.consts[i].neg
Carried(ones) == {n \in InputsOf(problem.c2) : PairedOne(n, ones) \/ ConstantOne(n)}
Paired(n) == \E i \in DOMAIN problem.pairs : problem.pairs[i].c2 = n

\* Words the circuits may be given: an input that is not driven is 0, a constant
\* is 0 or 1 in every position.
Words(pi) ==
    /\ DOMAIN pi = InputsOf(problem.c1) \cup InputsOf(problem.c2)
    /\ \A n \in DOMAIN pi : pi[n] \subseteq Patterns
    /\ \A n \in InputsOf(problem.c1) \ ToSet(order) : pi[n] = {}
    /\ \A n \in InputsOf(problem.c2) :
          ~Paired(n) => pi[n] = IF ConstantOne(n) THEN Patterns ELSE {}

\* ... and the paired inputs of circuit 2 follow those of circuit 1.
Followed(pi) ==
    \A i \in DOMAIN problem.pairs :
        LET p == problem.pairs[i]
        IN pi[p.c2] = IF p.neg THEN Patterns \ pi[p.c1] ELSE pi[p.c1]

\* The call is one of match_input's, and the verdict so far has not refused or
\* confused outputs that are equal or complementary.
Simulating ==
    /\ problem \in Problems
    /\ ToSet(order) \subseteq InputsOf(problem.c1)
    /\ Words(piValue)
    /\ \/ pc = "round" /\ type = 0
       \/ (Equal => type = 1) /\ (Complementary => type = 2)

\* miterGetResult gives the constant 1 on one position only (Netlist.h:2048).
NoConstantOne ==
    \A p \in Problems : \A ns \in {p.c1, p.c2} : \A n \in DOMAIN ns : ns[n].type # "ONEBUF"

\* What every call guarantees of its matches.
LEMMA MatchFacts ==
    ASSUME problem \in Problems
    PROVE  /\ InputsOf(problem.c1) \cap InputsOf(problem.c2) = {}
           /\ \A i \in DOMAIN problem.pairs :
                 /\ problem.pairs[i].c1 \in InputsOf(problem.c1)
                 /\ problem.pairs[i].c2 \in InputsOf(problem.c2)
                 /\ problem.pairs[i].neg \in BOOLEAN
           /\ \A i, j \in DOMAIN problem.pairs :
                 problem.pairs[i].c2 = problem.pairs[j].c2 => i = j
           /\ \A i \in DOMAIN problem.consts : problem.consts[i].c2 \in InputsOf(problem.c2)
           /\ \A i \in DOMAIN problem.pairs, j \in DOMAIN problem.consts :
                 problem.pairs[i].c2 # problem.consts[j].c2
<1> DEFINE P == [c1 : InputsOf(problem.c1), c2 : InputsOf(problem.c2), neg : BOOLEAN]
           C == [c2 : InputsOf(problem.c2), neg : BOOLEAN]
<1>1. DOMAIN problem.c1 \cap DOMAIN problem.c2 = {}
  BY ProblemsAssumption
<1>2. problem.pairs \in Seq(P) /\ problem.consts \in Seq(C)
  BY ProblemsAssumption
<1>3. /\ \A i, j \in DOMAIN problem.pairs :
            problem.pairs[i].c2 = problem.pairs[j].c2 => i = j
      /\ \A i \in DOMAIN problem.pairs, j \in DOMAIN problem.consts :
            problem.pairs[i].c2 # problem.consts[j].c2
  BY ProblemsAssumption
<1> HIDE DEF P, C
<1>4. /\ \A i \in DOMAIN problem.pairs : problem.pairs[i] \in P
      /\ \A i \in DOMAIN problem.consts : problem.consts[i] \in C
  BY <1>2
<1>5. /\ \A x \in P : /\ x.c1 \in InputsOf(problem.c1) /\ x.c2 \in InputsOf(problem.c2)
                      /\ x.neg \in BOOLEAN
      /\ \A x \in C : x.c2 \in InputsOf(problem.c2)
  BY DEF P, C
<1>6. InputsOf(problem.c1) \cap InputsOf(problem.c2) = {}
  BY <1>1 DEF InputsOf
<1>7. QED
  BY <1>3, <1>4, <1>5, <1>6

\* A call starts with every input 0 but for the constants.
LEMMA SimulatingInit == Init => Simulating
<1> SUFFICES ASSUME Init PROVE Simulating
  OBVIOUS
<1>1. problem \in Problems /\ pc = "round" /\ type = 0
  BY DEF Init
<1>2. ToSet(order) \subseteq DrivenBy(problem)
  BY DEF Init, SetToSeqs, ToSet
<1>3. DrivenBy(problem) \subseteq InputsOf(problem.c1)
  BY <1>1, MatchFacts DEF DrivenBy
<1>4. InputsOf(problem.c1) \cap InputsOf(problem.c2) = {}
  BY <1>1, MatchFacts
<1>5. \A n \in InputsOf(problem.c1) : ~ConstantOne(n)
  BY <1>1, <1>4, MatchFacts DEF ConstantOne
<1>6. Words(piValue)
  BY <1>5 DEF Init, Words, ConstantOne
<1>7. QED
  BY <1>1, <1>2, <1>3, <1>6 DEF Simulating

\* Setting the driven inputs and having circuit 2 follow keeps the words right.
LEMMA FollowRight ==
    ASSUME Simulating, NEW words,
           DOMAIN words = DOMAIN piValue,
           \A n \in DOMAIN piValue : words[n] \subseteq Patterns,
           \A n \in DOMAIN piValue \ ToSet(order) : words[n] = piValue[n]
    PROVE  Words(Follow(words)) /\ Followed(Follow(words))
<1> DEFINE pi == Follow(words)
<1>1. /\ problem \in Problems /\ ToSet(order) \subseteq InputsOf(problem.c1)
      /\ Words(piValue)
  BY DEF Simulating
<1>2. /\ InputsOf(problem.c1) \cap InputsOf(problem.c2) = {}
      /\ \A i \in DOMAIN problem.pairs :
            /\ problem.pairs[i].c1 \in InputsOf(problem.c1)
            /\ problem.pairs[i].c2 \in InputsOf(problem.c2)
      /\ \A i, j \in DOMAIN problem.pairs : problem.pairs[i].c2 = problem.pairs[j].c2 => i = j
  BY <1>1, MatchFacts
<1>3. DOMAIN pi = DOMAIN words /\ \A n \in DOMAIN words : ~Paired(n) => pi[n] = words[n]
  BY DEF Follow, Paired
<1>4. ASSUME NEW i \in DOMAIN problem.pairs
      PROVE  pi[problem.pairs[i].c2] =
               IF problem.pairs[i].neg THEN Patterns \ words[problem.pairs[i].c1]
                                       ELSE words[problem.pairs[i].c1]
  <2> DEFINE n == problem.pairs[i].c2
  <2>1. (CHOOSE j \in DOMAIN problem.pairs : problem.pairs[j].c2 = n) = i
    BY <1>2
  <2>2. n \in DOMAIN words
    BY <1>1, <1>2 DEF Words
  <2>3. QED
    BY <2>1, <2>2 DEF Follow
<1> HIDE DEF pi
<1>5. \A n \in InputsOf(problem.c1) : ~Paired(n) /\ pi[n] = words[n]
  BY <1>1, <1>2, <1>3 DEF Paired, Words
<1>6. Followed(pi)
  BY <1>2, <1>4, <1>5 DEF Followed
<1>7. \A n \in DOMAIN pi : pi[n] \subseteq Patterns
  <2> SUFFICES ASSUME NEW n \in DOMAIN pi PROVE pi[n] \subseteq Patterns
    OBVIOUS
  <2>1. CASE Paired(n)
    <3>1. PICK i \in DOMAIN problem.pairs : problem.pairs[i].c2 = n
      BY <2>1 DEF Paired
    <3>2. problem.pairs[i].c1 \in DOMAIN words
      BY <1>1, <1>2 DEF Words
    <3>3. words[problem.pairs[i].c1] \subseteq Patterns
      BY <3>2
    <3>4. QED
      BY <1>4, <3>1, <3>3
  <2>2. CASE ~Paired(n)
    BY <1>3, <2>2
  <2>3. QED
    BY <2>1, <2>2
<1>8. \A n \in InputsOf(problem.c1) \ ToSet(order) : pi[n] = {}
  BY <1>1, <1>5 DEF Words
<1>9. \A n \in InputsOf(problem.c2) :
        ~Paired(n) => pi[n] = IF ConstantOne(n) THEN Patterns ELSE {}
  BY <1>1, <1>2, <1>3 DEF Words
<1>10. DOMAIN pi = InputsOf(problem.c1) \cup InputsOf(problem.c2)
  BY <1>1, <1>3 DEF Words
<1>11. QED
  BY <1>6, <1>7, <1>8, <1>9, <1>10 DEF Words, pi

\* What circuit 2 gets at a position is what the locks carry there.
LEMMA PositionsCarried ==
    ASSUME problem \in Problems, NEW pi, Words(pi), Followed(pi), NEW k \in Patterns
    PROVE  OnesAt(problem.c2, pi, k) = Carried(OnesAt(problem.c1, pi, k))
<1> DEFINE ones == OnesAt(problem.c1, pi, k)
<1>1. /\ \A i \in DOMAIN problem.pairs :
            /\ problem.pairs[i].c1 \in InputsOf(problem.c1)
            /\ problem.pairs[i].c2 \in InputsOf(problem.c2)
            /\ problem.pairs[i].neg \in BOOLEAN
      /\ \A i, j \in DOMAIN problem.pairs : problem.pairs[i].c2 = problem.pairs[j].c2 => i = j
      /\ \A i \in DOMAIN problem.pairs, j \in DOMAIN problem.consts :
            problem.pairs[i].c2 # problem.consts[j].c2
  BY MatchFacts
<1>2. \A i \in DOMAIN problem.pairs : problem.pairs[i].c1 \in ones <=> k \in pi[problem.pairs[i].c1]
  BY <1>1 DEF OnesAt
<1> HIDE DEF ones
<1>3. ASSUME NEW n \in InputsOf(problem.c2)
      PROVE  k \in pi[n] <=> PairedOne(n, ones) \/ ConstantOne(n)
  <2>1. CASE Paired(n)
    <3>1. PICK i \in DOMAIN problem.pairs : problem.pairs[i].c2 = n
      BY <2>1 DEF Paired
    <3>2. pi[n] = IF problem.pairs[i].neg THEN Patterns \ pi[problem.pairs[i].c1]
                                          ELSE pi[problem.pairs[i].c1]
      BY <3>1 DEF Followed
    <3>3. ~ConstantOne(n)
      BY <1>1, <3>1 DEF ConstantOne
    <3>4. PairedOne(n, ones) <=> (problem.pairs[i].c1 \in ones) # problem.pairs[i].neg
      BY <1>1, <3>1 DEF PairedOne
    <3>5. (problem.pairs[i].c1 \in ones) = (k \in pi[problem.pairs[i].c1])
      BY <1>2
    <3>6. CASE problem.pairs[i].neg = TRUE
      <4>1. k \in pi[n] <=> k \notin pi[problem.pairs[i].c1]
        BY <3>2, <3>6
      <4>2. PairedOne(n, ones) <=> problem.pairs[i].c1 \notin ones
        BY <3>4, <3>6
      <4>3. QED
        BY <3>3, <3>5, <4>1, <4>2
    <3>7. CASE problem.pairs[i].neg = FALSE
      <4>1. k \in pi[n] <=> k \in pi[problem.pairs[i].c1]
        BY <3>2, <3>7
      <4>2. ((problem.pairs[i].c1 \in ones) # problem.pairs[i].neg)
              <=> problem.pairs[i].c1 \in ones
        <5>1. CASE problem.pairs[i].c1 \in ones
          <6>1. (problem.pairs[i].c1 \in ones) = TRUE
            BY <5>1
          <6>2. QED
            BY <3>7, <5>1, <6>1
        <5>2. CASE problem.pairs[i].c1 \notin ones
          <6>1. (problem.pairs[i].c1 \in ones) = FALSE
            BY <5>2
          <6>2. QED
            BY <3>7, <5>2, <6>1
        <5>3. QED
          BY <5>1, <5>2
      <4>3. PairedOne(n, ones) <=> problem.pairs[i].c1 \in ones
        BY <3>4, <4>2
      <4>4. QED
        BY <3>3, <3>5, <4>1, <4>3
    <3>8. QED
      BY <1>1, <3>6, <3>7
  <2>2. CASE ~Paired(n)
    <3>1. ~PairedOne(n, ones)
      BY <2>2 DEF PairedOne, Paired
    <3>2. pi[n] = IF ConstantOne(n) THEN Patterns ELSE {}
      BY <2>2 DEF Words
    <3>3. QED
      BY <3>1, <3>2
  <2>3. QED
    BY <2>1, <2>2
<1>4. QED
  BY <1>3 DEF OnesAt, Carried, ones

\* Whether the outputs agree under ones, with the definitions above.
LEMMA AgreeCarried ==
    ASSUME NEW ones
    PROVE  Agree(ones) <=> OutputValue(problem.c1, ones)[problem.o1]
                             = OutputValue(problem.c2, Carried(ones))[problem.o2]
  BY DEF Agree, Carried, PairedOne, ConstantOne

\* One comparison of words: outputs that are equal give 1, complementary ones 2,
\* and only those that are at every position.
LEMMA ComparedRight ==
    ASSUME NoConstantOne, problem \in Problems, NEW pi, Words(pi), Followed(pi)
    PROVE  /\ Equal => Compared(pi) = 1
           /\ Complementary => Compared(pi) = 2
           /\ \A k \in Patterns :
                 /\ Compared(pi) = 1 => Agree(OnesAt(problem.c1, pi, k))
                 /\ Compared(pi) = 2 => ~Agree(OnesAt(problem.c1, pi, k))
           /\ Compared(pi) \in {0, 1, 2}
<1> DEFINE w1 == miterGetResult(problem.c1, pi)[problem.o1]
           w2 == miterGetResult(problem.c2, pi)[problem.o2]
           v1(k) == OutputValue(problem.c1, OnesAt(problem.c1, pi, k))[problem.o1]
           v2(k) == OutputValue(problem.c2, OnesAt(problem.c2, pi, k))[problem.o2]
<1>1. /\ Combinational(problem.c1) /\ Combinational(problem.c2)
      /\ problem.o1 \in DOMAIN problem.c1 /\ problem.o2 \in DOMAIN problem.c2
  BY ProblemsAssumption
<1>2. Simulates(problem.c1, pi) /\ Simulates(problem.c2, pi)
  BY <1>1 DEF Simulates, NoConstantOne, Words
<1>3. /\ w1 = {k \in Patterns : v1(k)}
      /\ w2 = {k \in Patterns : v2(k)}
  BY <1>1, <1>2, WordsAreSignals
<1>4. ASSUME NEW k \in Patterns
      PROVE  /\ OnesAt(problem.c1, pi, k) \in SUBSET ToSet(order)
             /\ Agree(OnesAt(problem.c1, pi, k)) <=> v1(k) = v2(k)
             /\ v1(k) \in BOOLEAN /\ v2(k) \in BOOLEAN
  <2>1. OnesAt(problem.c1, pi, k) \in SUBSET ToSet(order)
    BY DEF OnesAt, Words
  <2>2. OnesAt(problem.c2, pi, k) = Carried(OnesAt(problem.c1, pi, k))
    BY PositionsCarried
  <2>3. Agree(OnesAt(problem.c1, pi, k)) <=> v1(k) = v2(k)
    BY <2>2, AgreeCarried
  <2>4. v1(k) \in BOOLEAN /\ v2(k) \in BOOLEAN
    BY <1>1, OutputValueRight, SignalBoolean DEF Solves
  <2>5. QED
    BY <2>1, <2>3, <2>4
<1>5. Compared(pi) = IF w1 = w2 THEN 1 ELSE IF w1 = Patterns \ w2 THEN 2 ELSE 0
  BY DEF Compared
<1>6. 0 \in Patterns
  BY MiterAssumption DEF Patterns
<1> HIDE DEF w1, w2, v1, v2
<1>7. ASSUME Equal PROVE Compared(pi) = 1
  <2>1. \A k \in Patterns : v1(k) = v2(k)
    BY <1>4, <1>7 DEF Equal
  <2>2. w1 = w2
    BY <1>3, <2>1
  <2>3. QED
    BY <1>5, <2>2
<1>8. ASSUME Complementary PROVE Compared(pi) = 2
  <2>1. \A k \in Patterns : v1(k) # v2(k)
    BY <1>4, <1>8 DEF Complementary
  <2>2. \A k \in Patterns : k \in w1 <=> k \notin w2
    BY <1>3, <1>4, <2>1
  <2>3. w1 = Patterns \ w2 /\ w1 # w2
    BY <1>3, <1>6, <2>2
  <2>4. QED
    BY <1>5, <2>3
<1>9. ASSUME NEW k \in Patterns
      PROVE  /\ Compared(pi) = 1 => Agree(OnesAt(problem.c1, pi, k))
             /\ Compared(pi) = 2 => ~Agree(OnesAt(problem.c1, pi, k))
  <2>1. (k \in w1 <=> v1(k)) /\ (k \in w2 <=> v2(k))
    BY <1>3
  <2>2. CASE w1 = w2
    <3>1. v1(k) = v2(k)
      BY <1>4, <2>1, <2>2
    <3>2. QED
      BY <1>4, <1>5, <2>2, <3>1
  <2>3. CASE w1 # w2 /\ w1 = Patterns \ w2
    <3>1. v1(k) # v2(k)
      BY <1>4, <2>1, <2>3
    <3>2. QED
      BY <1>4, <1>5, <2>3, <3>1
  <2>4. QED
    BY <1>5, <2>2, <2>3
<1>10. QED
  BY <1>5, <1>7, <1>8, <1>9

\* The words of a round, of all patterns or of random ones.
LEMMA RoundWords ==
    ASSUME Simulating
    PROVE  \A words \in {EnumeratedWords}
                          \cup {SampledWords(some) : some \in [ToSet(order) -> SUBSET Patterns]} :
              /\ DOMAIN words = DOMAIN piValue
              /\ \A n \in DOMAIN piValue : words[n] \subseteq Patterns
              /\ \A n \in DOMAIN piValue \ ToSet(order) : words[n] = piValue[n]
<1>1. \A n \in DOMAIN piValue : piValue[n] \subseteq Patterns
  BY DEF Simulating, Words
<1>2. \A j : Enumerated(j) \subseteq Patterns
  BY DEF Enumerated
<1>3. /\ DOMAIN EnumeratedWords = DOMAIN piValue
      /\ \A n \in DOMAIN piValue : EnumeratedWords[n] \subseteq Patterns
      /\ \A n \in DOMAIN piValue \ ToSet(order) : EnumeratedWords[n] = piValue[n]
  <2>1. DOMAIN EnumeratedWords = DOMAIN piValue
    BY DEF EnumeratedWords
  <2>2. ASSUME NEW n \in DOMAIN piValue
        PROVE  /\ EnumeratedWords[n] \subseteq Patterns
               /\ n \notin ToSet(order) => EnumeratedWords[n] = piValue[n]
    <3>1. CASE n \in ToSet(order)
      <4> DEFINE j == CHOOSE j \in DOMAIN order : order[j] = n
      <4>1. EnumeratedWords[n] = Enumerated(j) \cup (piValue[n] \ 0..(end_index - 1))
        BY <3>1 DEF EnumeratedWords
      <4>2. QED
        BY <1>1, <1>2, <3>1, <4>1
    <3>2. CASE n \notin ToSet(order)
      BY <1>1, <3>2 DEF EnumeratedWords
    <3>3. QED
      BY <3>1, <3>2
  <2>3. QED
    BY <2>1, <2>2
<1>4. ASSUME NEW some \in [ToSet(order) -> SUBSET Patterns]
      PROVE  /\ DOMAIN SampledWords(some) = DOMAIN piValue
             /\ \A n \in DOMAIN piValue : SampledWords(some)[n] \subseteq Patterns
             /\ \A n \in DOMAIN piValue \ ToSet(order) : SampledWords(some)[n] = piValue[n]
  BY <1>1 DEF SampledWords
<1>5. QED
  BY <1>3, <1>4

\* Every round keeps the words and the verdict right.
LEMMA SimulatingStep ==
    ASSUME NoConstantOne PROVE Simulating /\ [Next]_vars => Simulating'
<1> SUFFICES ASSUME Simulating, [Next]_vars PROVE Simulating'
  OBVIOUS
<1>1. CASE AllPatterns \/ RandomPatterns
  <2>1. PICK words \in {EnumeratedWords}
                \cup {SampledWords(some) : some \in [ToSet(order) -> SUBSET Patterns]} :
           Simulate(words)
    BY <1>1 DEF AllPatterns, RandomPatterns
  <2>2. /\ problem' = problem /\ order' = order /\ piValue' = Follow(words)
        /\ type' = Verdict(Compared(piValue')) /\ pc = "round"
    BY <1>1, <2>1 DEF Simulate, AllPatterns, RandomPatterns
  <2>3. problem \in Problems /\ ToSet(order) \subseteq InputsOf(problem.c1)
    BY DEF Simulating
  <2>4. Words(piValue') /\ Followed(piValue')
    BY <2>2, FollowRight, RoundWords
  <2>5. (Equal => Compared(piValue') = 1) /\ (Complementary => Compared(piValue') = 2)
    BY <2>3, <2>4, ComparedRight
  <2>6. type = 0 \/ ((Equal => type = 1) /\ (Complementary => type = 2))
    BY DEF Simulating
  <2>7. (Equal => type' = 1) /\ (Complementary => type' = 2)
    BY <2>2, <2>5, <2>6 DEF Verdict
  <2>8. (Equal' <=> Equal) /\ (Complementary' <=> Complementary)
    BY <2>2 DEF Equal, Complementary, Agree
  <2>9. Words(piValue)'
    BY <2>2, <2>4 DEF Words, Paired, ConstantOne
  <2>10. QED
    BY <2>2, <2>3, <2>7, <2>8, <2>9 DEF Simulating
<1>2. CASE Returned \/ UNCHANGED vars
  <2>1. UNCHANGED vars
    BY <1>2 DEF Returned
  <2>2. /\ problem' = problem /\ order' = order /\ piValue' = piValue
        /\ type' = type /\ pc' = pc
    BY <2>1 DEF vars
  <2>3. (Equal' <=> Equal) /\ (Complementary' <=> Complementary)
    BY <2>2 DEF Equal, Complementary, Agree
  <2>4. Words(piValue)' <=> Words(piValue)
    BY <2>2 DEF Words, Paired, ConstantOne
  <2>5. QED
    BY <2>2, <2>3, <2>4 DEF Simulating
<1>3. QED
  BY <1>1, <1>2 DEF Next

\* Outputs that are equal or complementary on all patterns are never refused or
\* confused, however many patterns are simulated: for circuits of any size, any
\* size of a word and any random patterns, as long as no constant 1 is below them.
THEOREM VerdictNeverRefuses ==
    ASSUME NoConstantOne PROVE Spec => []VerdictOneSided
<1>1. Simulating => VerdictOneSided
  BY DEF Simulating, VerdictOneSided
<1>2. QED
  BY <1>1, SimulatingInit, SimulatingStep, PTL DEF Spec

--------------------------------------------------------------------------------
(* The patterns of the rounds.                                             *)

\* 1 << n doubles.
LEMMA TwoToDoubles ==
    /\ TwoTo[0] = 1
    /\ \A n \in Nat : TwoTo[n] \in Nat \ {0}
    /\ \A n \in Nat \ {0} : TwoTo[n] = 2 * TwoTo[n - 1]
<1> DEFINE step == [p \in Nat \X (Nat \ {0}) |-> 2 * p[2]]
<1>1. \A n \in Nat, v \in Nat \ {0} : step[<<n, v>>] = 2 * v /\ 2 * v \in Nat \ {0}
  OBVIOUS
<1> HIDE DEF step
<1>2. PICK f \in [Nat -> Nat \ {0}] :
         f[0] = 1 /\ \A n \in Nat \ {0} : f[n] = step[<<n, f[n - 1]>>]
  <2> DEFINE V == Nat \ {0}
  <2>1. 1 \in V /\ Stepping(V, step)
    BY <1>1 DEF Stepping
  <2> HIDE DEF V
  <2>2. PICK base \in V : base = 1
    BY <2>1
  <2>3. \E f \in [Nat -> V] : Recurrence(f, base, step)
    BY <2>1, NatRecursion
  <2>4. QED
    BY <2>2, <2>3 DEF V, Recurrence
<1>3. \A n \in Nat \ {0} : f[n] = 2 * f[n - 1]
  <2>1. ASSUME NEW n \in Nat \ {0} PROVE f[n] = 2 * f[n - 1]
    <3>1. f[n - 1] \in Nat \ {0} /\ f[n] = step[<<n, f[n - 1]>>]
      BY <1>2
    <3>2. QED
      BY <1>1, <3>1
  <2>2. QED
    BY <2>1
<1>4. f = [n \in Nat |-> IF n = 0 THEN 1 ELSE 2 * f[n - 1]]
  BY <1>2, <1>3
<1>5. TwoTo = [n \in Nat |-> IF n = 0 THEN 1 ELSE 2 * TwoTo[n - 1]]
  <2>1. \E g : g = [n \in Nat |-> IF n = 0 THEN 1 ELSE 2 * g[n - 1]]
    BY <1>4
  <2>2. TwoTo = CHOOSE g : g = [n \in Nat |-> IF n = 0 THEN 1 ELSE 2 * g[n - 1]]
    BY DEF TwoTo
  <2>3. QED
    BY <2>1, <2>2
<1>6. /\ TwoTo[0] = 1
      /\ \A n \in Nat \ {0} : TwoTo[n] = 2 * TwoTo[n - 1]
  BY <1>5
<1> DEFINE S == {n \in Nat : TwoTo[n] \in Nat \ {0}}
<1>7. 0 \in S /\ \A n \in Nat : n \in S => n + 1 \in S
  <2>1. ASSUME NEW n \in Nat, n \in S PROVE n + 1 \in S
    <3>1. TwoTo[n + 1] = 2 * TwoTo[(n + 1) - 1] /\ (n + 1) - 1 = n
      BY <1>6
    <3>2. QED
      BY <2>1, <3>1
  <2>2. QED
    BY <1>6, <2>1
<1>8. \A n \in Nat : n \in S
  <2> HIDE DEF S
  <2>1. QED
    BY <1>7, NatInduct
<1>9. QED
  BY <1>6, <1>8

\* ... so a greater power is a multiple of twice a smaller one.
LEMMA TwoToMultiple ==
    ASSUME NEW a \in Nat
    PROVE  \A d \in Nat : \E q \in Nat : TwoTo[a + 1 + d] = TwoTo[a] * (2 * q)
<1> DEFINE Multiple(d) == \E q \in Nat : TwoTo[a + 1 + d] = TwoTo[a] * (2 * q)
           S == {d \in Nat : Multiple(d)}
<1>1. Multiple(0)
  <2>1. TwoTo[a + 1] = 2 * TwoTo[(a + 1) - 1] /\ (a + 1) - 1 = a /\ a + 1 + 0 = a + 1
    BY TwoToDoubles
  <2>2. TwoTo[a] \in Nat
    BY TwoToDoubles
  <2>3. TwoTo[a + 1 + 0] = TwoTo[a] * (2 * 1)
    BY <2>1, <2>2
  <2>4. QED
    BY <2>3
<1>2. ASSUME NEW d \in Nat, Multiple(d) PROVE Multiple(d + 1)
  <2>1. PICK q \in Nat : TwoTo[a + 1 + d] = TwoTo[a] * (2 * q)
    BY <1>2
  <2>2. TwoTo[a + 1 + (d + 1)] = 2 * TwoTo[a + 1 + d]
    <3>1. a + 1 + (d + 1) \in Nat \ {0} /\ (a + 1 + (d + 1)) - 1 = a + 1 + d
      OBVIOUS
    <3>2. QED
      BY <3>1, TwoToDoubles
  <2>3. PICK t \in Nat : t = TwoTo[a]
    BY TwoToDoubles
  <2>4. 2 * (t * (2 * q)) = t * (2 * (2 * q))
    OBVIOUS
  <2>5. PICK r \in Nat : r = 2 * q
    OBVIOUS
  <2>6. TwoTo[a + 1 + (d + 1)] = t * (2 * r)
    BY <2>1, <2>2, <2>3, <2>4, <2>5
  <2>7. QED
    BY <2>3, <2>6
<1>3. \A d \in Nat : d \in S
  <2> HIDE DEF Multiple
  <2>1. 0 \in S /\ \A d \in Nat : d \in S => d + 1 \in S
    BY <1>1, <1>2
  <2> HIDE DEF S
  <2>2. QED
    BY <2>1, NatInduct
<1>4. QED
  BY <1>3

\* Digit j of n.
Digit(n, j) == (n \div TwoTo[j - 1]) % 2

\* Every set of digits is that of a number with as many places.
LEMMA DigitsOnto ==
    \A d \in Nat : \A S \in SUBSET (1..d) :
        \E n \in 0..(TwoTo[d] - 1) : \A j \in 1..d : Digit(n, j) = 1 <=> j \in S
<1> DEFINE Onto(d) == \A S \in SUBSET (1..d) :
              \E n \in 0..(TwoTo[d] - 1) : \A j \in 1..d : Digit(n, j) = 1 <=> j \in S
           D == {d \in Nat : Onto(d)}
<1>1. 0 \in D
  <2>1. 0 \in 0..(TwoTo[0] - 1) /\ 1..0 = {}
    BY TwoToDoubles
  <2>2. QED
    BY <2>1
<1>2. ASSUME NEW d \in Nat, Onto(d) PROVE Onto(d + 1)
  <2> SUFFICES ASSUME NEW S \in SUBSET (1..(d + 1))
               PROVE  \E n \in 0..(TwoTo[d + 1] - 1) :
                         \A j \in 1..(d + 1) : Digit(n, j) = 1 <=> j \in S
    OBVIOUS
  <2>1. PICK t \in Nat \ {0} : t = TwoTo[d] /\ TwoTo[d + 1] = 2 * t
    <3>1. (d + 1) - 1 = d /\ d + 1 \in Nat \ {0}
      OBVIOUS
    <3>2. QED
      BY <3>1, TwoToDoubles
  <2>2. PICK m \in 0..(TwoTo[d] - 1) : \A j \in 1..d : Digit(m, j) = 1 <=> j \in S \ {d + 1}
    <3>1. S \ {d + 1} \in SUBSET (1..d)
      OBVIOUS
    <3>2. QED
      BY <1>2, <3>1
  <2>3. m \in Nat /\ m < t
    BY <2>1, <2>2
  <2>4. CASE d + 1 \notin S
    <3>1. m \in 0..(TwoTo[d + 1] - 1)
      BY <2>1, <2>3
    <3>2. Digit(m, d + 1) = 0
      <4>1. (d + 1) - 1 = d /\ m \div t = 0 /\ 0 % 2 = 0
        BY <2>3
      <4>2. QED
        BY <2>1, <4>1 DEF Digit
    <3>3. \A j \in 1..(d + 1) : Digit(m, j) = 1 <=> j \in S
      <4>1. \A j \in 1..(d + 1) : j \in 1..d \/ j = d + 1
        OBVIOUS
      <4>2. QED
        BY <2>2, <2>4, <3>2, <4>1
    <3>4. QED
      BY <3>1, <3>3
  <2>5. CASE d + 1 \in S
    <3>1. m + t \in 0..(TwoTo[d + 1] - 1)
      BY <2>1, <2>3
    <3>2. Digit(m + t, d + 1) = 1
      <4>1. (d + 1) - 1 = d /\ (m + t) \div t = 1 /\ 1 % 2 = 1
        BY <2>3
      <4>2. QED
        BY <2>1, <4>1 DEF Digit
    <3>3. ASSUME NEW j \in 1..d PROVE Digit(m + t, j) = Digit(m, j)
      <4>1. PICK a \in Nat, e \in Nat : a = j - 1 /\ e = d - j /\ a + 1 + e = d
        OBVIOUS
      <4>2. PICK q \in Nat : TwoTo[a + 1 + e] = TwoTo[a] * (2 * q)
        BY TwoToMultiple
      <4>3. PICK s \in Nat \ {0} : s = TwoTo[j - 1]
        BY <4>1, TwoToDoubles
      <4>4. (m + s * (2 * q)) \div s = (m \div s) + 2 * q
        BY <2>3
      <4>5. m \div s \in Nat
        BY <2>3
      <4>6. PICK x \in Nat : x = m \div s
        BY <4>5
      <4>7. (x + 2 * q) % 2 = x % 2
        OBVIOUS
      <4>8. (m + t) \div s = x + 2 * q
        BY <2>1, <4>1, <4>2, <4>3, <4>4, <4>6
      <4>9. QED
        BY <4>3, <4>6, <4>7, <4>8 DEF Digit
    <3>4. \A j \in 1..(d + 1) : Digit(m + t, j) = 1 <=> j \in S
      <4>1. \A j \in 1..(d + 1) : (j \in 1..d /\ j # d + 1) \/ j = d + 1
        OBVIOUS
      <4>2. QED
        BY <2>2, <2>5, <3>2, <3>3, <4>1
    <3>5. QED
      BY <3>1, <3>4
  <2>6. QED
    BY <2>4, <2>5
<1> HIDE DEF Onto
<1>3. \A d \in Nat : d \in D
  <2>1. 0 \in D /\ \A n \in Nat : n \in D => n + 1 \in D
    BY <1>1, <1>2
  <2> HIDE DEF D
  <2>2. QED
    BY <2>1, NatInduct
<1>4. QED
  BY <1>3 DEF Onto

\* The driven inputs that are 1 in pattern n.
Pattern(n) == {order[j] : j \in {i \in DOMAIN order : Digit(n, i) = 1}}

\* Init makes order a sequence that lists every driven input once.
Distinct ==
    /\ order \in Seq(ToSet(order))
    /\ \A i, j \in DOMAIN order : order[i] = order[j] => i = j

\* Every choice of driven inputs is one of the patterns.
LEMMA PatternsOnto ==
    ASSUME Distinct, NEW ones \in SUBSET ToSet(order)
    PROVE  \E n \in 0..(TwoTo[Driven] - 1) : Pattern(n) = ones
<1> DEFINE S == {j \in DOMAIN order : order[j] \in ones}
<1>1. PICK d \in Nat : d = Driven /\ DOMAIN order = 1..d
  BY DEF Distinct, Driven
<1>2. \A o \in ones : \E j \in DOMAIN order : order[j] = o
  BY DEF ToSet
<1>3. S \in SUBSET (1..d) /\ \A j \in DOMAIN order : j \in S <=> order[j] \in ones
  BY <1>1
<1> HIDE DEF S
<1>4. PICK n \in 0..(TwoTo[d] - 1) : \A j \in 1..d : Digit(n, j) = 1 <=> j \in S
  BY <1>3, DigitsOnto
<1>5. Pattern(n) \subseteq ones
  BY <1>1, <1>3, <1>4 DEF Pattern
<1>6. ASSUME NEW o \in ones PROVE o \in Pattern(n)
  <2>1. PICK j \in DOMAIN order : order[j] = o
    BY <1>2
  <2>2. Digit(n, j) = 1
    BY <1>1, <1>3, <1>4, <2>1
  <2>3. QED
    BY <2>1, <2>2 DEF Pattern
<1>7. Pattern(n) = ones
  BY <1>5, <1>6
<1>8. QED
  BY <1>1, <1>4, <1>7

\* The inputs of circuit 1 keep the words they are given.
LEMMA FollowKeeps ==
    ASSUME Simulating, NEW words, DOMAIN words = DOMAIN piValue
    PROVE  \A n \in InputsOf(problem.c1) : Follow(words)[n] = words[n]
<1> SUFFICES ASSUME NEW n \in InputsOf(problem.c1) PROVE Follow(words)[n] = words[n]
  OBVIOUS
<1>1. problem \in Problems /\ n \in DOMAIN words
  BY DEF Simulating, Words
<1>2. ~\E i \in DOMAIN problem.pairs : problem.pairs[i].c2 = n
  BY <1>1, MatchFacts
<1>3. QED
  BY <1>1, <1>2 DEF Follow

\* Position k of a round is the pattern whose number the round and k make.
LEMMA RoundPatterns ==
    ASSUME Simulating, Distinct, NEW k \in Patterns, k < end_index
    PROVE  OnesAt(problem.c1, Follow(EnumeratedWords), k) = Pattern(PNUM * time + k)
<1> DEFINE m == PNUM * time + k
<1>1. /\ problem \in Problems /\ ToSet(order) \subseteq InputsOf(problem.c1) /\ Words(piValue)
  BY DEF Simulating
<1>2. DOMAIN EnumeratedWords = DOMAIN piValue /\ InputsOf(problem.c1) \subseteq DOMAIN piValue
  BY <1>1 DEF EnumeratedWords, Words
<1>3. ASSUME NEW j \in DOMAIN order
      PROVE  k \in Follow(EnumeratedWords)[order[j]] <=> Digit(m, j) = 1
  <2>1. order[j] \in ToSet(order) /\ order[j] \in InputsOf(problem.c1)
    BY <1>1 DEF ToSet
  <2>2. (CHOOSE i \in DOMAIN order : order[i] = order[j]) = j
    BY DEF Distinct
  <2>3. EnumeratedWords[order[j]]
          = Enumerated(j) \cup (piValue[order[j]] \ 0..(end_index - 1))
    BY <1>2, <2>1, <2>2 DEF EnumeratedWords
  <2>4. Follow(EnumeratedWords)[order[j]] = EnumeratedWords[order[j]]
    BY <1>2, <2>1, FollowKeeps
  <2>5. k \in Enumerated(j) <=> Digit(m, j) = 1
    BY DEF Enumerated, Digit
  <2>6. k \in 0..(end_index - 1)
    <3>1. k \in Nat /\ end_index \in Nat
      BY MiterAssumption, TwoToDoubles DEF Patterns, end_index, Driven, Distinct
    <3>2. QED
      BY <3>1
  <2>7. QED
    BY <2>3, <2>4, <2>5, <2>6
<1>4. ASSUME NEW n \in InputsOf(problem.c1), n \notin ToSet(order)
      PROVE  k \notin Follow(EnumeratedWords)[n]
  <2>1. EnumeratedWords[n] = piValue[n] /\ piValue[n] = {}
    BY <1>1, <1>2, <1>4 DEF EnumeratedWords, Words
  <2>2. QED
    BY <1>2, <2>1, FollowKeeps
<1> HIDE DEF m
<1>5. OnesAt(problem.c1, Follow(EnumeratedWords), k) \subseteq Pattern(m)
  <2> SUFFICES ASSUME NEW n \in InputsOf(problem.c1), k \in Follow(EnumeratedWords)[n]
               PROVE  n \in Pattern(m)
    BY DEF OnesAt
  <2>1. PICK j \in DOMAIN order : order[j] = n
    BY <1>4 DEF ToSet
  <2>2. QED
    BY <1>3, <2>1 DEF Pattern
<1>6. Pattern(m) \subseteq OnesAt(problem.c1, Follow(EnumeratedWords), k)
  <2> SUFFICES ASSUME NEW j \in DOMAIN order, Digit(m, j) = 1
               PROVE  order[j] \in OnesAt(problem.c1, Follow(EnumeratedWords), k)
    BY DEF Pattern
  <2>1. order[j] \in InputsOf(problem.c1)
    BY <1>1 DEF ToSet
  <2>2. QED
    BY <1>3, <2>1 DEF OnesAt
<1>7. QED
  BY <1>5, <1>6 DEF m

\* The patterns of the rounds so far agree with the verdict so far.
Covered ==
    \A n \in 0..(TwoTo[Driven] - 1) :
        n < PNUM * time => /\ type = 1 => Agree(Pattern(n))
                           /\ type = 2 => ~Agree(Pattern(n))

\* A call goes on while its verdict stands, to its last round.
Exact ==
    /\ Distinct
    /\ time \in Nat
    /\ type \in {0, 1, 2}
    /\ pc = "round" => (time = 0 \/ type # 0)
    /\ pc = "done" => (type = 0 \/ time = Rounds)
    /\ Exhaustive => Covered

\* Before the first round there is nothing to cover.
LEMMA ExactInit == Init => Exact
<1> SUFFICES ASSUME Init PROVE Exact
  OBVIOUS
<1>1. time = 0 /\ type = 0 /\ pc = "round" /\ problem \in Problems
  BY DEF Init
<1>2. Distinct
  <2> DEFINE D == DrivenBy(problem)
  <2>1. order \in [1..Cardinality(D) -> D] /\ \A i, j \in DOMAIN order : order[i] = order[j] => i = j
    BY DEF Init, SetToSeqs, IsInjective
  <2>2. Cardinality(D) \in Nat
    <3>1. PICK len \in Nat : DOMAIN problem.pairs = 1..len
      BY <1>1, ProblemsAssumption
    <3>2. IsFiniteSet(1..len)
      BY FS_Interval
    <3>3. IsFiniteSet(D)
      <4> DEFINE f == [i \in 1..len |-> problem.pairs[i].c1]
      <4>1. f \in Surjection(1..len, D)
        BY <3>1 DEF DrivenBy, Surjection
      <4>2. QED
        BY <3>2, <4>1, FS_Surjection
    <3>4. QED
      BY <3>3, FS_CardinalityType
  <2> HIDE DEF D
  <2>3. order \in Seq(D)
    BY <2>1, <2>2
  <2>4. \A i \in DOMAIN order : order[i] \in ToSet(order)
    BY DEF ToSet
  <2>5. order \in Seq(ToSet(order))
    BY <2>3, <2>4
  <2>6. QED
    BY <2>1, <2>5 DEF Distinct
<1>3. Covered
  <2>1. PNUM * 0 = 0 /\ \A n \in 0..(TwoTo[Driven] - 1) : ~(n < 0)
    BY MiterAssumption
  <2>2. QED
    BY <1>1, <2>1 DEF Covered
<1>4. QED
  BY <1>1, <1>2, <1>3 DEF Exact

\* A round covers the next PNUM patterns, or all of them.
LEMMA ExactStep ==
    ASSUME NoConstantOne PROVE Simulating /\ Exact /\ [Next]_vars => Exact'
<1> SUFFICES ASSUME Simulating, Exact, [Next]_vars PROVE Exact'
  OBVIOUS
<1>1. CASE AllPatterns \/ RandomPatterns
  <2>1. PICK words \in {EnumeratedWords}
                \cup {SampledWords(some) : some \in [ToSet(order) -> SUBSET Patterns]} :
           Simulate(words) /\ (Exhaustive => words = EnumeratedWords)
    BY <1>1 DEF AllPatterns, RandomPatterns
  <2>2. /\ problem' = problem /\ order' = order /\ piValue' = Follow(words)
        /\ type' = Verdict(Compared(piValue')) /\ pc = "round" /\ time' = time + 1
        /\ pc' = IF type' = 0 \/ time' = Rounds THEN "done" ELSE "round"
    BY <1>1, <2>1 DEF Simulate, AllPatterns, RandomPatterns
  <2>3. problem \in Problems
    BY DEF Simulating
  <2>4. Words(piValue') /\ Followed(piValue')
    BY <2>2, FollowRight, RoundWords
  <2>5. /\ Compared(piValue') \in {0, 1, 2}
        /\ \A k \in Patterns :
              /\ Compared(piValue') = 1 => Agree(OnesAt(problem.c1, piValue', k))
              /\ Compared(piValue') = 2 => ~Agree(OnesAt(problem.c1, piValue', k))
    BY <2>3, <2>4, ComparedRight
  <2>6. /\ type \in {0, 1, 2} /\ time \in Nat /\ Distinct /\ (time = 0 \/ type # 0)
        /\ Exhaustive => Covered
    BY <2>2 DEF Exact
  <2>7. /\ type' \in {0, 1, 2}
        /\ type' # 0 => type' = Compared(piValue') /\ (type = 0 \/ type = type')
    BY <2>2, <2>5, <2>6 DEF Verdict
  <2>8. ASSUME Exhaustive, NEW n \in 0..(TwoTo[Driven] - 1), n < PNUM * (time + 1)
        PROVE  /\ type' = 1 => Agree(Pattern(n))
               /\ type' = 2 => ~Agree(Pattern(n))
    <3>1. PICK t \in Nat : t = TwoTo[Driven]
      BY <2>6, TwoToDoubles DEF Driven, Distinct
    <3>2. PICK p \in Nat \ {0} : p = PNUM
      BY MiterAssumption
    <3>3. PICK b \in Nat : b = p * time /\ p * (time + 1) = b + p
      BY <2>6, <3>2
    <3>4. CASE n < b
      <4>1. time # 0
        <5>1. p * 0 = 0 /\ n \in Nat
          BY <3>2, <3>1
        <5>2. QED
          BY <3>3, <3>4, <5>1
      <4>2. n < PNUM * time
        BY <3>2, <3>3, <3>4
      <4>3. (type = 1 => Agree(Pattern(n))) /\ (type = 2 => ~Agree(Pattern(n)))
        BY <2>6, <2>8, <4>2 DEF Covered
      <4>4. type # 0
        BY <2>6, <4>1
      <4>5. QED
        BY <2>7, <4>3, <4>4
    <3>5. CASE ~(n < b)
      <4> DEFINE k == n - b
      <4>1. k \in 0..(p - 1) /\ k < t /\ b + k = n
        BY <2>8, <3>1, <3>2, <3>3, <3>5
      <4> HIDE DEF k
      <4>2. k \in Patterns /\ k < end_index
        BY <3>1, <3>2, <4>1 DEF Patterns, end_index
      <4>3. OnesAt(problem.c1, piValue', k) = Pattern(PNUM * time + k)
        BY <2>1, <2>2, <2>6, <2>8, <4>2, RoundPatterns
      <4>4. PNUM * time + k = n
        BY <3>2, <3>3, <4>1
      <4>5. OnesAt(problem.c1, piValue', k) = Pattern(n)
        BY <4>3, <4>4
      <4>6. QED
        BY <2>5, <2>7, <4>2, <4>5
    <3>6. QED
      BY <3>4, <3>5
  <2>9. /\ Exhaustive' <=> Exhaustive
        /\ Rounds' = Rounds /\ (Distinct' <=> Distinct)
    BY <2>2 DEF Exhaustive, Rounds, Driven, Distinct
  <2>10. Exhaustive => Covered'
    <3>1. \A n : (Agree(Pattern(n)))' <=> Agree(Pattern(n))
      BY <2>2 DEF Agree, Pattern
    <3>2. Driven' = Driven /\ time' = time + 1
      BY <2>2 DEF Driven
    <3>3. QED
      BY <2>8, <3>1, <3>2 DEF Covered
  <2>11. time' \in Nat
    BY <2>2, <2>6
  <2>12. (pc' = "round" => type' # 0) /\ (pc' = "done" => type' = 0 \/ time' = Rounds)
    BY <2>2
  <2>13. QED
    BY <2>6, <2>7, <2>9, <2>10, <2>11, <2>12 DEF Exact
<1>2. CASE Returned \/ UNCHANGED vars
  <2>1. UNCHANGED vars
    BY <1>2 DEF Returned
  <2>2. /\ problem' = problem /\ order' = order /\ time' = time
        /\ type' = type /\ pc' = pc
    BY <2>1 DEF vars
  <2>3. /\ Exhaustive' <=> Exhaustive
        /\ Rounds' = Rounds /\ (Distinct' <=> Distinct)
    BY <2>2 DEF Exhaustive, Rounds, Driven, Distinct
  <2>4. Covered' <=> Covered
    BY <2>2 DEF Covered, Agree, Pattern, Driven
  <2>5. QED
    BY <2>2, <2>3, <2>4 DEF Exact
<1>3. QED
  BY <1>1, <1>2 DEF Next

\* With few driven inputs the verdict is exact, for circuits of any size and any
\* size of a word: the rounds simulate every pattern, each at its place.
THEOREM VerdictIsExact ==
    ASSUME NoConstantOne PROVE Spec => []VerdictExact
<1>1. Simulating /\ Exact => VerdictExact
  <2> SUFFICES ASSUME Simulating, Exact, pc = "done", Exhaustive
               PROVE  type = IF Equal THEN 1 ELSE IF Complementary THEN 2 ELSE 0
    BY DEF VerdictExact
  <2>1. (Equal => type = 1) /\ (Complementary => type = 2) /\ type \in {0, 1, 2}
    BY DEF Simulating, Exact
  <2>2. ASSUME type # 0, NEW ones \in SUBSET ToSet(order)
        PROVE  (type = 1 => Agree(ones)) /\ (type = 2 => ~Agree(ones))
    <3>1. PICK n \in 0..(TwoTo[Driven] - 1) : Pattern(n) = ones
      BY PatternsOnto DEF Exact
    <3>2. PICK t \in Nat : t = TwoTo[Driven]
      BY TwoToDoubles DEF Driven, Exact, Distinct
    <3>3. PICK p \in Nat \ {0} : p = PNUM
      BY MiterAssumption
    <3>4. time = (t \div p) + 1
      BY <2>2, <3>2, <3>3 DEF Exact, Rounds
    <3>5. t < p * ((t \div p) + 1)
      OBVIOUS
    <3>6. n < PNUM * time
      <4>1. n < t /\ n \in Nat
        BY <3>1, <3>2
      <4>2. PNUM * time = p * ((t \div p) + 1)
        BY <3>3, <3>4
      <4>3. PICK x \in Nat : x = t \div p
        OBVIOUS
      <4>4. PICK y \in Nat : y = p * (x + 1)
        OBVIOUS
      <4>5. QED
        BY <3>5, <4>1, <4>2, <4>3, <4>4
    <3>7. QED
      BY <3>1, <3>6 DEF Exact, Covered
  <2>3. (type = 1 => Equal) /\ (type = 2 => Complementary)
    BY <2>2 DEF Equal, Complementary
  <2>4. QED
    BY <2>1, <2>3
<1>2. Init => Simulating /\ Exact
  BY SimulatingInit, ExactInit
<1>3. Simulating /\ Exact /\ [Next]_vars => (Simulating /\ Exact)'
  BY SimulatingStep, ExactStep
<1>4. QED
  BY <1>1, <1>2, <1>3, PTL DEF Spec
================================================================================
