------------------------------ MODULE MatchSearch ------------------------------
(***************************************************************************)
(* The backtracking search of class Match: match_output picks a circuit-2  *)
(* output and a circuit-1 candidate for it, match_input gives every        *)
(* circuit-2 input of its support a circuit-1 input or a constant, the     *)
(* miter decides the pair, and the next output is tried with the locks     *)
(* taken so far.  The C++ call stack is the variable stack: one record per *)
(* activation of match_output, whose field ins is the chain of match_input *)
(* activations under it; pc is the point of the code the top one is at.    *)
(***************************************************************************)
EXTENDS Integers, Sequences, FiniteSets, Functions

CONSTANTS
    C1In, C2In, C1Out, C2Out,   \* the ports of the two circuits
    Bus1, Bus2,                 \* indices into bus[0], bus[1]
    BusIdx1, BusIdx2,           \* Node::_bus_idx of every port
    BusIndices1, BusIndices2,   \* Node::_bus_indices of every input
    Supp1, Supp2,               \* output_support[0] (as isPIinPO), output_support[1]
    OutOrder,                   \* output_match_order
    OutCand, InCand,            \* output_match_cand, input_match_cand
    InitIn, InitNe,             \* _init_input (None: NULL), _init_input_ne
    Priority,                   \* Node::_priority when the search starts
    Unpaired,                   \* {n84} when caseID is "08", {} otherwise
    Netlists,                   \* the pairs of circuits: sets of inputs that give 1
    ExhaustiveLimit,            \* 18: from here on the miter only samples
    None, CONST                 \* -1 and CONST_VAL

NoLock == [c1 |-> None, neg |-> 0]
InputLock == [c1 : C1In \cup {CONST, None}, neg : {0, 1}]
OutputLock == [c1 : C1Out \cup {None}, neg : {0, 1}]

ASSUME PortsAssumption ==
    /\ IsFiniteSet(C1In) /\ IsFiniteSet(C2In)
    /\ IsFiniteSet(C1Out) /\ IsFiniteSet(C2Out)
    /\ None \notin C1In \cup C1Out \cup {CONST}
    /\ CONST \notin C1In

ASSUME BusAssumption ==
    /\ None \notin Bus1 /\ None \notin Bus2
    /\ BusIdx1 \in [C1In \cup C1Out -> Bus1]
    /\ BusIdx2 \in [C2In \cup C2Out -> Bus2]
    /\ BusIndices1 \in [C1In -> Seq(Bus1)]
    /\ BusIndices2 \in [C2In -> Seq(Bus2)]

\* Supports list an input once; an input that crosses several buses has
\* candidates with as many buses (genInputMatch).
ASSUME CandidateAssumption ==
    /\ Supp1 \in [C1Out -> SUBSET C1In]
    /\ Supp2 \in [C2Out -> Seq(C2In)]
    /\ \A o \in C2Out : IsInjective(Supp2[o])
    /\ OutOrder \in Seq(C2Out)
    /\ IsInjective(OutOrder)
    /\ Range(OutOrder) = C2Out
    /\ OutCand \in [C2Out -> Seq(C1Out)]
    /\ InCand \in [C2In -> Seq(C1In \cup {CONST})]
    /\ InitIn \in [C2In -> C1In \cup {None}]
    /\ InitNe \in [C2In -> {-1, 0, 1}]
    /\ Priority \in [C2Out -> Int]
    /\ Unpaired \subseteq C1In
    /\ ExhaustiveLimit \in Nat
    /\ \A i \in C2In, c \in C1In :
          (c \in Range(InCand[i]) /\ Len(BusIndices2[i]) > 1)
             => Len(BusIndices1[c]) >= Len(BusIndices2[i])

\* setBus: a port is once in every bus that lists it, _bus_idx is one of them, and
\* a bus is of inputs or of outputs.
ASSUME BusListAssumption ==
    /\ \A c \in C1In : IsInjective(BusIndices1[c]) /\ BusIdx1[c] \in Range(BusIndices1[c])
    /\ \A i \in C2In : IsInjective(BusIndices2[i]) /\ BusIdx2[i] \in Range(BusIndices2[i])
    /\ \A c \in C1In, o \in C1Out : BusIdx1[o] \notin Range(BusIndices1[c])
    /\ \A i \in C2In, o \in C2Out : BusIdx2[o] \notin Range(BusIndices2[i])

VARIABLES
    mod,                    \* the pair of netlists being matched; never changes
    inputLock, inputLockCount,
    outputLock, c1_OutputLockCount,
    c1_inputMatchCount,
    bus_2_to_1, bus_1_to_2, bus_2_to_1_count,
    maxOutputDepth, maxOutputMatch, maxInputMatch, findOutputBest,
    stack, pc

inputVars  == <<inputLock, inputLockCount, c1_inputMatchCount>>
outputVars == <<outputLock, c1_OutputLockCount>>
busVars    == <<bus_2_to_1, bus_1_to_2, bus_2_to_1_count>>
bestVars   == <<maxOutputDepth, maxOutputMatch, maxInputMatch>>
vars == <<mod, inputVars, outputVars, busVars, bestVars, findOutputBest, stack, pc>>

inputSizeEq == Cardinality(C1In) = Cardinality(C2In)
PO2Size == Cardinality(C2Out)

--------------------------------------------------------------------------------
(* The activations on the C++ stack.                                       *)

\* One match_output activation: the output it picked, the candidate it is at,
\* and the locals of that candidate's attempt: quota, c1_input_match_count,
\* record_lock, what is left of c2_input_set, and one frame per activation of
\* match_input: its input, the candidate it is at and the polarity.
InFrame == [i : C2In, j : Nat \ {0}, neg : 0..2]
Level == [out : C2Out, k : Nat \ {0}, quota : Int, used : [C1In -> Int],
          todo : SUBSET C2In, locked : SUBSET C2In,
          ins : Seq(InFrame)]

AtCandidate(o, k) ==
    [out |-> o, k |-> k, quota |-> 0, used |-> [c \in C1In |-> 0],
     todo |-> {}, locked |-> {}, ins |-> <<>>]

Depth    == Len(stack)
Top      == stack[Depth]
Frames   == Len(Top.ins)
Frame    == Top.ins[Frames]
C1Output == OutCand[Top.out][Top.k]
C2Input  == Frame.i
C1Input  == InCand[C2Input][Frame.j]

ReplaceTop(level) == stack' = [stack EXCEPT ![Depth] = level]
ini_neg(i) == IF InitNe[i] = -1 THEN 0 ELSE InitNe[i]
\* (variant) one polarity too many
max_neg_TooFar(i) == IF InitNe[i] = -1 THEN 2 ELSE InitNe[i]
\* (variant) only the positive polarity is tried
max_neg_Positive(i) == ini_neg(i)
max_neg(i) == IF InitNe[i] = -1 THEN 1 ELSE InitNe[i]

\* the top frame moves on to the candidate after the one it is at
NextCandidate(level) ==
    [level EXCEPT !.ins[Frames] = [i |-> C2Input, j |-> Frame.j + 1, neg |-> ini_neg(C2Input)]]

--------------------------------------------------------------------------------
(* Buses.                                                                  *)

Unbound(b2, b1) == bus_2_to_1[b2] = None /\ bus_1_to_2[b1] = None
Bound(b2, b1)   == bus_2_to_1[b2] = b1 /\ bus_1_to_2[b1] = b2

\* The pairs of buses that matching i to c ties together.
BusPairs(i, c) ==
    IF Len(BusIndices2[i]) > 1
    THEN {<<BusIndices2[i][m], BusIndices1[c][m]>> : m \in DOMAIN BusIndices2[i]}
    ELSE {<<BusIdx2[i], BusIdx1[c]>>}

\* (variant) buses already bound to each other are refused
BusFits_OnlyUnbound(i, c) ==
    \/ \A p \in BusPairs(i, c) : Unbound(p[1], p[2])
    \/ Len(BusIndices2[i]) <= 1 /\ c \in Unpaired

BusFits(i, c) ==
    \/ \A p \in BusPairs(i, c) : Unbound(p[1], p[2]) \/ Bound(p[1], p[2])
    \/ Len(BusIndices2[i]) <= 1 /\ c \in Unpaired

LinkBuses(pairs) ==
    LET free == {p \in pairs : Unbound(p[1], p[2])} IN
    /\ bus_2_to_1' = [b \in Bus2 |-> IF \E p \in free : p[1] = b
                                     THEN (CHOOSE p \in free : p[1] = b)[2]
                                     ELSE bus_2_to_1[b]]
    /\ bus_1_to_2' = [b \in Bus1 |-> IF \E p \in free : p[2] = b
                                     THEN (CHOOSE p \in free : p[2] = b)[1]
                                     ELSE bus_1_to_2[b]]

\* (variant) released while something else still counts on the bus
ReleaseBuses_TooEarly(pairs, count) ==
    LET gone == {p \in pairs : count[p[1]] <= 1} IN
    /\ bus_2_to_1_count' = count
    /\ bus_2_to_1' = [b \in Bus2 |-> IF \E p \in gone : p[1] = b THEN None
                                     ELSE bus_2_to_1[b]]
    /\ bus_1_to_2' = [b \in Bus1 |-> IF \E p \in gone : p[2] = b THEN None
                                     ELSE bus_1_to_2[b]]

\* (variant) the map from circuit 1 is never reset
ReleaseBuses_OneSided(pairs, count) ==
    /\ bus_2_to_1_count' = count
    /\ bus_2_to_1' = [b \in Bus2 |-> IF count[b] = 0 THEN None ELSE bus_2_to_1[b]]
    /\ UNCHANGED bus_1_to_2

\* count is bus_2_to_1_count after the decrements of the undo.
ReleaseBuses(pairs, count) ==
    LET gone == {p \in pairs : count[p[1]] = 0} IN
    /\ bus_2_to_1_count' = count
    /\ bus_2_to_1' = [b \in Bus2 |-> IF \E p \in gone : p[1] = b THEN None
                                     ELSE bus_2_to_1[b]]
    /\ bus_1_to_2' = [b \in Bus1 |-> IF \E p \in gone : p[2] = b THEN None
                                     ELSE bus_1_to_2[b]]

\* How many of the locks recorded in rec keep bus b in use.
RecordedOn(b, rec) ==
    Cardinality({i \in rec : inputLock[i].c1 # CONST /\ BusIdx2[i] = b})

\* (variant) the count of the output is never taken back
CommitCount_KeepsOutput(level, d) ==
    [b \in Bus2 |-> bus_2_to_1_count[b]
        + d * RecordedOn(b, level.locked) + IF b = BusIdx2[level.out] THEN 1 ELSE 0]

\* bus_2_to_1_count with every count of the committed pair added (d = 1) or
\* taken back (d = -1).
CommitCount(level, d) ==
    [b \in Bus2 |-> bus_2_to_1_count[b]
        + d * (RecordedOn(b, level.locked) + IF b = BusIdx2[level.out] THEN 1 ELSE 0)]

\* (variant) the recorded locks are never taken back
RecordLocks_NeverUndone(level, d) ==
    [i \in C2In |-> inputLockCount[i] + IF i \in level.locked THEN 1 ELSE 0]

\* (variant) the recorded locks are not counted
RecordLocks_Uncounted(level, d) == inputLockCount

\* inputLockCount with the recorded locks counted once more (d = 1) or less (-1).
RecordLocks(level, d) ==
    [i \in C2In |-> inputLockCount[i] + IF i \in level.locked THEN d ELSE 0]

\* (variant) the lock stays when nothing holds it any more
LockLeft_Stale(i) == inputLock[i]

\* What becomes of the lock of input i when one of its holders lets go.
LockLeft(i) == IF inputLockCount[i] = 1 THEN NoLock ELSE inputLock[i]

\* (variant) never decremented
OutputLockCount_NeverUndone(c, d) == [c1_OutputLockCount EXCEPT ![c] = @ + 1]

OutputLockCount(c, d) == [c1_OutputLockCount EXCEPT ![c] = @ + d]

--------------------------------------------------------------------------------
(* The miter of one output pair, miterOneOutputRandom.                     *)

\* Circuit 2's inputs that carry 1 when the circuit-1 inputs in a do; what is
\* not locked keeps its initial zero.
Drive(lock, S, a) ==
    {i \in S : CASE lock[i].c1 = None -> FALSE
                 [] lock[i].c1 = CONST -> lock[i].neg = 1
                 [] OTHER -> (lock[i].c1 \in a) # (lock[i].neg = 1)}

Agrees(o1, o2, lock, a) ==
    (a \in mod.c1[o1]) = (Drive(lock, Range(Supp2[o2]), a) \in mod.c2[o2])

\* (variant) what is not equal everywhere is taken for the complement
MiterType_AnyDifference(o1, o2, lock, patterns) ==
    IF \A a \in patterns : Agrees(o1, o2, lock, a) THEN 1 ELSE 2

\* 1: equal on every pattern, 2: complementary on every pattern, 0: neither.
MiterType(o1, o2, lock, patterns) ==
    IF \A a \in patterns : Agrees(o1, o2, lock, a) THEN 1
    ELSE IF \A a \in patterns : ~Agrees(o1, o2, lock, a) THEN 2
    ELSE 0

Driven(o2, lock) == {lock[i].c1 : i \in Range(Supp2[o2])} \ {None, CONST}

\* (variant) the last pattern is not simulated
MiterResults_MissesLast(o1, o2, lock) ==
    {MiterType(o1, o2, lock, SUBSET Driven(o2, lock) \ {Driven(o2, lock)})}

\* Below the limit every pattern of the driven circuit-1 inputs is simulated;
\* above it any sample of them may be.
MiterResults(o1, o2, lock) ==
    LET all == SUBSET Driven(o2, lock) IN
    IF Cardinality(Driven(o2, lock)) < ExhaustiveLimit
    THEN {MiterType(o1, o2, lock, all)}
    ELSE {MiterType(o1, o2, lock, some) : some \in SUBSET all \ {{}}}

--------------------------------------------------------------------------------
(* Initial state: new_boolean_match before it calls match_output(0, ...).  *)

Init ==
    /\ mod \in Netlists
    /\ inputLock = [i \in C2In |-> NoLock]
    /\ inputLockCount = [i \in C2In |-> 0]
    /\ outputLock = [o \in C2Out |-> NoLock]
    /\ c1_OutputLockCount = [o \in C1Out |-> 0]
    /\ c1_inputMatchCount = [c \in C1In |-> 0]
    /\ bus_2_to_1 = [b \in Bus2 |-> None]
    /\ bus_1_to_2 = [b \in Bus1 |-> None]
    /\ bus_2_to_1_count = [b \in Bus2 |-> 0]
    /\ maxOutputDepth = -1
    /\ maxOutputMatch = outputLock
    /\ maxInputMatch = inputLock
    /\ findOutputBest = FALSE
    /\ stack = <<>>
    /\ pc = "match_output"

--------------------------------------------------------------------------------
(* match_output                                                            *)

\* The first lines of match_output, executed on every call.
RecordBest ==
    IF Depth > maxOutputDepth
    THEN /\ maxOutputDepth' = Depth
         /\ maxOutputMatch' = outputLock
         /\ maxInputMatch' = inputLock
    ELSE UNCHANGED bestVars

\* An output whose priority is not positive gets the number of its still
\* unbound input buses, negated, at every call.
CurrentPriority(o) ==
    IF Priority[o] > 0 THEN Priority[o]
    ELSE -Cardinality({b \in UNION {Range(BusIndices2[i]) : i \in Range(Supp2[o])} :
                          bus_2_to_1[b] = None})

\* next_match: the first of the unlocked outputs with the highest priority.
IsNextMatch(o) ==
    \E k \in DOMAIN OutOrder :
        /\ o = OutOrder[k]
        /\ outputLock[o] = NoLock
        /\ \A m \in DOMAIN OutOrder :
              outputLock[OutOrder[m]] = NoLock =>
                 \/ CurrentPriority(OutOrder[m]) < CurrentPriority(o)
                 \/ CurrentPriority(OutOrder[m]) = CurrentPriority(o) /\ k <= m

AllMatched ==
    /\ pc = "match_output"
    /\ Depth = PO2Size
    /\ RecordBest
    /\ findOutputBest' = TRUE
    /\ pc' = "done"
    /\ UNCHANGED <<mod, inputVars, outputVars, busVars, stack>>

\* Disabled when next_match returns NULL, which the code would dereference.
ChooseOutput ==
    /\ pc = "match_output"
    /\ Depth # PO2Size
    /\ RecordBest
    /\ \E o \in C2Out : IsNextMatch(o) /\ stack' = Append(stack, AtCandidate(o, 1))
    /\ pc' = "output_cand"
    /\ UNCHANGED <<mod, inputVars, outputVars, busVars, findOutputBest>>

\* The candidates are exhausted: return false to the match_input that called.
NoMoreOutputs ==
    /\ pc = "output_cand"
    /\ Top.k > Len(OutCand[Top.out])
    /\ stack' = SubSeq(stack, 1, Depth - 1)
    /\ pc' = IF Depth = 1 THEN "done" ELSE "output_back"
    /\ UNCHANGED <<mod, inputVars, outputVars, busVars, bestVars, findOutputBest>>

\* filtLockedInput: what the locks already taken leave of the attempt to match
\* output o2 with o1.
Locked(o2) == {i \in Range(Supp2[o2]) : inputLock[i].c1 # None}
LockedConst(o2) == {i \in Locked(o2) : inputLock[i].c1 = CONST}
LockedTo(o2, c) == {i \in Locked(o2) : inputLock[i].c1 = c}
Dangling(i, o1) ==
    inputLock[i].c1 = None /\ InitIn[i] # None /\ InitIn[i] \notin Supp1[o1]

LocksInSupport(o2, o1) ==
    \A i \in Locked(o2) \ LockedConst(o2) : inputLock[i].c1 \in Supp1[o1]

\* (variant) one input short
QuotaLeft_OneShort(o2, o1) == Len(Supp2[o2]) - Cardinality(Supp1[o1]) - 1

\* (variant) a dangling input costs nothing
QuotaLeft_DanglingFree(o2, o1) ==
    LET paired == Locked(o2) \ LockedConst(o2) IN
    Len(Supp2[o2]) - Cardinality(Supp1[o1]) - Cardinality(LockedConst(o2))
      - (Cardinality(paired) - Cardinality({inputLock[i].c1 : i \in paired}))

\* Constants, dangling inputs and all inputs but one on the same circuit-1
\* input each use up one of the inputs circuit 2's output has more.
QuotaLeft(o2, o1) ==
    LET paired == Locked(o2) \ LockedConst(o2) IN
    Len(Supp2[o2]) - Cardinality(Supp1[o1])
      - Cardinality(LockedConst(o2))
      - (Cardinality(paired) - Cardinality({inputLock[i].c1 : i \in paired}))
      - Cardinality({i \in Range(Supp2[o2]) : Dangling(i, o1)})

\* (variant) the candidate may be matched already
OutputFits_Again(o2, o1) ==
    /\ Unbound(BusIdx2[o2], BusIdx1[o1]) \/ Bound(BusIdx2[o2], BusIdx1[o1])
    /\ LocksInSupport(o2, o1)
    /\ QuotaLeft(o2, o1) >= 0

OutputFits(o2, o1) ==
    /\ c1_OutputLockCount[o1] = 0
    /\ Unbound(BusIdx2[o2], BusIdx1[o1]) \/ Bound(BusIdx2[o2], BusIdx1[o1])
    /\ LocksInSupport(o2, o1)
    /\ QuotaLeft(o2, o1) >= 0

SkipOutput ==
    /\ pc = "output_cand"
    /\ Top.k <= Len(OutCand[Top.out])
    /\ ~OutputFits(Top.out, C1Output)
    /\ ReplaceTop(AtCandidate(Top.out, Top.k + 1))
    /\ UNCHANGED <<mod, inputVars, outputVars, busVars, bestVars, findOutputBest, pc>>

EnterOutput ==
    /\ pc = "output_cand"
    /\ Top.k <= Len(OutCand[Top.out])
    /\ OutputFits(Top.out, C1Output)
    /\ ReplaceTop([Top EXCEPT
           !.quota = QuotaLeft(Top.out, C1Output),
           !.used = [c \in C1In |-> Cardinality(LockedTo(Top.out, c))],
           !.todo = {i \in Range(Supp2[Top.out]) :
                        inputLock[i].c1 = None /\ ~Dangling(i, C1Output)},
           !.locked = Locked(Top.out)])
    /\ pc' = "match_input"
    /\ UNCHANGED <<mod, inputVars, outputVars, busVars, bestVars, findOutputBest>>

--------------------------------------------------------------------------------
(* match_input                                                             *)

\* c2_input_set[idx]: the inputs are taken in the order of the support.
IsNextInput(i) ==
    \E k \in DOMAIN Supp2[Top.out] :
        /\ i = Supp2[Top.out][k]
        /\ i \in Top.todo
        /\ \A m \in 1..(k - 1) : Supp2[Top.out][m] \notin Top.todo

\* idx < c2_input_set.size(): start on the candidates of the next input.
NextInput ==
    /\ pc = "match_input"
    /\ \E i \in Top.todo :
          /\ IsNextInput(i)
          /\ ReplaceTop([Top EXCEPT !.todo = @ \ {i},
                !.ins = Append(@, [i |-> i, j |-> 1, neg |-> ini_neg(i)])])
    /\ pc' = "input_cand"
    /\ UNCHANGED <<mod, inputVars, outputVars, busVars, bestVars, findOutputBest>>

\* idx = c2_input_set.size(): every input has its place; ask the miter.
MiterRejects ==
    /\ pc = "match_input"
    /\ Top.todo = {}
    /\ 0 \in MiterResults(C1Output, Top.out, inputLock)
    /\ pc' = "input_back"
    /\ UNCHANGED <<mod, inputVars, outputVars, busVars, bestVars, findOutputBest, stack>>

\* The pair is equal (1) or complementary (2): lock it, count the recorded
\* input locks once more, and go on with the next output.
MiterAccepts ==
    /\ pc = "match_input"
    /\ Top.todo = {}
    /\ \E r \in MiterResults(C1Output, Top.out, inputLock) \ {0} :
          outputLock' = [outputLock EXCEPT ![Top.out] = [c1 |-> C1Output, neg |-> r - 1]]
    /\ c1_OutputLockCount' = OutputLockCount(C1Output, 1)
    /\ inputLockCount' = RecordLocks(Top, 1)
    /\ LinkBuses({<<BusIdx2[Top.out], BusIdx1[C1Output]>>})
    /\ bus_2_to_1_count' = CommitCount(Top, 1)
    /\ pc' = "match_output"
    /\ UNCHANGED <<mod, inputLock, c1_inputMatchCount, bestVars, findOutputBest, stack>>

\* The candidate loop is over: return false to the frame below.
NoMoreInputs ==
    /\ pc = "input_cand"
    /\ Frame.j > Len(InCand[C2Input])
    /\ ReplaceTop([Top EXCEPT !.todo = @ \cup {C2Input},
                              !.ins = SubSeq(@, 1, Frames - 1)])
    /\ pc' = "input_back"
    /\ UNCHANGED <<mod, inputVars, outputVars, busVars, bestVars, findOutputBest>>

\* (variant) with equal sizes the input may be in use for another output
InputFits_Again(i, c) ==
    IF c = CONST THEN Top.quota # 0
    ELSE /\ c \in Supp1[C1Output]
         /\ ~(Top.used[c] # 0 /\ Top.quota = 0)
         /\ BusFits(i, c)

\* (variant) inputs are shared whatever the quota
InputFits_SharesFreely(i, c) ==
    IF c = CONST THEN Top.quota # 0
    ELSE /\ ~(inputSizeEq /\ c1_inputMatchCount[c] # 0)
         /\ c \in Supp1[C1Output]
         /\ BusFits(i, c)

InputFits(i, c) ==
    IF c = CONST THEN Top.quota # 0
    ELSE /\ ~(inputSizeEq /\ c1_inputMatchCount[c] # 0)
         /\ c \in Supp1[C1Output]
         /\ ~(Top.used[c] # 0 /\ Top.quota = 0)
         /\ BusFits(i, c)

SkipInput ==
    /\ pc = "input_cand"
    /\ Frame.j <= Len(InCand[C2Input])
    /\ ~InputFits(C2Input, C1Input)
    /\ ReplaceTop(NextCandidate(Top))
    /\ UNCHANGED <<mod, inputVars, outputVars, busVars, bestVars, findOutputBest, pc>>

BindConst ==
    /\ pc = "input_cand"
    /\ Frame.j <= Len(InCand[C2Input])
    /\ C1Input = CONST
    /\ InputFits(C2Input, C1Input)
    /\ ReplaceTop([Top EXCEPT !.quota = @ - 1])
    /\ pc' = "neg"
    /\ UNCHANGED <<mod, inputVars, outputVars, busVars, bestVars, findOutputBest>>

BindInput ==
    /\ pc = "input_cand"
    /\ Frame.j <= Len(InCand[C2Input])
    /\ C1Input # CONST
    /\ InputFits(C2Input, C1Input)
    /\ LET pairs == BusPairs(C2Input, C1Input) IN
       /\ LinkBuses(pairs)
       /\ bus_2_to_1_count' = [b \in Bus2 |->
             bus_2_to_1_count[b] + IF \E p \in pairs : p[1] = b THEN 1 ELSE 0]
    /\ ReplaceTop([Top EXCEPT !.quota = @ - (IF Top.used[C1Input] # 0 THEN 1 ELSE 0),
                              !.used[C1Input] = @ + 1])
    /\ c1_inputMatchCount' = [c1_inputMatchCount EXCEPT ![C1Input] = @ + 1]
    /\ pc' = "neg"
    /\ UNCHANGED <<mod, inputLock, inputLockCount, outputVars, bestVars, findOutputBest>>

\* One turn of the loop over the polarities: lock and recurse.
AssignNeg ==
    /\ pc = "neg"
    /\ Frame.neg <= max_neg(C2Input)
    /\ inputLock' = [inputLock EXCEPT ![C2Input] =
          IF inputLockCount[C2Input] = 0 THEN [c1 |-> C1Input, neg |-> Frame.neg] ELSE @]
    /\ inputLockCount' = [inputLockCount EXCEPT ![C2Input] = @ + 1]
    /\ pc' = "match_input"
    /\ UNCHANGED <<mod, c1_inputMatchCount, outputVars, busVars, bestVars,
                   findOutputBest, stack>>

\* Both polarities failed: give the candidate back.
UnbindConst ==
    /\ pc = "neg"
    /\ Frame.neg > max_neg(C2Input)
    /\ C1Input = CONST
    /\ ReplaceTop(NextCandidate([Top EXCEPT !.quota = @ + 1]))
    /\ pc' = "input_cand"
    /\ UNCHANGED <<mod, inputVars, outputVars, busVars, bestVars, findOutputBest>>

UnbindInput ==
    /\ pc = "neg"
    /\ Frame.neg > max_neg(C2Input)
    /\ C1Input # CONST
    /\ LET pairs == BusPairs(C2Input, C1Input) IN
       ReleaseBuses(pairs, [b \in Bus2 |->
          bus_2_to_1_count[b] - IF \E p \in pairs : p[1] = b THEN 1 ELSE 0])
    /\ ReplaceTop(NextCandidate([Top EXCEPT
          !.quota = @ + (IF Top.used[C1Input] > 1 THEN 1 ELSE 0),
          !.used[C1Input] = @ - 1]))
    /\ c1_inputMatchCount' = [c1_inputMatchCount EXCEPT ![C1Input] = @ - 1]
    /\ pc' = "input_cand"
    /\ UNCHANGED <<mod, inputLock, inputLockCount, outputVars, bestVars, findOutputBest>>

\* match_input returned false to the polarity loop of the frame below it: take
\* the lock back and try the next polarity.
UnlockInput ==
    /\ pc = "input_back"
    /\ Frames > 0
    /\ inputLockCount' = [inputLockCount EXCEPT ![C2Input] = @ - 1]
    /\ inputLock' = [inputLock EXCEPT ![C2Input] = LockLeft(C2Input)]
    /\ ReplaceTop([Top EXCEPT !.ins[Frames].neg = @ + 1])
    /\ pc' = "neg"
    /\ UNCHANGED <<mod, c1_inputMatchCount, outputVars, busVars, bestVars, findOutputBest>>

\* ... or to match_output, which goes to its next candidate.
NextOutputCandidate ==
    /\ pc = "input_back"
    /\ Frames = 0
    /\ ReplaceTop(AtCandidate(Top.out, Top.k + 1))
    /\ pc' = "output_cand"
    /\ UNCHANGED <<mod, inputVars, outputVars, busVars, bestVars, findOutputBest>>

\* match_output returned false to the match_input that committed this pair.
UndoOutput ==
    /\ pc = "output_back"
    /\ outputLock' = [outputLock EXCEPT ![Top.out] = NoLock]
    /\ c1_OutputLockCount' = OutputLockCount(C1Output, -1)
    /\ inputLockCount' = RecordLocks(Top, -1)
    /\ ReleaseBuses({<<BusIdx2[Top.out], BusIdx1[C1Output]>>}, CommitCount(Top, -1))
    /\ pc' = "input_back"
    /\ UNCHANGED <<mod, inputLock, c1_inputMatchCount, bestVars, findOutputBest, stack>>

\* The search has returned to new_boolean_match.
Done == pc = "done" /\ UNCHANGED vars

MatchOutput == AllMatched \/ ChooseOutput \/ NoMoreOutputs \/ SkipOutput
                 \/ EnterOutput \/ NextOutputCandidate
MatchInput == NextInput \/ MiterRejects \/ MiterAccepts \/ NoMoreInputs \/ SkipInput
                \/ BindConst \/ BindInput \/ AssignNeg \/ UnbindConst \/ UnbindInput
                \/ UnlockInput \/ UndoOutput
Next == MatchOutput \/ MatchInput \/ Done

\* One thread runs the search and nothing blocks it.
Spec == Init /\ [][Next]_vars /\ WF_vars(Next)
================================================================================
