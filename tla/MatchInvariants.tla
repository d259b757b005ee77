---------------------------- MODULE MatchInvariants ----------------------------
(***************************************************************************)
(* What holds at every step of the search and makes the properties of      *)
(* MatchSearchProperties inductive: which activation of match_input holds  *)
(* which input, what the quota has left to give, who counts on which bus.  *)
(***************************************************************************)
EXTENDS MatchSearchProperties

--------------------------------------------------------------------------------
(* Inputs and their locks (InputLocksHeld).                                *)

\* The inputs that level n has an activation of match_input for.
Inputs(n) == {stack[n].ins[m].i : m \in DOMAIN stack[n].ins}

\* The candidate a frame is at, and the lock that goes with it.
Choice(f) == InCand[f.i][f.j]
LockOf(f) == [c1 |-> Choice(f), neg |-> f.neg]

\* Level n itself keeps input i locked.
Holds(n, i) == \E m \in LockingFrames(n) : stack[n].ins[m].i = i

\* An input is taken once: by one activation of one level, and it is not left to
\* that level or to one above it; what a level recorded as locked was taken below.
FramesApart ==
    \A n \in 1..Depth :
        /\ \A a, b \in DOMAIN stack[n].ins :
              stack[n].ins[a].i = stack[n].ins[b].i => a = b
        /\ Inputs(n) \cap stack[n].todo = {}
        /\ \A k \in 1..(n - 1) : Inputs(k) \cap (Inputs(n) \cup stack[n].todo) = {}
        /\ \A i \in stack[n].locked : \E k \in 1..(n - 1) : i \in Inputs(k)

\* The locks are those of the activations, and the counts those of the levels.
LocksTaken ==
    /\ \A i \in C2In : inputLockCount[i] = Cardinality(LockedBy(i))
    /\ \A i \in C2In : inputLock[i] # NoLock => \E n \in 1..Depth : Holds(n, i)
    /\ \A n \in 1..Depth : \A m \in LockingFrames(n) :
          inputLock[stack[n].ins[m].i] = LockOf(stack[n].ins[m])

InputHolding == FramesApart /\ LocksTaken

--------------------------------------------------------------------------------
(* Circuit-1 inputs and their counts (InputOneToOne).                      *)

\* The activations of level n that have given their input a place.
BoundFrames(n) ==
    LET frames == DOMAIN stack[n].ins IN
    IF n = Depth /\ pc = "input_cand" THEN frames \ {Frames} ELSE frames

\* The inputs that level n has placed on c, and all inputs on c.
Placed(n, c) ==
    {stack[n].ins[m].i : m \in {b \in BoundFrames(n) : Choice(stack[n].ins[b]) = c}}
BoundTo(c) == UNION {Placed(n, c) : n \in 1..Depth}

\* c1_inputMatchCount counts the inputs on c; with equal sizes it is at most one.
MatchesCounted ==
    \A c \in C1In : /\ c1_inputMatchCount[c] = Cardinality(BoundTo(c))
                    /\ inputSizeEq => Cardinality(BoundTo(c)) <= 1

--------------------------------------------------------------------------------
(* The quota (SupportDriven).                                              *)

\* The inputs level n works with on c: recorded as locked to it or placed on it.
Taken(n, c) == {i \in stack[n].locked : inputLock[i].c1 = c} \cup Placed(n, c)
Partners(n) == {c \in C1In : Taken(n, c) # {}}

\* The inputs of level n still without a place.
Open(n) ==
    stack[n].todo \cup
      {stack[n].ins[m].i : m \in DOMAIN stack[n].ins \ BoundFrames(n)}

\* Level n works on a candidate that filtLockedInput let through.
Entered(n) == ~(n = Depth /\ pc = "output_cand")

\* Of the support of a level, the inputs taken below are recorded as locked, and
\* what is not left to it and not its own was dangling.
SplitAt(n) ==
    /\ stack[n].todo \cup Inputs(n) \subseteq Range(Supp2[stack[n].out])
    /\ stack[n].locked =
          {i \in Range(Supp2[stack[n].out]) : \E k \in 1..(n - 1) : i \in Inputs(k)}
    /\ \A i \in Range(Supp2[stack[n].out])
                  \ (stack[n].todo \cup Inputs(n) \cup stack[n].locked) : InitIn[i] # None
SupportSplit == \A n \in 1..Depth : Entered(n) => SplitAt(n)

\* The quota is what the inputs without a place are more than the circuit-1
\* inputs without a partner, and never negative.
QuotaAt(n) ==
    /\ \A c \in C1In : stack[n].used[c] = Cardinality(Taken(n, c))
    /\ Partners(n) \subseteq Supp1[Candidate(n)]
    /\ stack[n].quota >= 0
    /\ stack[n].quota = Cardinality(Open(n)) + Cardinality(Partners(n))
                          - Cardinality(Supp1[Candidate(n)])
QuotaKept == \A n \in 1..Depth : Entered(n) => QuotaAt(n)

--------------------------------------------------------------------------------
(* Buses (BusOneToOne, BusesHeld).                                         *)

\* What counts on bus b: the activations that placed an input on it, the levels
\* committed to an output on it, and the locks they recorded on it.
PlacedOn(b) ==
    {i \in C2In : \E c \in C1In : i \in BoundTo(c) /\ \E p \in BusPairs(i, c) : p[1] = b}
CommittedOn(b) == {n \in CommittedLevels : BusIdx2[stack[n].out] = b}
RecordedFor(b) ==
    {r \in CommittedLevels \X C2In :
        r[2] \in stack[r[1]].locked /\ inputLock[r[2]].c1 # CONST /\ BusIdx2[r[2]] = b}

BusesCounted ==
    \A b \in Bus2 : bus_2_to_1_count[b] =
        Cardinality(PlacedOn(b)) + Cardinality(CommittedOn(b)) + Cardinality(RecordedFor(b))

BusesBound ==
    /\ \A b \in Bus2 : (bus_2_to_1_count[b] = 0) = (bus_2_to_1[b] = None)
    /\ \A c \in C1In : \A i \in BoundTo(c) :
          \A p \in BusPairs(i, c) : bus_2_to_1[p[1]] = p[2]
    /\ \A n \in CommittedLevels : bus_2_to_1[BusIdx2[stack[n].out]] = BusIdx1[Candidate(n)]
    /\ pc \in {"match_input", "input_cand", "neg", "input_back"} =>
          Unbound(BusIdx2[Top.out], BusIdx1[C1Output]) \/ Bound(BusIdx2[Top.out], BusIdx1[C1Output])

BusHolding == BusOneToOne /\ BusesCounted /\ BusesBound

--------------------------------------------------------------------------------
(* The answer (MatchAnswer).                                               *)

\* A committed level has all its inputs, and its pair is equivalent under the
\* locks as they are now.
PairRight(n) ==
    /\ stack[n].todo = {}
    /\ \A a \in SUBSET Supp1[Candidate(n)] :
          (Drive(inputLock, Range(Supp2[stack[n].out]), a) \in mod.c2[stack[n].out])
            = ((a \in mod.c1[Candidate(n)]) # (outputLock[stack[n].out].neg = 1))
PairsRight == \A n \in CommittedLevels : PairRight(n)

\* The recorded answer keeps up with the stack.
AnswerDepth == Depth <= maxOutputDepth + 1 /\ maxOutputDepth >= -1

\* When the answer is right: MatchAlgo preset no input, every miter simulates all
\* patterns, and an output depends on the inputs of its support only.
NoPresets == \A i \in C2In : InitIn[i] = None
Exhaustive == Cardinality(C1In) < ExhaustiveLimit
SupportsExact ==
    \A m \in Netlists :
        /\ \A o \in C1Out : \A a \in SUBSET C1In :
              (a \in m.c1[o]) = (a \cap Supp1[o] \in m.c1[o])
        /\ \A o \in C2Out : \A s \in SUBSET C2In :
              (s \in m.c2[o]) = (s \cap Range(Supp2[o]) \in m.c2[o])
================================================================================
