------------------------- MODULE MatchSearchProperties -------------------------
(***************************************************************************)
(* The correctness properties of the search in MatchSearch.                *)
(***************************************************************************)
EXTENDS MatchSearch

\* Every variable and every field of an activation has its type.
Typed ==
    /\ mod \in Netlists
    /\ inputLock \in [C2In -> InputLock]
    /\ inputLockCount \in [C2In -> Int]
    /\ outputLock \in [C2Out -> OutputLock]
    /\ c1_OutputLockCount \in [C1Out -> Int]
    /\ c1_inputMatchCount \in [C1In -> Int]
    /\ bus_2_to_1 \in [Bus2 -> Bus1 \cup {None}]
    /\ bus_1_to_2 \in [Bus1 -> Bus2 \cup {None}]
    /\ bus_2_to_1_count \in [Bus2 -> Int]
    /\ maxOutputDepth \in Int
    /\ maxOutputMatch \in [C2Out -> OutputLock]
    /\ maxInputMatch \in [C2In -> InputLock]
    /\ findOutputBest \in BOOLEAN
    /\ stack \in Seq(Level)
    /\ pc \in {"match_output", "output_cand", "match_input", "input_cand", "neg",
               "input_back", "output_back", "done"}

\* Level n has its pair committed: the match_output calls above it run, or ran
\* and found everything, under the commit of match_input.
Committed(n) == n < Depth \/ pc \in {"match_output", "output_back"} \/ findOutputBest

\* The frames of level n whose polarity loop has its input locked.
LockingFrames(n) ==
    LET frames == DOMAIN stack[n].ins IN
    IF n = Depth /\ pc \in {"input_cand", "neg"} THEN frames \ {Frames} ELSE frames

FrameSettled(f) == f.j <= Len(InCand[f.i]) /\ f.neg \in {0, 1}
HasCandidate(level) == level.k <= Len(OutCand[level.out])
Settled(level) ==
    HasCandidate(level) /\ \A m \in DOMAIN level.ins : FrameSettled(level.ins[m])

\* Only the top activation may be past its last candidate, and only its last
\* frame past its last candidate or polarity.
StackShape ==
    /\ pc \notin {"match_output", "done"} => Depth > 0
    /\ \A n \in 1..(Depth - 1) : Settled(stack[n])
    /\ Depth > 0 /\ pc \notin {"output_cand", "input_cand", "neg"} => Settled(Top)
    /\ pc = "output_cand" => Top.ins = <<>>
    /\ pc \in {"input_cand", "neg"} =>
          /\ Frames > 0
          /\ HasCandidate(Top)
          /\ \A m \in 1..(Frames - 1) : FrameSettled(Top.ins[m])
    /\ pc = "neg" => Frame.j <= Len(InCand[C2Input])
    /\ findOutputBest => pc = "done"
    /\ pc = "done" /\ ~findOutputBest => Depth = 0

\* The variables have their types and the stack the shape of the C++ stack.
TypeOK == Typed /\ StackShape

\* The levels that keep input i locked: with a frame of their own, or because
\* they recorded the lock of a level below when they committed.
LockedBy(i) ==
    {n \in 1..Depth :
        \/ \E m \in LockingFrames(n) : stack[n].ins[m].i = i
        \/ Committed(n) /\ i \in stack[n].locked}

\* An input is locked exactly while a level holds it, inputLockCount is the
\* number of those levels, and the lock is what the frame that took it chose:
\* the increments and decrements of match_input and match_output balance over
\* every path of the backtracking.
InputLocksHeld ==
    /\ \A i \in C2In : /\ inputLockCount[i] = Cardinality(LockedBy(i))
                       /\ (inputLock[i] = NoLock) = (LockedBy(i) = {})
    /\ \A n \in 1..Depth : \A m \in LockingFrames(n) :
          LET i == stack[n].ins[m].i IN
          inputLock[i] = [c1 |-> InCand[i][stack[n].ins[m].j], neg |-> stack[n].ins[m].neg]

CommittedTo(c) ==
    {n \in 1..Depth : Committed(n) /\ OutCand[stack[n].out][stack[n].k] = c}

\* An output is locked exactly while a committed level picked it, to the
\* candidate that level is at, and c1_OutputLockCount counts those levels; so
\* next_match always has an output left to return.
OutputLocksHeld ==
    /\ \A n \in 1..Depth : Committed(n) =>
          outputLock[stack[n].out].c1 = OutCand[stack[n].out][stack[n].k]
    /\ \A o \in C2Out : outputLock[o] # NoLock =>
          \E n \in 1..Depth : Committed(n) /\ stack[n].out = o
    /\ \A c \in C1Out : c1_OutputLockCount[c] = Cardinality(CommittedTo(c))

NoSharedPartner(match) ==
    \A o, p \in C2Out : (o # p /\ match[o].c1 # None) => match[o].c1 # match[p].c1

\* "one c1 output can only match once" (match_output): neither the locks of the
\* search nor the answer it recorded match two outputs to the same one.
OutputOneToOne ==
    NoSharedPartner(outputLock) /\ NoSharedPartner(maxOutputMatch)

\* What makes OutputOneToOne and OutputLocksHeld inductive.  The levels pick
\* different outputs; the committed ones have different candidates, each
\* counted once, and hold exactly the locks there are; the candidate a level is
\* working on is not counted yet; the recorded answer was copied from the locks.
CommittedLevels == {n \in 1..Depth : Committed(n)}
Candidate(n) == OutCand[stack[n].out][stack[n].k]
PicksDistinct == \A n, m \in 1..Depth : stack[n].out = stack[m].out => n = m
PairsHeld ==
    /\ \A n \in CommittedLevels : outputLock[stack[n].out].c1 = Candidate(n)
    /\ \A o \in C2Out : outputLock[o] # NoLock =>
          \E n \in CommittedLevels : stack[n].out = o
    /\ \A n, m \in CommittedLevels : Candidate(n) = Candidate(m) => n = m
    /\ \A c \in C1Out : c1_OutputLockCount[c] =
          IF \E n \in CommittedLevels : Candidate(n) = c THEN 1 ELSE 0
CandidateFree ==
    pc \in {"match_input", "input_cand", "neg", "input_back"} =>
        c1_OutputLockCount[C1Output] = 0
OutputPairing ==
    PicksDistinct /\ PairsHeld /\ CandidateFree /\ NoSharedPartner(maxOutputMatch)

\* With as many inputs on both sides no circuit-1 input is given to two
\* circuit-2 inputs, whichever outputs they were locked for.
InputOneToOne ==
    inputSizeEq =>
        \A i, j \in C2In : (i # j /\ inputLock[i].c1 \in C1In) =>
            inputLock[i].c1 # inputLock[j].c1

\* When the miter is called the quota is used up and the locks drive every
\* circuit-1 input the candidate depends on and no other: none is left at the
\* zero the simulation starts from.
SupportDriven ==
    (pc = "match_input" /\ Top.todo = {}) =>
        /\ Top.quota = 0
        /\ Driven(Top.out, inputLock) = Supp1[C1Output]

\* "cannot deal with bus one-to-many, or many-to-one" (new_boolean_match): the
\* two bus maps are inverse to each other.
BusOneToOne ==
    /\ \A b \in Bus2 : bus_2_to_1[b] # None => bus_1_to_2[bus_2_to_1[b]] = b
    /\ \A b \in Bus1 : bus_1_to_2[b] # None => bus_2_to_1[bus_1_to_2[b]] = b

\* A bus is bound exactly while something counts on it, and every locked input
\* lies on buses bound to those of the input it is locked to.
BusesHeld ==
    /\ \A b \in Bus2 : /\ bus_2_to_1_count[b] >= 0
                       /\ (bus_2_to_1_count[b] = 0) = (bus_2_to_1[b] = None)
    /\ \A i \in C2In : inputLock[i].c1 \in C1In =>
          \A p \in BusPairs(i, inputLock[i].c1) : bus_2_to_1[p[1]] = p[2]

\* A search that fails leaves every lock, counter and bus as it found them.
CleanUnwind ==
    (pc = "done" /\ ~findOutputBest) =>
        /\ inputLock = [i \in C2In |-> NoLock]
        /\ inputLockCount = [i \in C2In |-> 0]
        /\ outputLock = [o \in C2Out |-> NoLock]
        /\ c1_OutputLockCount = [o \in C1Out |-> 0]
        /\ c1_inputMatchCount = [c \in C1In |-> 0]
        /\ bus_2_to_1 = [b \in Bus2 |-> None]
        /\ bus_1_to_2 = [b \in Bus1 |-> None]
        /\ bus_2_to_1_count = [b \in Bus2 |-> 0]

Supported == UNION {Range(Supp2[o]) : o \in C2Out}

\* Reference: q and m match all outputs within the candidates, the supports, the
\* buses and the miter.
FullMatch(m, q) ==
    LET pairs == UNION {BusPairs(i, m[i].c1) : i \in {j \in Supported : m[j].c1 # CONST}}
                   \cup {<<BusIdx2[o], BusIdx1[q[o]]>> : o \in C2Out}
    IN
    /\ IsInjective(q)
    /\ \A o \in C2Out : q[o] \in Range(OutCand[o])
    /\ \A o \in C2Out : Driven(o, m) = Supp1[q[o]]
    /\ inputSizeEq => \A i, j \in Supported : i # j /\ m[i].c1 # CONST => m[i].c1 # m[j].c1
    /\ \A p, r \in pairs : (p[1] = r[1]) = (p[2] = r[2])
    /\ \A o \in C2Out : MiterType(q[o], o, m, SUBSET C1In) # 0

InputMatches ==
    {m \in [Supported -> [c1 : C1In \cup {CONST}, neg : {0, 1}]] :
        \A i \in Supported : m[i].c1 \in Range(InCand[i])
                             /\ (InitNe[i] \in {-1, m[i].neg})}

\* A search that fails missed nothing: no full match exists.
SearchComplete ==
    (pc = "done" /\ ~findOutputBest) =>
        ~ \E m \in InputMatches, q \in [C2Out -> C1Out] : FullMatch(m, q)

\* What the search promises of its answer.
Answer == INSTANCE MatchAnswer
            WITH depth <- maxOutputDepth, outMatch <- maxOutputMatch,
                 inMatch <- maxInputMatch, finished <- (pc = "done")

\* "verify matched output" (verifyResult): every matched pair of the answer
\* computes the same function under the answer's input matching.
AnswerEquivalent == Answer!PairsEquivalent(maxOutputMatch, maxInputMatch)

\* The search implements the promise, and it ends.
AnswerKept == Answer!Spec
================================================================================
