----------------------------- MODULE AnswerProofs ------------------------------
(***************************************************************************)
(* The answer, from the search to the file: a committed pair stays         *)
(* equivalent while the locks below it stay, so what is recorded is right  *)
(* and the search does what MatchAnswer promises; the lock count of a full *)
(* match and the verdict of verifyResult are right, whatever is preset, so *)
(* main writes its last file of an answer that has passed; and the file    *)
(* says what the answer says, whole or cut off.                            *)
(***************************************************************************)
EXTENDS Pipeline, MatchQuotaProofs, Recursion

--------------------------------------------------------------------------------
(* Pairs stay right.                                                       *)

\* All activations of a committed level hold their input and gave it a place.
LEMMA CommittedFrames ==
    ASSUME TypeOK, NEW n \in CommittedLevels
    PROVE  /\ n \in 1..Depth /\ Depth \in Nat /\ Entered(n)
           /\ LockingFrames(n) = DOMAIN stack[n].ins /\ BoundFrames(n) = DOMAIN stack[n].ins
           /\ \A i : Holds(n, i) <=> i \in Inputs(n)
<1>1. n \in 1..Depth /\ Depth \in Nat
  BY LevelFacts DEF CommittedLevels
<1>2. n = Depth => pc \notin {"output_cand", "input_cand", "neg"}
  BY DEF CommittedLevels, Committed, TypeOK, StackShape
<1>3. LockingFrames(n) = DOMAIN stack[n].ins /\ BoundFrames(n) = DOMAIN stack[n].ins
  BY <1>2 DEF LockingFrames, BoundFrames
<1>4. QED
  BY <1>1, <1>2, <1>3 DEF Entered, Holds, Inputs

\* Without presets the inputs of a committed pair were all taken by then.
LEMMA CommittedInputs ==
    ASSUME NoPresets, TypeOK, InputHolding, SupportSplit,
           NEW n \in CommittedLevels, stack[n].todo = {},
           NEW i \in Range(Supp2[stack[n].out])
    PROVE  /\ i \in C2In
           /\ i \in Inputs(n) \cup stack[n].locked
           /\ \E k \in 1..n : Holds(k, i) /\ i \in Inputs(k)
<1>1. n \in 1..Depth /\ Depth \in Nat /\ Entered(n) /\ \A x : Holds(n, x) <=> x \in Inputs(n)
  BY CommittedFrames
<1>2. SplitAt(n)
  BY <1>1 DEF SupportSplit
<1>3. i \in C2In
  <2>1. stack[n].out \in C2Out
    BY CommittedTyped
  <2>2. Supp2[stack[n].out] \in Seq(C2In)
    BY <2>1, CandidateAssumption
  <2>3. QED
    BY <2>2 DEF Range
<1>4. i \in Inputs(n) \cup stack[n].locked
  BY <1>2, <1>3 DEF SplitAt, NoPresets
<1>5. CASE i \in Inputs(n)
  BY <1>1, <1>3, <1>4, <1>5
<1>6. CASE i \in stack[n].locked
  <2>1. PICK k \in 1..(n - 1) : i \in Inputs(k)
    BY <1>1, <1>6 DEF InputHolding, FramesApart
  <2>2. k \in 1..(Depth - 1) /\ k \in 1..n
    BY <1>1
  <2>3. Holds(k, i)
    BY <2>1, <2>2, BelowHolds
  <2>4. QED
    BY <1>3, <1>4, <2>1, <2>2, <2>3
<1>7. QED
  BY <1>4, <1>5, <1>6

\* A committed pair's inputs are locked to constants and to inputs of the
\* candidate's support.
LEMMA CommittedDriven ==
    ASSUME NoPresets, TypeOK, InputHolding, SupportSplit, QuotaKept,
           NEW n \in CommittedLevels, stack[n].todo = {},
           NEW i \in Range(Supp2[stack[n].out]), inputLock[i].c1 # CONST
    PROVE  inputLock[i].c1 \in Supp1[Candidate(n)]
<1>1. /\ n \in 1..Depth /\ Depth \in Nat /\ Entered(n)
      /\ LockingFrames(n) = DOMAIN stack[n].ins /\ BoundFrames(n) = DOMAIN stack[n].ins
  BY CommittedFrames
<1>2. i \in C2In /\ i \in Inputs(n) \cup stack[n].locked
  BY CommittedInputs
<1>3. PICK k \in 1..n : Holds(k, i)
  BY CommittedInputs
<1>4. inputLock[i].c1 \in C1In
  <2>1. k \in 1..Depth
    BY <1>1
  <2>2. QED
    BY <1>3, <2>1, HeldLocked
<1> DEFINE c == inputLock[i].c1
<1>5. Taken(n, c) # {}
  <2>1. CASE i \in stack[n].locked
    BY <2>1 DEF Taken
  <2>2. CASE i \in Inputs(n)
    <3>1. PICK m \in DOMAIN stack[n].ins : stack[n].ins[m].i = i
      BY <2>2 DEF Inputs
    <3>2. inputLock[i] = LockOf(stack[n].ins[m])
      BY <1>1, <3>1 DEF InputHolding, LocksTaken
    <3>3. Choice(stack[n].ins[m]) = c
      BY <3>2 DEF LockOf
    <3>4. i \in Placed(n, c)
      BY <1>1, <3>1, <3>3 DEF Placed
    <3>5. QED
      BY <3>4 DEF Taken
  <2>3. QED
    BY <1>2, <2>1, <2>2
<1>6. Partners(n) \subseteq Supp1[Candidate(n)]
  BY <1>1 DEF QuotaKept, QuotaAt
<1>7. QED
  BY <1>4, <1>5, <1>6 DEF Partners

\* What a lock makes of an input depends on that lock only.
LEMMA DriveSame ==
    ASSUME NEW S, NEW a, NEW lock1, NEW lock2, \A i \in S : lock1[i] = lock2[i]
    PROVE  Drive(lock1, S, a) = Drive(lock2, S, a)
  BY DEF Drive

\* A pair stays right while the locks of its inputs and its own lock stay.
LEMMA PairKept ==
    ASSUME NEW n, PairRight(n), stack'[n] = stack[n], mod' = mod,
           outputLock'[stack[n].out] = outputLock[stack[n].out],
           \A i \in Range(Supp2[stack[n].out]) : inputLock'[i] = inputLock[i]
    PROVE  PairRight(n)'
<1>1. Candidate(n)' = Candidate(n)
  BY DEF Candidate
<1>2. \A a : Drive(inputLock', Range(Supp2[stack[n].out]), a)
               = Drive(inputLock, Range(Supp2[stack[n].out]), a)
  BY DriveSame
<1>3. ASSUME NEW a
      PROVE  Drive(inputLock, Range(Supp2[stack[n].out]), a)'
               = Drive(inputLock, Range(Supp2[stack[n].out]), a)
  <2>1. Drive(inputLock, Range(Supp2[stack[n].out]), a)'
          = Drive(inputLock', Range(Supp2[stack[n].out]), a)
    BY DEF Drive
  <2>2. QED
    BY <1>2, <2>1
<1>4. QED
  BY <1>1, <1>3 DEF PairRight

\* All pairs stay right in a step that commits no pair and leaves theirs alone.
LEMMA RightKept ==
    ASSUME PairsRight, mod' = mod,
           \A n \in CommittedLevels' :
              /\ n \in CommittedLevels /\ stack'[n] = stack[n]
              /\ outputLock'[stack[n].out] = outputLock[stack[n].out]
              /\ \A i \in Range(Supp2[stack[n].out]) : inputLock'[i] = inputLock[i]
    PROVE  PairsRight'
<1> SUFFICES ASSUME NEW n \in CommittedLevels' PROVE PairRight(n)'
  BY DEF PairsRight
<1>1. PairRight(n)
  BY DEF PairsRight
<1>2. QED
  BY <1>1, PairKept

\* The miter accepts a pair whose support is driven: it was simulated on all
\* patterns, so it is equal or complementary as the polarity says.
LEMMA RightCommit ==
    ASSUME Exhaustive, TypeOK, SupportDriven, MiterAccepts
    PROVE  PairRight(Depth)'
<1>1. /\ pc = "match_input" /\ Top.todo = {} /\ stack' = stack /\ Depth' = Depth
      /\ Depth \in 1..Depth /\ Top = stack[Depth] /\ mod' = mod /\ inputLock' = inputLock
  BY SeeCommits DEF Top
<1> PICK d \in 1..Depth : d = Depth
  BY <1>1
<1> PICK o2 \in C2Out : o2 = Top.out
  BY <1>1, InLoop
<1> PICK o1 \in C1Out : o1 = C1Output
  BY <1>1, InLoop
<1>2. Driven(o2, inputLock) = Supp1[o1]
  BY <1>1 DEF SupportDriven
<1>3. Cardinality(Driven(o2, inputLock)) < ExhaustiveLimit
  <2>1. Supp1[o1] \subseteq C1In
    BY CandidateAssumption
  <2>2. /\ Cardinality(Supp1[o1]) <= Cardinality(C1In)
        /\ Cardinality(Supp1[o1]) \in Nat /\ Cardinality(C1In) \in Nat
    BY <2>1, PortsAssumption, FS_Subset, FS_CardinalityType
  <2>3. QED
    BY <1>2, <2>2, CandidateAssumption DEF Exhaustive
<1>4. PICK r \in MiterResults(o1, o2, inputLock) \ {0} :
          outputLock' = [outputLock EXCEPT ![o2] = [c1 |-> o1, neg |-> r - 1]]
  BY DEF MiterAccepts
<1>5. r = MiterType(o1, o2, inputLock, SUBSET Supp1[o1]) /\ r # 0
  BY <1>2, <1>3, <1>4 DEF MiterResults
<1>6. /\ r \in {1, 2}
      /\ \A a \in SUBSET Supp1[o1] : Agrees(o1, o2, inputLock, a) <=> r = 1
  BY <1>5 DEF MiterType
<1>7. outputLock'[o2].neg = r - 1
  BY <1>4 DEF TypeOK, Typed
<1>8. \A a \in SUBSET Supp1[o1] :
          (Drive(inputLock, Range(Supp2[o2]), a) \in mod.c2[o2])
            = ((a \in mod.c1[o1]) # (outputLock'[o2].neg = 1))
  BY <1>6, <1>7 DEF Agrees
<1>9. /\ stack'[d].todo = {} /\ stack'[d].out = o2 /\ Candidate(d)' = o1
  BY <1>1 DEF Candidate, C1Output
<1>10. PairRight(d)'
  <2>1. \A a : Drive(inputLock, Range(Supp2[stack[d].out]), a)'
                 = Drive(inputLock, Range(Supp2[o2]), a)
    BY <1>1, <1>9 DEF Drive
  <2>2. QED
    BY <1>1, <1>8, <1>9, <2>1 DEF PairRight
<1>11. QED
  BY <1>1, <1>10 DEF PairRight, Candidate

\* Locking and unlocking an input leaves the committed pairs alone: they took
\* their inputs with activations of their own or found them taken.
LEMMA RightLocks ==
    ASSUME NoPresets, TypeOK, InputHolding, SupportSplit, PairsRight, AssignNeg \/ UnlockInput
    PROVE  PairsRight'
<1>1. /\ TopStep /\ Depth' = Depth /\ CommittedLevels = 1..(Depth - 1)
      /\ CommittedLevels' = 1..(Depth - 1) /\ Depth \in Nat
      /\ \A n \in 1..(Depth - 1) : stack'[n] = stack[n]
  BY TopSteps, TopStepCommits, LevelFacts DEF TopStep
<1>2. outputLock' = outputLock /\ mod' = mod
  BY DEF AssignNeg, UnlockInput, outputVars
<1>3. pc \in {"neg", "input_back"} /\ Frames > 0
  BY InLoop DEF AssignNeg, UnlockInput
<1>4. \A i \in C2In : i # C2Input => inputLock'[i] = inputLock[i]
  BY DEF AssignNeg, UnlockInput, TypeOK, Typed
<1>5. ASSUME NEW n \in 1..(Depth - 1), NEW i \in Range(Supp2[stack[n].out])
      PROVE  inputLock'[i] = inputLock[i]
  <2>1. n \in CommittedLevels /\ stack[n].todo = {}
    BY <1>1 DEF PairsRight, PairRight
  <2>2. i \in C2In
    BY <2>1, CommittedInputs
  <2>3. PICK k \in 1..n : Holds(k, i)
    BY <2>1, CommittedInputs
  <2>4. k \in 1..(Depth - 1)
    BY <1>1
  <2>5. i # C2Input
    BY <1>3, <2>3, <2>4, LastFrameAlone
  <2>6. QED
    BY <1>4, <2>2, <2>5
<1>6. QED
  BY <1>1, <1>2, <1>5, RightKept

\* PairsRight is inductive.
LEMMA RightStep ==
    ASSUME NoPresets, Exhaustive
    PROVE  TypeOK /\ InputHolding /\ OutputPairing /\ SupportSplit /\ QuotaKept
             /\ PairsRight /\ [Next]_vars => PairsRight'
<1> SUFFICES ASSUME TypeOK, InputHolding, OutputPairing, SupportSplit, QuotaKept, PairsRight,
                    [Next]_vars
             PROVE  PairsRight'
  OBVIOUS
<1>1. CASE AssignNeg \/ UnlockInput
  BY <1>1, RightLocks
<1>2. CASE \/ SkipOutput \/ EnterOutput \/ NextOutputCandidate
           \/ NextInput \/ MiterRejects \/ NoMoreInputs \/ SkipInput
           \/ BindConst \/ BindInput \/ UnbindConst \/ UnbindInput
  <2>1. TopStep
    BY <1>2, TopSteps
  <2>2. /\ CommittedLevels = 1..(Depth - 1) /\ CommittedLevels' = 1..(Depth - 1)
        /\ \A n \in 1..(Depth - 1) : stack'[n] = stack[n]
    BY <2>1, TopStepCommits DEF TopStep
  <2>3. mod' = mod /\ inputLock' = inputLock /\ outputLock' = outputLock
    BY <1>2 DEF SkipOutput, EnterOutput, NextOutputCandidate, NextInput, MiterRejects,
                NoMoreInputs, SkipInput, BindConst, BindInput, UnbindConst, UnbindInput,
                inputVars, outputVars
  <2>4. QED
    BY <2>2, <2>3, RightKept
<1>3. CASE ChooseOutput
  BY <1>3, SeeChooseOutput, RightKept DEF inputVars, outputVars
<1>4. CASE NoMoreOutputs
  BY <1>4, SeeNoMoreOutputs, RightKept DEF inputVars, outputVars
<1>5. CASE AllMatched
  BY <1>5, SeeCommits, RightKept DEF inputVars, outputVars
<1>6. CASE MiterAccepts
  <2>1. /\ CommittedLevels = 1..(Depth - 1) /\ CommittedLevels' = (1..(Depth - 1)) \cup {Depth}
        /\ stack' = stack /\ mod' = mod /\ inputLock' = inputLock
        /\ Depth \in 1..Depth /\ Depth \in Nat /\ Depth' = Depth
    BY <1>6, SeeCommits
  <2>2. PairRight(Depth)'
    BY <1>6, QuotaDrives, RightCommit
  <2>3. ASSUME NEW n \in 1..(Depth - 1)
        PROVE  PairRight(n)'
    <3>1. stack[n].out # Top.out
      BY <2>1 DEF OutputPairing, PicksDistinct, Top
    <3>2. outputLock'[stack[n].out] = outputLock[stack[n].out]
      <4>1. n \in CommittedLevels /\ stack[n].out \in C2Out
        BY <2>1, CommittedTyped
      <4>2. QED
        BY <1>6, <3>1, <4>1 DEF MiterAccepts, TypeOK, Typed
    <3>3. PairRight(n)
      BY <2>1 DEF PairsRight
    <3>4. QED
      BY <2>1, <3>2, <3>3, PairKept
  <2> PICK d \in 1..Depth : d = Depth
    BY <2>1
  <2>4. PairRight(d)'
    BY <2>1, <2>2 DEF PairRight, Candidate
  <2>5. QED
    BY <2>1, <2>3, <2>4 DEF PairsRight
<1>7. CASE UndoOutput
  <2>1. /\ CommittedLevels = 1..Depth /\ CommittedLevels' = 1..(Depth - 1)
        /\ 1..Depth = (1..(Depth - 1)) \cup {Depth}
        /\ stack' = stack /\ mod' = mod /\ inputLock' = inputLock
        /\ Depth \in 1..Depth /\ Depth \in Nat
    BY <1>7, SeeCommits
  <2>2. ASSUME NEW n \in 1..(Depth - 1)
        PROVE  outputLock'[stack[n].out] = outputLock[stack[n].out]
    <3>1. n \in 1..Depth /\ n # Depth
      BY <2>1
    <3>2. stack[n].out # Top.out
      BY <2>1, <3>1 DEF OutputPairing, PicksDistinct, Top
    <3>3. stack[n].out \in C2Out
      BY <2>1, <3>1, CommittedTyped
    <3>4. QED
      BY <1>7, <3>2, <3>3 DEF UndoOutput, TypeOK, Typed
  <2>3. QED
    BY <2>1, <2>2, RightKept
<1>8. CASE Done \/ UNCHANGED vars
  <2>1. /\ stack' = stack /\ pc' = pc /\ findOutputBest' = findOutputBest
        /\ mod' = mod /\ inputLock' = inputLock /\ outputLock' = outputLock
    BY <1>8 DEF Done, vars, inputVars, outputVars
  <2>2. CommittedLevels' = CommittedLevels
    BY <2>1 DEF CommittedLevels, Committed, Depth
  <2>3. QED
    BY <2>1, <2>2, RightKept
<1>9. QED
  BY <1>1, <1>2, <1>3, <1>4, <1>5, <1>6, <1>7, <1>8 DEF Next, MatchOutput, MatchInput

\* Whatever the levels above it try and take back, a committed pair stays equal
\* or complementary as its lock says: match_input never touches the lock of an
\* input below a committed output.  A preset input may be left out of a pair and
\* taken by a later one, which is why there must be none.
THEOREM PairsInvariant == ASSUME NoPresets, Exhaustive PROVE Spec => []PairsRight
<1>1. Init => PairsRight
  BY DEF Init, PairsRight, CommittedLevels, Depth
<1>2. TypeOK /\ InputHolding /\ OutputPairing /\ SupportSplit /\ QuotaKept
        /\ PairsRight /\ [Next]_vars => PairsRight'
  BY RightStep
<1>3. QED
  BY <1>1, <1>2, TypeCorrect, InputsInvariant, PairingInvariant, SplitInvariant, QuotaInvariant,
     PTL DEF Spec

--------------------------------------------------------------------------------
(* The answer.                                                             *)

\* What the search knows in every state when nothing is preset and every miter
\* simulates all patterns.
Holding ==
    /\ TypeOK /\ InputHolding /\ OutputPairing /\ SupportSplit /\ QuotaKept
    /\ PairsRight /\ AnswerDepth

\* The answer is recorded at every call of match_output, so it never falls
\* behind the stack by more than the call that is about to record.
LEMMA DepthStep == TypeOK /\ AnswerDepth /\ [Next]_vars => AnswerDepth'
<1> SUFFICES ASSUME TypeOK, AnswerDepth, [Next]_vars PROVE AnswerDepth'
  OBVIOUS
<1>1. maxOutputDepth \in Int /\ Depth \in Nat
  BY LevelFacts DEF TypeOK, Typed
<1>2. CASE ChooseOutput
  <2>1. Depth' = Depth + 1 /\ RecordBest
    BY <1>2, SeeChooseOutput DEF ChooseOutput
  <2>2. QED
    BY <1>1, <2>1 DEF RecordBest, AnswerDepth, bestVars
<1>3. CASE AllMatched
  <2>1. Depth' = Depth /\ RecordBest
    BY <1>3, SeeCommits DEF AllMatched
  <2>2. QED
    BY <1>1, <2>1 DEF RecordBest, AnswerDepth, bestVars
<1>4. CASE ~(ChooseOutput \/ AllMatched)
  <2>1. maxOutputDepth' = maxOutputDepth
    BY <1>4 DEF Next, MatchOutput, MatchInput, Done, vars, bestVars,
          NoMoreOutputs, SkipOutput, EnterOutput, NextOutputCandidate, NextInput, MiterRejects,
          MiterAccepts, NoMoreInputs, SkipInput, BindConst, BindInput, AssignNeg, UnbindConst,
          UnbindInput, UnlockInput, UndoOutput
  <2>2. Depth' <= Depth /\ Depth' \in Int
    <3>1. CASE NoMoreOutputs
      BY <3>1, <1>1, SeeNoMoreOutputs
    <3>2. CASE MiterAccepts \/ UndoOutput
      BY <3>2, <1>1, SeeCommits
    <3>3. CASE Done \/ UNCHANGED vars
      BY <3>3, <1>1 DEF Done, vars, Depth
    <3>4. CASE \/ SkipOutput \/ EnterOutput \/ NextOutputCandidate
               \/ NextInput \/ MiterRejects \/ NoMoreInputs \/ SkipInput
               \/ BindConst \/ BindInput \/ AssignNeg \/ UnbindConst \/ UnbindInput
               \/ UnlockInput
      BY <3>4, <1>1, TopSteps DEF TopStep
    <3>5. QED
      BY <1>4, <3>1, <3>2, <3>3, <3>4 DEF Next, MatchOutput, MatchInput
  <2>3. QED
    BY <1>1, <2>1, <2>2 DEF AnswerDepth
<1>5. QED
  BY <1>2, <1>3, <1>4

\* Without presets and with exhaustive miters all of it holds throughout.
LEMMA HoldingAlways == ASSUME NoPresets, Exhaustive PROVE Spec => []Holding
<1>1. Init => AnswerDepth
  BY DEF Init, AnswerDepth, Depth
<1>2. TypeOK /\ AnswerDepth /\ [Next]_vars => AnswerDepth'
  BY DepthStep
<1>3. Spec => []AnswerDepth
  BY <1>1, <1>2, TypeCorrect, PTL DEF Spec
<1>4. TypeOK /\ InputHolding /\ OutputPairing /\ SupportSplit /\ QuotaKept
        /\ PairsRight /\ AnswerDepth => Holding
  BY DEF Holding
<1>5. QED
  BY <1>3, <1>4, TypeCorrect, InputsInvariant, PairingInvariant, SplitInvariant, QuotaInvariant,
     PairsInvariant, PTL

\* The locks of a committed pair carry an assignment of circuit 1 to circuit 2
\* as the simulation of its support does.
LEMMA CarryDrives ==
    ASSUME NoPresets, Holding, NEW n \in CommittedLevels, NEW a \in SUBSET C1In
    PROVE  Answer!Carry(inputLock, a) \cap Range(Supp2[stack[n].out])
             = Drive(inputLock, Range(Supp2[stack[n].out]), a \cap Supp1[Candidate(n)])
<1> DEFINE S == Range(Supp2[stack[n].out])
           b == a \cap Supp1[Candidate(n)]
<1>1. stack[n].todo = {}
  BY DEF Holding, PairsRight, PairRight
<1>2. ASSUME NEW i \in S
      PROVE  /\ i \in C2In
             /\ inputLock[i].c1 # CONST => (inputLock[i].c1 \in a <=> inputLock[i].c1 \in b)
  BY <1>1, CommittedInputs, CommittedDriven DEF Holding
<1> HIDE DEF S, b
<1>3. \A i : i \in Answer!Carry(inputLock, a) \cap S <=> i \in Drive(inputLock, S, b)
  <2> TAKE i
  <2>1. CASE i \notin S
    BY <2>1 DEF Drive
  <2>2. CASE i \in S /\ inputLock[i].c1 = None
    BY <1>2, <2>2 DEF Drive, Answer!Carry
  <2>3. CASE i \in S /\ inputLock[i].c1 # None /\ inputLock[i].c1 = CONST
    BY <1>2, <2>3 DEF Drive, Answer!Carry
  <2>4. CASE i \in S /\ inputLock[i].c1 # None /\ inputLock[i].c1 # CONST
    BY <1>2, <2>4 DEF Drive, Answer!Carry
  <2>5. QED
    BY <2>1, <2>2, <2>3, <2>4
<1>4. Answer!Carry(inputLock, a) \cap S = Drive(inputLock, S, b)
  BY <1>3
<1>5. QED
  BY <1>4 DEF S, b

\* So the output and input locks are a right answer in every state.
LEMMA LocksRight ==
    ASSUME NoPresets, SupportsExact, Holding
    PROVE  Answer!PairsEquivalent(outputLock, inputLock)
<1> SUFFICES ASSUME NEW o \in C2Out, outputLock[o].c1 # None, NEW a \in SUBSET C1In
             PROVE  (Answer!Carry(inputLock, a) \in mod.c2[o])
                       = ((a \in mod.c1[outputLock[o].c1]) # (outputLock[o].neg = 1))
  BY DEF Answer!PairsEquivalent, Answer!Matched
<1>1. PICK n \in CommittedLevels : stack[n].out = o
  BY DEF Holding, OutputPairing, PairsHeld, NoLock
<1>2. outputLock[o].c1 = Candidate(n) /\ Candidate(n) \in C1Out
  BY <1>1, CommittedTyped DEF Holding, OutputPairing, PairsHeld
<1> DEFINE b == a \cap Supp1[Candidate(n)]
           s == Answer!Carry(inputLock, a)
<1>3. mod \in Netlists
  BY DEF Holding, TypeOK, Typed
<1>4. (a \in mod.c1[Candidate(n)]) <=> (b \in mod.c1[Candidate(n)])
  BY <1>2, <1>3 DEF SupportsExact
<1>5. s \in SUBSET C2In
  BY DEF Answer!Carry
<1>6. (s \in mod.c2[o]) <=> (s \cap Range(Supp2[o]) \in mod.c2[o])
  BY <1>3, <1>5 DEF SupportsExact
<1>7. s \cap Range(Supp2[o]) = Drive(inputLock, Range(Supp2[o]), b)
  BY <1>1, CarryDrives
<1>8. (Drive(inputLock, Range(Supp2[o]), b) \in mod.c2[o])
        = ((b \in mod.c1[Candidate(n)]) # (outputLock[o].neg = 1))
  BY <1>1 DEF Holding, PairsRight, PairRight
<1> HIDE DEF b, s
<1>9. (s \in mod.c2[o]) = ((a \in mod.c1[outputLock[o].c1]) # (outputLock[o].neg = 1))
  <2>1. (s \in mod.c2[o]) <=> (Drive(inputLock, Range(Supp2[o]), b) \in mod.c2[o])
    BY <1>6, <1>7, Zenon
  <2>2. (a \in mod.c1[outputLock[o].c1]) <=> (b \in mod.c1[Candidate(n)])
    BY <1>2, <1>4
  <2>3. (Drive(inputLock, Range(Supp2[o]), b) \in mod.c2[o])
          <=> ~ ((b \in mod.c1[Candidate(n)]) <=> (outputLock[o].neg = 1))
    BY <1>8
  <2>4. (s \in mod.c2[o])
          <=> ~ ((a \in mod.c1[outputLock[o].c1]) <=> (outputLock[o].neg = 1))
    BY <2>1, <2>2, <2>3
  <2>5. QED
    BY <2>4
<1>10. QED
  BY <1>9 DEF s

\* When match_output is entered every level is committed, to an output of its own.
LEMMA LocksMatched ==
    ASSUME Holding, pc = "match_output"
    PROVE  Cardinality(Answer!Matched(outputLock)) = Depth
<1> DEFINE M == Answer!Matched(outputLock)
           f == [n \in 1..Depth |-> stack[n].out]
<1>1. Depth \in Nat
  BY LevelFacts DEF Holding
<1>2. CommittedLevels = 1..Depth
  BY DEF CommittedLevels, Committed
<1>3. ASSUME NEW n \in 1..Depth PROVE stack[n].out \in M
  <2>1. stack[n].out \in C2Out /\ Candidate(n) \in C1Out
    BY <1>2, CommittedTyped DEF Holding
  <2>2. outputLock[stack[n].out].c1 # None
    BY <1>2, <2>1, PortsAssumption DEF Holding, OutputPairing, PairsHeld
  <2>3. QED
    BY <2>1, <2>2 DEF Answer!Matched
<1>4. ASSUME NEW o \in M PROVE \E n \in 1..Depth : stack[n].out = o
  <2>1. o \in C2Out /\ outputLock[o].c1 # None
    BY DEF Answer!Matched
  <2>2. outputLock[o] # NoLock
    BY <2>1 DEF NoLock
  <2>3. QED
    BY <1>2, <2>1, <2>2 DEF Holding, OutputPairing, PairsHeld
<1>5. \A n, m \in 1..Depth : stack[n].out = stack[m].out => n = m
  BY DEF Holding, OutputPairing, PicksDistinct
<1> HIDE DEF M
<1>6. f \in Bijection(1..Depth, M)
  <2>1. f \in [1..Depth -> M] /\ \A n \in 1..Depth : f[n] = stack[n].out
    BY <1>3
  <2>2. \A n, m \in 1..Depth : f[n] = f[m] => n = m
    BY <1>5, <2>1
  <2>3. \A o \in M : \E n \in 1..Depth : f[n] = o
    BY <1>4, <2>1
  <2> HIDE DEF f
  <2>4. QED
    BY <2>1, <2>2, <2>3 DEF Bijection, Injection, Surjection, IsInjective
<1>7. ExistsBijection(1..Depth, M)
  BY <1>6 DEF ExistsBijection
<1>8. Cardinality(M) = Depth
  BY <1>1, <1>7, FS_CountingElements
<1>9. QED
  BY <1>8 DEF M

\* The first lines of match_output keep the answer or improve it by one output.
LEMMA RecordImproves ==
    ASSUME NoPresets, SupportsExact, Holding, pc = "match_output", RecordBest, mod' = mod
    PROVE  Answer!Improve \/ UNCHANGED <<mod, bestVars>>
<1>1. maxOutputDepth \in Int /\ Depth \in Nat /\ Depth <= maxOutputDepth + 1
  BY LevelFacts DEF Holding, AnswerDepth, TypeOK, Typed
<1>2. CASE Depth <= maxOutputDepth
  BY <1>1, <1>2 DEF RecordBest
<1>3. CASE Depth > maxOutputDepth
  <2>1. /\ maxOutputDepth' = Depth /\ Depth = maxOutputDepth + 1
        /\ maxOutputMatch' = outputLock /\ maxInputMatch' = inputLock
    BY <1>1, <1>3 DEF RecordBest
  <2>2. Cardinality(Answer!Matched(outputLock)) = Depth
    BY LocksMatched
  <2>3. Answer!PairsOneToOne(outputLock)
    BY PairingOneToOne
       DEF Holding, OutputOneToOne, NoSharedPartner, Answer!PairsOneToOne, Answer!Matched
  <2>4. Answer!PairsEquivalent(outputLock, inputLock)
    BY LocksRight
  <2>5. Answer!PairsEquivalent(maxOutputMatch', maxInputMatch')
    BY <2>1, <2>4 DEF Answer!PairsEquivalent, Answer!Matched, Answer!Carry
  <2>6. /\ Answer!PairsOneToOne(maxOutputMatch')
        /\ Answer!Cardinality(Answer!Matched(maxOutputMatch')) = maxOutputDepth'
    <3>1. Answer!Cardinality(Answer!Matched(outputLock)) = Cardinality(Answer!Matched(outputLock))
      BY DEF Answer!Cardinality, Cardinality
    <3>2. QED
      BY <2>1, <2>2, <2>3, <3>1 DEF Answer!PairsOneToOne, Answer!Matched
  <2>7. QED
    BY <2>1, <2>5, <2>6 DEF Answer!Improve
<1>4. QED
  BY <1>1, <1>2, <1>3

\* Every step of the search is a step of the promise or leaves the answer alone.
LEMMA AnswerStep ==
    ASSUME NoPresets, SupportsExact
    PROVE  Holding /\ [Next]_vars => [Answer!Next]_(Answer!vars)
<1> SUFFICES ASSUME Holding, [Next]_vars
             PROVE  Answer!Next \/ UNCHANGED Answer!vars
  OBVIOUS
<1>1. CASE AllMatched
  <2>1. /\ pc = "match_output" /\ pc' = "done" /\ RecordBest /\ mod' = mod
    BY <1>1 DEF AllMatched
  <2>2. Answer!Improve \/ UNCHANGED <<mod, bestVars>>
    BY <2>1, RecordImproves
  <2>3. QED
    BY <2>1, <2>2 DEF Answer!Next, Answer!Finish, bestVars
<1>2. CASE ChooseOutput
  <2>1. /\ pc = "match_output" /\ pc' = "output_cand" /\ RecordBest /\ mod' = mod
    BY <1>2 DEF ChooseOutput
  <2>2. Answer!Improve \/ UNCHANGED <<mod, bestVars>>
    BY <2>1, RecordImproves
  <2>3. QED
    BY <2>1, <2>2 DEF Answer!Next, Answer!vars, bestVars
<1>3. CASE NoMoreOutputs
  <2>1. /\ pc = "output_cand" /\ pc' \in {"done", "output_back"}
        /\ UNCHANGED <<mod, bestVars>>
    BY <1>3 DEF NoMoreOutputs
  <2>2. QED
    BY <2>1 DEF Answer!Next, Answer!Finish, Answer!vars, bestVars
<1>4. CASE Done \/ UNCHANGED vars
  BY <1>4 DEF Done, vars, bestVars, Answer!vars
<1>5. CASE \/ SkipOutput \/ EnterOutput \/ NextOutputCandidate \/ NextInput \/ MiterRejects
           \/ MiterAccepts \/ NoMoreInputs \/ SkipInput \/ BindConst \/ BindInput \/ AssignNeg
           \/ UnbindConst \/ UnbindInput \/ UnlockInput \/ UndoOutput
  <2>1. pc # "done" /\ pc' # "done" /\ UNCHANGED <<mod, bestVars>>
    BY <1>5 DEF SkipOutput, EnterOutput, NextOutputCandidate, NextInput, MiterRejects,
          MiterAccepts, NoMoreInputs, SkipInput, BindConst, BindInput, AssignNeg, UnbindConst,
          UnbindInput, UnlockInput, UndoOutput
  <2>2. QED
    BY <2>1 DEF Answer!vars, bestVars
<1>6. QED
  BY <1>1, <1>2, <1>3, <1>4, <1>5 DEF Next, MatchOutput, MatchInput

\* The search keeps its promise (all of MatchAnswer but the end): it starts with
\* nothing matched, each answer it records matches one output more than the last,
\* uses no circuit-1 output twice, and every pair in it is equivalent under the
\* input matching recorded with it.
THEOREM SearchImplementsAnswer ==
    ASSUME NoPresets, Exhaustive, SupportsExact
    PROVE  Spec => Answer!Init /\ [][Answer!Next]_(Answer!vars)
<1>1. Init => Answer!Init
  BY DEF Init, NoLock, Answer!Init, Answer!Matched
<1>2. Holding /\ [Next]_vars => [Answer!Next]_(Answer!vars)
  BY AnswerStep
<1>3. QED
  BY <1>1, <1>2, HoldingAlways, PTL DEF Spec

\* A right answer is left alone or replaced by a right one.
LEMMA EquivalentStep ==
    AnswerEquivalent /\ [Answer!Next]_(Answer!vars) => AnswerEquivalent'
<1> SUFFICES ASSUME AnswerEquivalent, [Answer!Next]_(Answer!vars) PROVE AnswerEquivalent'
  OBVIOUS
<1>1. CASE Answer!Improve
  BY <1>1 DEF Answer!Improve, AnswerEquivalent, Answer!PairsEquivalent, Answer!Matched,
              Answer!Carry
<1>2. CASE UNCHANGED <<mod, maxOutputDepth, maxOutputMatch, maxInputMatch>>
  <2>1. ASSUME NEW a
        PROVE  Answer!Carry(maxInputMatch, a)' = Answer!Carry(maxInputMatch, a)
    BY <1>2 DEF Answer!Carry
  <2>2. QED
    BY <1>2, <2>1 DEF AnswerEquivalent, Answer!PairsEquivalent, Answer!Matched
<1>3. QED
  BY <1>1, <1>2 DEF Answer!Next, Answer!Finish, Answer!vars

\* "verify matched output" (verifyResult) finds nothing to report: in every state
\* the recorded answer is right.
THEOREM AnswersEquivalent ==
    ASSUME NoPresets, Exhaustive, SupportsExact
    PROVE  Spec => []AnswerEquivalent
<1>1. Answer!Init => AnswerEquivalent
  BY DEF Answer!Init, AnswerEquivalent, Answer!PairsEquivalent
<1>2. QED
  BY <1>1, EquivalentStep, SearchImplementsAnswer, PTL

--------------------------------------------------------------------------------
(* What the search leaves to verifyResult.                                 *)

\* A committed pair has a place for every input that was left to it.
PairsPlaced == \A n \in CommittedLevels : stack[n].todo = {}

\* findOutputBest is set when match_output has a level for every output.
BestDeep == findOutputBest => Depth = PO2Size

\* The inputs recorded with a matched output drive the whole support of its partner.
RecordedDriven ==
    \A o \in C2Out : maxOutputMatch[o].c1 # None =>
        Supp1[maxOutputMatch[o].c1] \subseteq Driven(o, maxInputMatch)

\* ... and without presets every input of its own support is recorded.
RecordedMatched ==
    \A o \in C2Out : maxOutputMatch[o].c1 # None =>
        \A i \in Range(Supp2[o]) : maxInputMatch[i].c1 # None

\* Committing a pair takes that its inputs are placed; nothing else touches a
\* committed level.
LEMMA PlacedStep == TypeOK /\ PairsPlaced /\ [Next]_vars => PairsPlaced'
<1> SUFFICES ASSUME TypeOK, PairsPlaced, [Next]_vars PROVE PairsPlaced'
  OBVIOUS
<1>1. ASSUME \A n \in CommittedLevels' : n \in CommittedLevels /\ stack'[n] = stack[n]
      PROVE  PairsPlaced'
  BY <1>1 DEF PairsPlaced
<1>2. CASE \/ SkipOutput \/ EnterOutput \/ NextOutputCandidate
           \/ NextInput \/ MiterRejects \/ NoMoreInputs \/ SkipInput
           \/ BindConst \/ BindInput \/ AssignNeg \/ UnbindConst \/ UnbindInput
           \/ UnlockInput
  <2>1. TopStep
    BY <1>2, TopSteps
  <2>2. /\ CommittedLevels = 1..(Depth - 1) /\ CommittedLevels' = 1..(Depth - 1)
        /\ \A n \in 1..(Depth - 1) : stack'[n] = stack[n]
    BY <2>1, TopStepCommits DEF TopStep
  <2>3. QED
    BY <1>1, <2>2
<1>3. CASE ChooseOutput
  BY <1>1, <1>3, SeeChooseOutput
<1>4. CASE NoMoreOutputs
  BY <1>1, <1>4, SeeNoMoreOutputs
<1>5. CASE AllMatched
  BY <1>1, <1>5, SeeCommits
<1>6. CASE MiterAccepts
  <2>1. /\ CommittedLevels = 1..(Depth - 1) /\ CommittedLevels' = (1..(Depth - 1)) \cup {Depth}
        /\ stack' = stack /\ Top.todo = {}
    BY <1>6, SeeCommits
  <2>2. QED
    BY <2>1 DEF PairsPlaced, Top
<1>7. CASE UndoOutput
  <2>1. /\ CommittedLevels = (1..(Depth - 1)) \cup {Depth} /\ CommittedLevels' = 1..(Depth - 1)
        /\ stack' = stack
    BY <1>7, SeeCommits
  <2>2. QED
    BY <1>1, <2>1
<1>8. CASE Done \/ UNCHANGED vars
  <2>1. stack' = stack /\ pc' = pc /\ findOutputBest' = findOutputBest
    BY <1>8 DEF Done, vars
  <2>2. CommittedLevels' = CommittedLevels
    BY <2>1 DEF CommittedLevels, Committed, Depth
  <2>3. QED
    BY <1>1, <2>1, <2>2
<1>9. QED
  BY <1>2, <1>3, <1>4, <1>5, <1>6, <1>7, <1>8 DEF Next, MatchOutput, MatchInput

\* A search that has found everything stops there.
LEMMA BestStep == TypeOK /\ BestDeep /\ [Next]_vars => BestDeep'
<1> SUFFICES ASSUME TypeOK, BestDeep, [Next]_vars PROVE BestDeep'
  OBVIOUS
<1>1. CASE AllMatched
  <2>1. Depth = PO2Size /\ stack' = stack
    BY <1>1 DEF AllMatched
  <2>2. QED
    BY <2>1 DEF BestDeep, Depth, PO2Size
<1>2. CASE Done \/ UNCHANGED vars
  <2>1. stack' = stack /\ findOutputBest' = findOutputBest
    BY <1>2 DEF Done, vars
  <2>2. QED
    BY <2>1 DEF BestDeep, Depth, PO2Size
<1>3. CASE ~(AllMatched \/ Done \/ UNCHANGED vars)
  <2>1. findOutputBest' = findOutputBest /\ pc # "done"
    BY <1>3 DEF Next, MatchOutput, MatchInput, ChooseOutput,
          NoMoreOutputs, SkipOutput, EnterOutput, NextOutputCandidate, NextInput, MiterRejects,
          MiterAccepts, NoMoreInputs, SkipInput, BindConst, BindInput, AssignNeg, UnbindConst,
          UnbindInput, UnlockInput, UndoOutput
  <2>2. ~findOutputBest
    BY <2>1 DEF TypeOK, StackShape
  <2>3. QED
    BY <2>1, <2>2 DEF BestDeep
<1>4. QED
  BY <1>1, <1>2, <1>3

--------------------------------------------------------------------------------
(* The lock counts of a full match.                                        *)

\* The structural supports are those of the support files.
PiIdxExact == \A o \in C2Out : PiIdx[o] = Range(Supp2[o])

\* A committed level locks the inputs of its support, all of them, and no other.
LEMMA LocksOfSupport ==
    ASSUME NoPresets, TypeOK, InputHolding, SupportSplit, PairsPlaced, NEW i \in C2In,
           NEW n \in CommittedLevels
    PROVE  n \in LockedBy(i) <=> i \in Range(Supp2[stack[n].out])
<1>1. /\ n \in 1..Depth /\ Entered(n) /\ Committed(n)
      /\ \A x : Holds(n, x) <=> x \in Inputs(n)
  BY CommittedFrames DEF CommittedLevels
<1>2. SplitAt(n) /\ stack[n].todo = {}
  BY <1>1 DEF SupportSplit, PairsPlaced
<1>3. n \in LockedBy(i) <=> i \in Inputs(n) \/ i \in stack[n].locked
  BY <1>1 DEF LockedBy, Holds
<1>4. i \in Inputs(n) \/ i \in stack[n].locked => i \in Range(Supp2[stack[n].out])
  BY <1>2 DEF SplitAt
<1>5. i \in Range(Supp2[stack[n].out]) => i \in Inputs(n) \/ i \in stack[n].locked
  BY <1>2, CommittedInputs
<1>6. QED
  BY <1>3, <1>4, <1>5

\* With a level for every output, the levels pick all outputs, each once.
LEMMA LevelsPickAll ==
    ASSUME TypeOK, OutputPairing, Depth = PO2Size
    PROVE  [n \in 1..Depth |-> stack[n].out] \in Bijection(1..Depth, C2Out)
<1> DEFINE pick == [n \in 1..Depth |-> stack[n].out]
<1>1. Depth \in Nat /\ \A n \in 1..Depth : stack[n].out \in C2Out
  BY LevelFacts DEF Level
<1>2. IsFiniteSet(C2Out) /\ Cardinality(1..Depth) = Cardinality(C2Out)
  BY <1>1, PortsAssumption, FS_Interval DEF PO2Size
<1>3. pick \in [1..Depth -> C2Out] /\ \A n \in 1..Depth : pick[n] = stack[n].out
  BY <1>1
<1>4. \A n, m \in 1..Depth : pick[n] = pick[m] => n = m
  BY <1>3 DEF OutputPairing, PicksDistinct
<1> HIDE DEF pick
<1>5. pick \in Injection(1..Depth, C2Out)
  BY <1>3, <1>4 DEF Injection, IsInjective
<1>6. pick \in Surjection(1..Depth, C2Out)
  BY <1>2, <1>5, FS_Injection
<1>7. QED
  BY <1>5, <1>6 DEF Bijection, pick

\* In a full match an input is locked by as many levels as it is below outputs.
LEMMA FullCounts ==
    ASSUME NoPresets, PiIdxExact, TypeOK, InputHolding, OutputPairing, SupportSplit,
           PairsPlaced, BestDeep, findOutputBest, NEW i \in C2In
    PROVE  TrueCount(i) = inputLockCount[i]
<1> DEFINE pick == [n \in 1..Depth |-> stack[n].out]
           below == {o \in C2Out : i \in PiIdx[o]}
           some == [n \in LockedBy(i) |-> stack[n].out]
<1>1. pick \in Bijection(1..Depth, C2Out)
  BY LevelsPickAll DEF BestDeep
<1>2. CommittedLevels = 1..Depth
  BY DEF CommittedLevels, Committed
<1>3. LockedBy(i) \subseteq 1..Depth /\ \A n \in 1..Depth : pick[n] = stack[n].out
  BY DEF LockedBy
<1>4. ASSUME NEW n \in 1..Depth
      PROVE  pick[n] \in C2Out /\ (n \in LockedBy(i) <=> pick[n] \in below)
  <2>1. pick[n] \in C2Out /\ pick[n] = stack[n].out
    BY <1>2, <1>3, CommittedTyped
  <2>2. PiIdx[pick[n]] = Range(Supp2[pick[n]])
    BY <2>1 DEF PiIdxExact
  <2>3. n \in LockedBy(i) <=> i \in Range(Supp2[stack[n].out])
    BY <1>2, LocksOfSupport
  <2> HIDE DEF pick
  <2>4. QED
    BY <2>1, <2>2, <2>3
<1>5. /\ \A n, m \in 1..Depth : pick[n] = pick[m] => n = m
      /\ \A o \in C2Out : \E n \in 1..Depth : pick[n] = o
  <2> HIDE DEF pick
  <2>1. QED
    BY <1>1 DEF Bijection, Injection, Surjection, IsInjective
<1>6. \A n \in LockedBy(i) : some[n] = pick[n]
  BY <1>3
<1>7. below \subseteq C2Out
  OBVIOUS
<1>8. some \in Bijection(LockedBy(i), below)
  <2>1. some \in [LockedBy(i) -> below]
    <3>1. DOMAIN some = LockedBy(i) /\ some = [n \in LockedBy(i) |-> some[n]]
      OBVIOUS
    <3> HIDE DEF some, pick, below
    <3>2. QED
      BY <1>3, <1>4, <1>6, <3>1
  <2> HIDE DEF some, pick, below
  <2>2. \A n, m \in LockedBy(i) : some[n] = some[m] => n = m
    BY <1>3, <1>5, <1>6
  <2>3. \A o \in below : \E n \in LockedBy(i) : some[n] = o
    BY <1>4, <1>5, <1>6, <1>7
  <2>4. QED
    BY <2>1, <2>2, <2>3 DEF Bijection, Injection, Surjection, IsInjective
<1> HIDE DEF some, below
<1>9. IsFiniteSet(LockedBy(i))
  <2>1. Depth \in Nat /\ IsFiniteSet(1..Depth)
    BY LevelFacts, FS_Interval
  <2>2. QED
    BY <1>3, <2>1, FS_Subset
<1>10. Cardinality(below) = Cardinality(LockedBy(i))
  BY <1>8, <1>9, FS_Bijection DEF ExistsBijection
<1>11. inputLockCount[i] = Cardinality(LockedBy(i))
  BY DEF InputHolding, LocksTaken
<1>12. QED
  BY <1>10, <1>11 DEF TrueCount, below

--------------------------------------------------------------------------------
(* What is recorded of the inputs of a matched output.                     *)

\* A quota that is not negative leaves no partner missing.
LEMMA NothingLeft ==
    ASSUME NEW quota \in Int, NEW partners \in Nat, NEW support \in Nat,
           quota >= 0, partners <= support, quota = partners - support
    PROVE  support = partners
  OBVIOUS

\* The locks of a committed pair drive its candidate's support: the quota of its
\* level left no input of it without a partner.
LEMMA CommittedSupport ==
    ASSUME TypeOK, InputHolding, SupportSplit, QuotaKept, PairsPlaced, NEW n \in CommittedLevels
    PROVE  Supp1[Candidate(n)] \subseteq Driven(stack[n].out, inputLock)
<1>1. /\ n \in 1..Depth /\ Depth \in Nat /\ Entered(n)
      /\ LockingFrames(n) = DOMAIN stack[n].ins /\ BoundFrames(n) = DOMAIN stack[n].ins
  BY CommittedFrames
<1>2. SplitAt(n) /\ QuotaAt(n) /\ stack[n].todo = {}
  BY <1>1 DEF SupportSplit, QuotaKept, PairsPlaced
<1>3. Candidate(n) \in C1Out /\ stack[n] \in Level
  BY <1>1, CommittedTyped, LevelFacts
<1>4. Cardinality(Open(n)) = 0
  <2>1. Open(n) = {}
    BY <1>1, <1>2 DEF Open
  <2>2. QED
    BY <2>1, FS_EmptySet
<1>5. /\ IsFiniteSet(Supp1[Candidate(n)]) /\ Cardinality(Supp1[Candidate(n)]) \in Nat
      /\ Cardinality(Partners(n)) <= Cardinality(Supp1[Candidate(n)])
      /\ Cardinality(Supp1[Candidate(n)]) = Cardinality(Partners(n))
            => Supp1[Candidate(n)] = Partners(n)
      /\ Cardinality(Partners(n)) \in Nat
  <2>1. IsFiniteSet(Supp1[Candidate(n)])
    BY <1>3, CandidateAssumption, PortsAssumption, FS_Subset
  <2>2. Partners(n) \subseteq Supp1[Candidate(n)]
    BY <1>2 DEF QuotaAt
  <2>3. IsFiniteSet(Partners(n))
    BY <2>1, <2>2, FS_Subset
  <2>4. Cardinality(Supp1[Candidate(n)]) \in Nat /\ Cardinality(Partners(n)) \in Nat
    BY <2>1, <2>3, FS_CardinalityType
  <2>5. QED
    BY <2>1, <2>2, <2>4, FS_Subset
<1>6. Supp1[Candidate(n)] = Partners(n)
  <2>1. /\ stack[n].quota >= 0 /\ stack[n].quota \in Int
        /\ stack[n].quota = Cardinality(Open(n)) + Cardinality(Partners(n))
                              - Cardinality(Supp1[Candidate(n)])
    BY <1>2, <1>3 DEF QuotaAt, Level
  <2>2. stack[n].quota = Cardinality(Partners(n)) - Cardinality(Supp1[Candidate(n)])
    BY <1>4, <1>5, <2>1
  <2>3. Cardinality(Supp1[Candidate(n)]) = Cardinality(Partners(n))
    BY <1>5, <2>1, <2>2, NothingLeft
  <2>4. QED
    BY <1>5, <2>3
<1>7. ASSUME NEW c \in Partners(n) PROVE c \in Driven(stack[n].out, inputLock)
  <2>1. c \in C1In /\ \E i : i \in Taken(n, c)
    BY DEF Partners
  <2>2. PICK i : i \in Taken(n, c)
    BY <2>1
  <2>3. CASE i \in stack[n].locked /\ inputLock[i].c1 = c
    <3>1. i \in Range(Supp2[stack[n].out])
      BY <1>2, <2>3 DEF SplitAt
    <3>2. QED
      BY <2>1, <2>3, <3>1, PortsAssumption DEF Driven
  <2>4. CASE i \in Placed(n, c)
    <3>1. PICK m \in DOMAIN stack[n].ins :
              stack[n].ins[m].i = i /\ Choice(stack[n].ins[m]) = c
      BY <1>1, <2>4 DEF Placed
    <3>2. inputLock[i] = LockOf(stack[n].ins[m])
      BY <1>1, <3>1 DEF InputHolding, LocksTaken
    <3>3. inputLock[i].c1 = c
      BY <3>1, <3>2 DEF LockOf
    <3>4. i \in Range(Supp2[stack[n].out])
      BY <1>2, <3>1 DEF SplitAt, Inputs
    <3>5. QED
      BY <2>1, <3>3, <3>4, PortsAssumption DEF Driven
  <2>5. QED
    BY <2>2, <2>3, <2>4 DEF Taken
<1>8. QED
  BY <1>6, <1>7

\* So the locks of every locked output drive its partner's support ...
LEMMA LocksDriven ==
    ASSUME TypeOK, InputHolding, OutputPairing, SupportSplit, QuotaKept, PairsPlaced,
           NEW o \in C2Out, outputLock[o].c1 # None
    PROVE  /\ Supp1[outputLock[o].c1] \subseteq Driven(o, inputLock)
           /\ NoPresets => \A i \in Range(Supp2[o]) : inputLock[i].c1 # None
<1>1. PICK n \in CommittedLevels : stack[n].out = o
  BY DEF OutputPairing, PairsHeld, NoLock
<1>2. outputLock[o].c1 = Candidate(n)
  BY <1>1 DEF OutputPairing, PairsHeld
<1>3. ASSUME NoPresets, NEW i \in Range(Supp2[o]) PROVE inputLock[i].c1 # None
  <2>1. PICK k \in 1..n : Holds(k, i)
    BY <1>1, <1>3, CommittedInputs DEF PairsPlaced
  <2>2. k \in 1..Depth
    BY CommittedFrames
  <2>3. QED
    BY <2>1, <2>2, HeldLocked
<1>4. QED
  BY <1>1, <1>2, <1>3, CommittedSupport

\* ... and so do the recorded ones, which were copied from the locks.
LEMMA RecordedStep ==
    TypeOK /\ InputHolding /\ OutputPairing /\ SupportSplit /\ QuotaKept /\ PairsPlaced
      /\ [Next]_vars
        => (RecordedDriven => RecordedDriven') /\ (NoPresets /\ RecordedMatched => RecordedMatched')
<1> SUFFICES ASSUME TypeOK, InputHolding, OutputPairing, SupportSplit, QuotaKept, PairsPlaced,
                    [Next]_vars
             PROVE  /\ RecordedDriven => RecordedDriven'
                    /\ NoPresets /\ RecordedMatched => RecordedMatched'
  OBVIOUS
<1>1. CASE UNCHANGED bestVars
  <2>1. \A o : Driven(o, maxInputMatch)' = Driven(o, maxInputMatch)
    BY <1>1 DEF Driven, bestVars
  <2>2. QED
    BY <1>1, <2>1 DEF RecordedDriven, RecordedMatched, bestVars
<1>2. CASE maxOutputMatch' = outputLock /\ maxInputMatch' = inputLock
  <2>1. \A o : Driven(o, maxInputMatch)' = Driven(o, inputLock)
    BY <1>2 DEF Driven
  <2>2. QED
    BY <1>2, <2>1, LocksDriven DEF RecordedDriven, RecordedMatched
<1>3. QED
  BY <1>1, <1>2 DEF Next, MatchOutput, MatchInput, Done, vars, bestVars, AllMatched, ChooseOutput,
          RecordBest, NoMoreOutputs, SkipOutput, EnterOutput, NextOutputCandidate, NextInput,
          MiterRejects, MiterAccepts, NoMoreInputs, SkipInput, BindConst, BindInput, AssignNeg,
          UnbindConst, UnbindInput, UnlockInput, UndoOutput

--------------------------------------------------------------------------------
(* One output of the answer given to the miter again.                      *)

\* Every input below a matched output is matched: nothing is read before input1.
AllDriven == \A o \in Answer!Matched(maxOutputMatch) : ~Undriven(o)

\* The pair of a matched output is what the answer says of it.
PairEquivalent(o) ==
    \A a \in SUBSET C1In :
        (Answer!Carry(maxInputMatch, a) \in mod.c2[o])
          = ((a \in mod.c1[maxOutputMatch[o].c1]) # (maxOutputMatch[o].neg = 1))

\* Of an assignment only what is below the pair counts.
LEMMA BelowDecides ==
    ASSUME SupportsExact, TypeOK, RecordedDriven, NEW o \in C2Out, maxOutputMatch[o].c1 # None,
           ~Undriven(o), NEW below,
           below = {maxInputMatch[i].c1 : i \in PiIdx[o]} \ {CONST}, NEW a \in SUBSET C1In
    PROVE  /\ (a \in mod.c1[maxOutputMatch[o].c1])
                <=> (a \cap below \in mod.c1[maxOutputMatch[o].c1])
           /\ (Answer!Carry(maxInputMatch, a) \in mod.c2[o])
                <=> (Drive(maxInputMatch, Range(Supp2[o]), a \cap below) \in mod.c2[o])
<1> DEFINE o1 == maxOutputMatch[o].c1
           S == Range(Supp2[o])
           b == a \cap below
           s == Answer!Carry(maxInputMatch, a)
<1>1. o1 \in C1Out /\ mod \in Netlists
  BY DEF TypeOK, Typed, OutputLock
<1>2. S \subseteq PiIdx[o] /\ PiIdx[o] \subseteq C2In
  BY PiIdxAssumption
<1>3. \A i \in S : maxInputMatch[i].c1 # None /\ (maxInputMatch[i].c1 # CONST
                      => maxInputMatch[i].c1 \in below)
  BY <1>2 DEF Undriven
<1>4. Supp1[o1] \subseteq below
  BY <1>1, <1>3 DEF RecordedDriven, Driven
<1>5. b \in SUBSET C1In /\ a \cap Supp1[o1] = b \cap Supp1[o1]
  BY <1>4
<1>6. (a \in mod.c1[o1]) <=> (b \in mod.c1[o1])
  <2> HIDE DEF o1, b
  <2>1. \A x \in SUBSET C1In : (x \in mod.c1[o1]) <=> (x \cap Supp1[o1] \in mod.c1[o1])
    BY <1>1 DEF SupportsExact
  <2>2. (a \in mod.c1[o1]) <=> (a \cap Supp1[o1] \in mod.c1[o1])
    BY <2>1
  <2>3. (b \in mod.c1[o1]) <=> (b \cap Supp1[o1] \in mod.c1[o1])
    BY <1>5, <2>1
  <2>4. QED
    BY <1>5, <2>2, <2>3
<1>7. s \cap S = Drive(maxInputMatch, S, b)
  <2>1. ASSUME NEW i \in S PROVE i \in s <=> i \in Drive(maxInputMatch, S, b)
    <3>1. i \in C2In /\ maxInputMatch[i].c1 # None
      BY <1>2, <1>3
    <3>2. CASE maxInputMatch[i].c1 = CONST
      BY <3>1, <3>2 DEF Drive, Answer!Carry
    <3>3. CASE maxInputMatch[i].c1 # CONST
      <4>1. maxInputMatch[i].c1 \in a <=> maxInputMatch[i].c1 \in b
        BY <1>3, <3>3
      <4> HIDE DEF S, b
      <4>2. QED
        BY <3>1, <3>3, <4>1 DEF Drive, Answer!Carry
    <3>4. QED
      BY <3>2, <3>3
  <2>2. Drive(maxInputMatch, S, b) \subseteq S
    BY DEF Drive
  <2> HIDE DEF S, b, s
  <2>3. QED
    BY <2>1, <2>2
<1>8. (s \in mod.c2[o]) <=> (s \cap S \in mod.c2[o])
  <2>1. s \in SUBSET C2In
    BY DEF Answer!Carry
  <2>2. QED
    BY <1>1, <2>1 DEF SupportsExact
<1> HIDE DEF S, b, s, o1
<1>9. (s \in mod.c2[o]) <=> (Drive(maxInputMatch, S, b) \in mod.c2[o])
  BY <1>7, <1>8, Zenon
<1>10. QED
  BY <1>6, <1>9 DEF S, b, s, o1

\* So the miter on all patterns of what is below the pair decides it.
LEMMA MiterDecides ==
    ASSUME Exhaustive, SupportsExact, TypeOK, RecordedDriven,
           NEW o \in C2Out, maxOutputMatch[o].c1 # None, ~Undriven(o), NEW result \in Results(o)
    PROVE  one_output_eq(o, result) <=> PairEquivalent(o)
<1> PICK below : below = {maxInputMatch[i].c1 : i \in PiIdx[o]} \ {CONST}
  OBVIOUS
<1> PICK o1 : o1 = maxOutputMatch[o].c1
  OBVIOUS
<1>1. below \subseteq C1In
  <2>1. \A i \in PiIdx[o] : maxInputMatch[i].c1 \in C1In \cup {CONST}
    BY PiIdxAssumption DEF Undriven, TypeOK, Typed, InputLock
  <2>2. QED
    BY <2>1
<1>2. Cardinality(below) < ExhaustiveLimit
  <2>1. /\ Cardinality(below) <= Cardinality(C1In)
        /\ Cardinality(below) \in Nat /\ Cardinality(C1In) \in Nat
    <3>1. IsFiniteSet(below)
      BY <1>1, PortsAssumption, FS_Subset
    <3>2. QED
      BY <1>1, <3>1, PortsAssumption, FS_Subset, FS_CardinalityType
  <2>2. QED
    BY <2>1, CandidateAssumption DEF Exhaustive
<1>3. result = MiterType(o1, o, maxInputMatch, SUBSET below)
  BY <1>2 DEF Results
<1>4. maxOutputMatch[o].neg \in {0, 1}
  BY DEF TypeOK, Typed, OutputLock
<1> DEFINE neg == maxOutputMatch[o].neg
           agree(b) == Agrees(o1, o, maxInputMatch, b)
           right(a) == (Answer!Carry(maxInputMatch, a) \in mod.c2[o])
                         <=> ~((a \in mod.c1[o1]) <=> (neg = 1))
<1>5. PairEquivalent(o) <=> \A a \in SUBSET C1In : right(a)
  BY DEF PairEquivalent
<1>6. ASSUME NEW a \in SUBSET C1In
      PROVE  right(a) <=> (agree(a \cap below) <=> neg # 1)
  <2>1. /\ (a \in mod.c1[o1]) <=> (a \cap below \in mod.c1[o1])
        /\ (Answer!Carry(maxInputMatch, a) \in mod.c2[o])
              <=> (Drive(maxInputMatch, Range(Supp2[o]), a \cap below) \in mod.c2[o])
    BY BelowDecides
  <2>2. agree(a \cap below)
           <=> ((a \cap below \in mod.c1[o1])
                  <=> (Drive(maxInputMatch, Range(Supp2[o]), a \cap below) \in mod.c2[o]))
    BY DEF Agrees
  <2>3. QED
    BY <2>1, <2>2
<1> HIDE DEF agree, right
<1>7. PairEquivalent(o) <=> \A b \in SUBSET below : (agree(b) <=> neg # 1)
  <2>1. \A b \in SUBSET below : b \in SUBSET C1In /\ b \cap below = b
    BY <1>1
  <2>2. \A a \in SUBSET C1In : a \cap below \in SUBSET below
    OBVIOUS
  <2>3. ASSUME PairEquivalent(o), NEW b \in SUBSET below PROVE agree(b) <=> neg # 1
    <3>1. b \in SUBSET C1In /\ right(b)
      BY <1>5, <2>1, <2>3
    <3>2. agree(b \cap below) <=> neg # 1
      BY <1>6, <3>1
    <3>3. b \cap below = b
      BY <2>1
    <3>4. QED
      BY <3>2, <3>3, Zenon
  <2>4. ASSUME \A b \in SUBSET below : (agree(b) <=> neg # 1), NEW a \in SUBSET C1In
        PROVE  right(a)
    BY <1>6, <2>2, <2>4
  <2>5. QED
    BY <1>5, <2>3, <2>4
<1>8. /\ result = 1 <=> \A b \in SUBSET below : agree(b)
      /\ result = 2 <=> \A b \in SUBSET below : ~agree(b)
  <2>1. {} \in SUBSET below
    OBVIOUS
  <2>2. /\ (\A b \in SUBSET below : agree(b)) => result = 1
        /\ ~(\A b \in SUBSET below : agree(b)) /\ (\A b \in SUBSET below : ~agree(b)) => result = 2
        /\ ~(\A b \in SUBSET below : agree(b)) /\ ~(\A b \in SUBSET below : ~agree(b)) => result = 0
    BY <1>3 DEF MiterType, agree
  <2>3. QED
    BY <2>1, <2>2
<1>9. one_output_eq(o, result) <=> (result = 1 /\ neg = 0) \/ (result = 2 /\ neg = 1)
  BY DEF one_output_eq
<1>10. QED
  BY <1>4, <1>7, <1>8, <1>9

--------------------------------------------------------------------------------
(* The search and verifyResult together.                                   *)

\* The report of verifyResult is about the counts the search ended with.
CountsReported ==
    at # "search" => /\ pc = "done"
                     /\ wrongCount = {i \in C2In : TrueCount(i) # inputLockCount[i]}

\* eq is the verdict on the outputs verified so far, point their score.
Verifying == at \in {"outputs", "reported"}
VerdictSoFar ==
    /\ eq \in BOOLEAN
    /\ at = "search" => eq /\ point = 0
    /\ at = "reported" => toVerify = {}
    /\ Verifying => toVerify \subseteq Answer!Matched(maxOutputMatch)
    /\ Verifying /\ AllDriven =>
          (eq <=> \A o \in Answer!Matched(maxOutputMatch) \ toVerify : PairEquivalent(o))
    /\ Verifying /\ AllDriven /\ AnswerEquivalent =>
          point = 2 * Cardinality(Answer!Matched(maxOutputMatch) \ toVerify)

\* What holds of the search, whatever is preset.
Left ==
    /\ TypeOK /\ InputHolding /\ OutputPairing /\ SupportSplit /\ QuotaKept
    /\ PairsPlaced /\ BestDeep /\ RecordedDriven

\* verifyResult leaves the search as it is, and runs when the search is over.
LEMMA SearchSteps ==
    [VNext]_<<vars, verifyVars>> =>
        /\ [Next]_vars
        /\ pc = "done" => UNCHANGED vars
<1> SUFFICES ASSUME [VNext]_<<vars, verifyVars>>
             PROVE  [Next]_vars /\ (pc = "done" => UNCHANGED vars)
  OBVIOUS
<1>1. CASE Search
  <2>1. pc # "done"
    BY <1>1 DEF Search, MatchOutput, MatchInput, AllMatched, ChooseOutput,
          NoMoreOutputs, SkipOutput, EnterOutput, NextOutputCandidate, NextInput,
          MiterRejects, MiterAccepts, NoMoreInputs, SkipInput, BindConst, BindInput, AssignNeg,
          UnbindConst, UnbindInput, UnlockInput, UndoOutput
  <2>2. QED
    BY <1>1, <2>1 DEF Search, Next
<1>2. CASE Verify \/ Verified \/ UNCHANGED <<vars, verifyVars>>
  BY <1>2 DEF Verify, Verified, VerifyLocks, VerifyOutput, VerifyCrash, Report
<1>3. QED
  BY <1>1, <1>2 DEF VNext

\* All of it holds of an empty stack and an empty answer ...
LEMMA LeftInit == Init => Left
<1> SUFFICES ASSUME Init PROVE Left
  OBVIOUS
<1>1. Depth = 0 /\ maxOutputMatch = [o \in C2Out |-> NoLock] /\ findOutputBest = FALSE
  BY DEF Init, Depth
<1>2. \A n : n \notin 1..Depth
  BY <1>1
<1>3. SupportSplit /\ QuotaKept /\ PairsPlaced /\ BestDeep
  BY <1>1, <1>2 DEF SupportSplit, QuotaKept, PairsPlaced, BestDeep, CommittedLevels
<1>4. RecordedDriven
  BY <1>1 DEF RecordedDriven, NoLock
<1>5. QED
  BY <1>3, <1>4, InitTyped, InputsInit, PairingInit DEF Left

\* ... and every step of the search keeps it.
LEMMA LeftStep == Left /\ [Next]_vars => Left'
  BY TypeStep, InputsStep, PairingStep, SplitStep, QuotaStep, PlacedStep, BestStep, RecordedStep
     DEF Left

\* The counts that were reported stay those of the search, which is over.
LEMMA CountsStep ==
    CountsReported /\ [VNext]_<<vars, verifyVars>> => CountsReported'
<1> SUFFICES ASSUME CountsReported, [VNext]_<<vars, verifyVars>>, at' # "search"
             PROVE  /\ pc' = "done"
                    /\ wrongCount' = {i \in C2In : TrueCount(i) # inputLockCount'[i]}
  BY DEF CountsReported, TrueCount
<1>1. CASE VerifyLocks
  BY <1>1 DEF VerifyLocks, vars, inputVars
<1>2. CASE ~VerifyLocks
  <2>1. at # "search" /\ wrongCount' = wrongCount
    BY <1>2 DEF VNext, Search, Verify, Verified, VerifyOutput, VerifyCrash, Report, verifyVars
  <2>2. pc = "done" /\ UNCHANGED vars
    BY <2>1, SearchSteps DEF CountsReported
  <2>3. QED
    BY <2>1, <2>2 DEF CountsReported, vars, inputVars
<1>3. QED
  BY <1>1, <1>2

\* After a full match verifyResult reports no wrong lock count: an input has been
\* locked once for every output it is below, by way of all the sharing, undoing and
\* trying again there was.
THEOREM FullMatchCounted ==
    ASSUME NoPresets, PiIdxExact
    PROVE  VSpec => []FullMatchCounts
<1>1. VInit => Left /\ CountsReported
  BY LeftInit DEF VInit, CountsReported
<1>2. Left /\ CountsReported /\ [VNext]_<<vars, verifyVars>> => (Left /\ CountsReported)'
  BY LeftStep, CountsStep, SearchSteps
<1>3. Left /\ CountsReported => FullMatchCounts
  BY FullCounts DEF Left, CountsReported, FullMatchCounts
<1>4. QED
  BY <1>1, <1>2, <1>3, PTL DEF VSpec

--------------------------------------------------------------------------------
(* The verdict.                                                            *)

\* While the search is left alone, what the verdict is about is too.
LEMMA VerdictSame ==
    ASSUME UNCHANGED vars
    PROVE  /\ AllDriven' <=> AllDriven
           /\ AnswerEquivalent' <=> AnswerEquivalent
           /\ Answer!Matched(maxOutputMatch)' = Answer!Matched(maxOutputMatch)
           /\ \A o : PairEquivalent(o)' <=> PairEquivalent(o)
<1>1. mod' = mod /\ maxOutputMatch' = maxOutputMatch /\ maxInputMatch' = maxInputMatch
  BY DEF vars, bestVars
<1>2. Answer!Matched(maxOutputMatch)' = Answer!Matched(maxOutputMatch)
  BY <1>1 DEF Answer!Matched
<1>3. \A o : Undriven(o)' <=> Undriven(o)
  BY <1>1 DEF Undriven
<1>4. \A a : Answer!Carry(maxInputMatch, a)' = Answer!Carry(maxInputMatch, a)
  BY <1>1 DEF Answer!Carry
<1>5. \A o : PairEquivalent(o)' <=> PairEquivalent(o)
  BY <1>1, <1>4 DEF PairEquivalent
<1>6. AnswerEquivalent' <=> AnswerEquivalent
  BY <1>1, <1>4 DEF AnswerEquivalent, Answer!PairsEquivalent, Answer!Matched
<1>7. QED
  BY <1>2, <1>3, <1>5, <1>6 DEF AllDriven

\* The answer is equivalent exactly if the pair of every matched output is.
LEMMA PairsOfAnswer ==
    AnswerEquivalent <=> \A o \in Answer!Matched(maxOutputMatch) : PairEquivalent(o)
  BY DEF AnswerEquivalent, Answer!PairsEquivalent, PairEquivalent, Answer!Matched

\* One output less to verify, one more in the verdict.
LEMMA VerdictOutput ==
    ASSUME Exhaustive, SupportsExact, TypeOK, RecordedDriven, VerdictSoFar, VerifyOutput
    PROVE  VerdictSoFar'
<1> DEFINE M == Answer!Matched(maxOutputMatch)
<1>1. /\ at = "outputs" /\ at' = "outputs" /\ UNCHANGED vars
      /\ eq \in BOOLEAN /\ toVerify \subseteq M
  BY DEF VerifyOutput, VerdictSoFar, Verifying
<1>2. PICK o \in toVerify : \E result \in Results(o) :
          /\ toVerify' = toVerify \ {o}
          /\ point' = point + IF one_output_eq(o, result) THEN 2 ELSE 0
          /\ eq' = (eq /\ one_output_eq(o, result))
  BY DEF VerifyOutput
<1>3. PICK result \in Results(o) :
          /\ toVerify' = toVerify \ {o}
          /\ point' = point + IF one_output_eq(o, result) THEN 2 ELSE 0
          /\ eq' = (eq /\ one_output_eq(o, result))
  BY <1>2
<1>4. o \in M /\ o \in C2Out /\ maxOutputMatch[o].c1 # None
  BY <1>1 DEF Answer!Matched
<1>5. AllDriven => (one_output_eq(o, result) <=> PairEquivalent(o))
  <2>1. AllDriven => ~Undriven(o)
    BY <1>4 DEF AllDriven
  <2>2. QED
    BY <1>4, <2>1, MiterDecides
<1>6. /\ toVerify' = toVerify \ {o} /\ toVerify' \subseteq M
      /\ M \ toVerify' = (M \ toVerify) \cup {o} /\ o \notin M \ toVerify
  BY <1>1, <1>3, <1>4
<1>7. eq' \in BOOLEAN /\ (eq' <=> (eq /\ one_output_eq(o, result)))
  BY <1>1, <1>3 DEF one_output_eq
<1> PICK done : done = M \ toVerify
  OBVIOUS
<1> PICK done2 : done2 = M \ toVerify'
  OBVIOUS
<1>8. AllDriven => (eq' <=> \A p \in done2 : PairEquivalent(p))
  <2>1. AllDriven => (eq <=> \A p \in done : PairEquivalent(p))
    BY <1>1 DEF VerdictSoFar, Verifying
  <2>2. done2 = done \cup {o}
    BY <1>6
  <2> HIDE DEF M
  <2>3. QED
    BY <1>5, <1>7, <2>1, <2>2
<1>9. AllDriven /\ AnswerEquivalent => point' = 2 * Cardinality(done2)
  <2> SUFFICES ASSUME AllDriven, AnswerEquivalent PROVE point' = 2 * Cardinality(done2)
    OBVIOUS
  <2>1. point' = point + 2
    BY <1>3, <1>4, <1>5, PairsOfAnswer
  <2>2. point = 2 * Cardinality(done)
    BY <1>1 DEF VerdictSoFar, Verifying
  <2>3. IsFiniteSet(done)
    <3>1. done \subseteq C2Out
      BY DEF Answer!Matched
    <3>2. QED
      BY <3>1, PortsAssumption, FS_Subset
  <2>4. Cardinality(done2) = Cardinality(done) + 1 /\ Cardinality(done) \in Nat
    BY <1>6, <2>3, FS_AddElement, FS_CardinalityType
  <2>5. QED
    BY <2>1, <2>2, <2>4
<1>10. M' = M
  BY <1>1, VerdictSame
<1> HIDE DEF M
<1>11. /\ Verifying' /\ at' = "outputs"
       /\ AllDriven' <=> AllDriven
       /\ AnswerEquivalent' <=> AnswerEquivalent
       /\ \A p : PairEquivalent(p)' <=> PairEquivalent(p)
       /\ M' \ toVerify' = done2
  BY <1>1, <1>10, VerdictSame DEF Verifying
<1>12. /\ AllDriven' => (eq' <=> \A p \in M' \ toVerify' : PairEquivalent(p)')
       /\ AllDriven' /\ AnswerEquivalent' => point' = 2 * Cardinality(M' \ toVerify')
       /\ toVerify' \subseteq M'
  BY <1>6, <1>8, <1>9, <1>10, <1>11
<1>13. QED
  BY <1>7, <1>11, <1>12 DEF VerdictSoFar, M

\* What the verdict so far says holds at every step of verifyResult.
LEMMA VerdictStep ==
    ASSUME Exhaustive, SupportsExact
    PROVE  Left /\ CountsReported /\ VerdictSoFar /\ [VNext]_<<vars, verifyVars>>
             => VerdictSoFar'
<1> SUFFICES ASSUME Left, CountsReported, VerdictSoFar, [VNext]_<<vars, verifyVars>>
             PROVE  VerdictSoFar'
  OBVIOUS
<1> DEFINE M == Answer!Matched(maxOutputMatch)
<1>1. CASE VerifyOutput
  BY <1>1, VerdictOutput DEF Left
<1>2. CASE VerifyLocks
  <2>1. /\ at = "search" /\ at' = "outputs" /\ toVerify' = M
        /\ eq' = eq /\ point' = point /\ UNCHANGED vars
    BY <1>2 DEF VerifyLocks, Answer!Matched
  <2>2. eq' = TRUE /\ point' = 0
    BY <2>1 DEF VerdictSoFar
  <2>3. M' = M
    BY <2>1, VerdictSame
  <2> HIDE DEF M
  <2>4. /\ M' \ toVerify' = {} /\ toVerify' \subseteq M'
    BY <2>1, <2>3
  <2>5. point' = 2 * Cardinality(M' \ toVerify')
    BY <2>2, <2>4, FS_EmptySet
  <2>6. \A o \in M' \ toVerify' : PairEquivalent(o)'
    BY <2>4
  <2>7. QED
    BY <2>1, <2>2, <2>4, <2>5, <2>6 DEF VerdictSoFar, Verifying, M
<1>3. CASE Search
  <2>1. at = "search" /\ at' = at /\ UNCHANGED <<eq, point, toVerify>>
    <3>1. pc # "done"
      BY <1>3 DEF Search, MatchOutput, MatchInput, AllMatched, ChooseOutput,
            NoMoreOutputs, SkipOutput, EnterOutput, NextOutputCandidate, NextInput,
            MiterRejects, MiterAccepts, NoMoreInputs, SkipInput, BindConst, BindInput, AssignNeg,
            UnbindConst, UnbindInput, UnlockInput, UndoOutput
    <3>2. QED
      BY <1>3, <3>1 DEF Search, verifyVars, CountsReported
  <2>2. QED
    BY <2>1 DEF VerdictSoFar, Verifying
<1>4. CASE VerifyCrash \/ Report \/ Verified \/ UNCHANGED <<vars, verifyVars>>
  <2>1. /\ UNCHANGED <<vars, eq, point, toVerify>>
        /\ Verifying' => Verifying
        /\ at' = "search" => at = "search"
        /\ at' = "reported" => at = "reported" \/ toVerify = {}
    BY <1>4 DEF VerifyCrash, Report, Verified, verifyVars, Verifying
  <2>2. /\ AllDriven' <=> AllDriven
        /\ AnswerEquivalent' <=> AnswerEquivalent
        /\ M' = M
        /\ \A o : PairEquivalent(o)' <=> PairEquivalent(o)
    BY <2>1, VerdictSame
  <2>3. /\ Verifying /\ AllDriven => (eq <=> \A o \in M \ toVerify : PairEquivalent(o))
        /\ Verifying /\ AllDriven /\ AnswerEquivalent => point = 2 * Cardinality(M \ toVerify)
        /\ Verifying => toVerify \subseteq M
        /\ eq \in BOOLEAN
        /\ at = "search" => eq /\ point = 0
        /\ at = "reported" => toVerify = {}
    BY DEF VerdictSoFar
  <2> HIDE DEF M
  <2>4. M' \ toVerify' = M \ toVerify
    BY <2>1, <2>2
  <2>5. /\ Verifying' /\ AllDriven' => (eq' <=> \A o \in M' \ toVerify' : PairEquivalent(o)')
        /\ Verifying' /\ AllDriven' /\ AnswerEquivalent'
              => point' = 2 * Cardinality(M' \ toVerify')
        /\ Verifying' => toVerify' \subseteq M'
    BY <2>1, <2>2, <2>3, <2>4
  <2>6. /\ eq' \in BOOLEAN
        /\ at' = "search" => eq' /\ point' = 0
        /\ at' = "reported" => toVerify' = {}
    BY <2>1, <2>3
  <2>7. QED
    BY <2>5, <2>6 DEF VerdictSoFar, M
<1>5. QED
  BY <1>1, <1>2, <1>3, <1>4 DEF VNext, Verify

\* The verdict of verifyResult is right whatever is preset: if every input below a
\* matched output is matched, it reports "eq" exactly if all pairs of the answer
\* are equivalent.  The miter drives only what is below the pair, and that holds
\* the whole support of the circuit-1 output because the quota of its level did.
THEOREM VerdictsRight ==
    ASSUME Exhaustive, SupportsExact
    PROVE  VSpec => []VerdictRight
<1>1. VInit => Left /\ CountsReported /\ VerdictSoFar
  BY LeftInit DEF VInit, CountsReported, VerdictSoFar, Verifying
<1>2. Left /\ CountsReported /\ VerdictSoFar /\ [VNext]_<<vars, verifyVars>>
        => (Left /\ CountsReported /\ VerdictSoFar)'
  BY LeftStep, CountsStep, VerdictStep, SearchSteps
<1>3. VerdictSoFar => VerdictRight
  <2> SUFFICES ASSUME VerdictSoFar, at = "reported",
                      \A o \in C2Out : maxOutputMatch[o].c1 # None => ~Undriven(o)
               PROVE  eq <=> AnswerEquivalent
    BY DEF VerdictRight
  <2>1. AllDriven
    BY DEF AllDriven, Answer!Matched
  <2>2. eq <=> \A o \in Answer!Matched(maxOutputMatch) : PairEquivalent(o)
    BY <2>1 DEF VerdictSoFar, Verifying
  <2>3. QED
    BY <2>2, PairsOfAnswer
<1>4. QED
  BY <1>1, <1>2, <1>3, PTL DEF VSpec

--------------------------------------------------------------------------------
(* The answer passes.                                                      *)

\* verifyResult reads no input that is not matched, and when it reports, it says
\* "eq" and scores every matched output (what AnswerConfirmed says is reached).
AnswerPasses ==
    /\ at # "crashed"
    /\ at = "reported" =>
          eq /\ point = 2 * Cardinality(Answer!Matched(maxOutputMatch))

\* What makes the answer right holds before anything is matched ...
LEMMA HoldingInit == Init => Holding /\ AnswerEquivalent /\ RecordedMatched
<1> SUFFICES ASSUME Init PROVE Holding /\ AnswerEquivalent /\ RecordedMatched
  OBVIOUS
<1>1. Depth = 0 /\ maxOutputDepth = -1 /\ \A o \in C2Out : maxOutputMatch[o].c1 = None
  BY DEF Init, Depth, NoLock
<1>2. PairsRight /\ AnswerDepth
  BY <1>1 DEF PairsRight, CommittedLevels, AnswerDepth
<1>3. AnswerEquivalent /\ RecordedMatched
  BY <1>1 DEF AnswerEquivalent, Answer!PairsEquivalent, Answer!Matched, RecordedMatched
<1>4. QED
  BY <1>2, <1>3, LeftInit DEF Left, Holding

\* ... and at every step, with every input of a matched output in the answer.
LEMMA HoldingStep ==
    ASSUME NoPresets, Exhaustive, SupportsExact
    PROVE  Left /\ Holding /\ AnswerEquivalent /\ RecordedMatched /\ [Next]_vars
             => (Holding /\ AnswerEquivalent /\ RecordedMatched)'
<1>1. Left /\ Holding /\ [Next]_vars => Holding'
  BY TypeStep, InputsStep, PairingStep, SplitStep, QuotaStep, RightStep, DepthStep DEF Holding
<1>2. Holding /\ AnswerEquivalent /\ [Next]_vars => AnswerEquivalent'
  BY AnswerStep, EquivalentStep
<1>3. Left /\ RecordedMatched /\ [Next]_vars => RecordedMatched'
  BY RecordedStep DEF Left
<1>4. QED
  BY <1>1, <1>2, <1>3

\* Together: what is left to verify is right, and no input of it is missing.
Passing ==
    /\ Left /\ CountsReported /\ VerdictSoFar
    /\ Holding /\ AnswerEquivalent /\ RecordedMatched
    /\ at # "crashed"

\* It holds before the search begins ...
LEMMA PassingInit == VInit => Passing
  BY LeftInit, HoldingInit DEF VInit, CountsReported, VerdictSoFar, Verifying, Passing

\* ... as no input below a matched output is missing from the answer ...
LEMMA PassingDriven == ASSUME PiIdxExact, RecordedMatched PROVE AllDriven
  BY DEF RecordedMatched, AllDriven, Undriven, PiIdxExact, Answer!Matched

\* ... no output left to verify has an input at index -1, so nothing crashes ...
LEMMA PassingStep ==
    ASSUME NoPresets, Exhaustive, SupportsExact, PiIdxExact
    PROVE  Passing /\ [VNext]_<<vars, verifyVars>> => Passing'
<1> SUFFICES ASSUME Passing, [VNext]_<<vars, verifyVars>> PROVE Passing'
  OBVIOUS
<1>1. (Left /\ CountsReported /\ VerdictSoFar)'
  BY LeftStep, CountsStep, VerdictStep, SearchSteps DEF Passing
<1>2. (Holding /\ AnswerEquivalent /\ RecordedMatched)'
  BY HoldingStep, SearchSteps DEF Passing
<1>3. ~VerifyCrash
  BY PassingDriven DEF VerifyCrash, AllDriven, VerdictSoFar, Verifying, Passing
<1>4. at' # "crashed"
  BY <1>3 DEF VNext, Search, Verify, Verified, VerifyLocks, VerifyOutput, Report, verifyVars, Passing
<1>5. QED
  BY <1>1, <1>2, <1>4 DEF Passing

\* ... and what is reported is right.
LEMMA PassingPasses == ASSUME PiIdxExact PROVE Passing => AnswerPasses
<1> SUFFICES ASSUME Passing PROVE AnswerPasses
  OBVIOUS
<1>1. AllDriven /\ \A o \in Answer!Matched(maxOutputMatch) : PairEquivalent(o)
  BY PassingDriven, PairsOfAnswer DEF Passing
<1>2. ASSUME at = "reported"
      PROVE  eq /\ point = 2 * Cardinality(Answer!Matched(maxOutputMatch))
  <2>1. toVerify = {} /\ Verifying
    BY <1>2 DEF VerdictSoFar, Verifying, Passing
  <2>2. Answer!Matched(maxOutputMatch) \ toVerify = Answer!Matched(maxOutputMatch)
    BY <2>1
  <2>3. /\ eq <=> \A o \in Answer!Matched(maxOutputMatch) \ toVerify : PairEquivalent(o)
        /\ point = 2 * Cardinality(Answer!Matched(maxOutputMatch) \ toVerify)
    BY <1>1, <2>1 DEF VerdictSoFar, Passing
  <2>4. QED
    BY <1>1, <2>2, <2>3
<1>3. QED
  BY <1>2 DEF AnswerPasses, Passing

\* Without presets, and with supports that are those of the netlists, the check
\* from scratch agrees with what the search decided step by step.
THEOREM VerifyConfirms ==
    ASSUME NoPresets, Exhaustive, SupportsExact, PiIdxExact
    PROVE  VSpec => []AnswerPasses
  BY PassingInit, PassingStep, PassingPasses, PTL DEF VSpec

--------------------------------------------------------------------------------
(* With the answer file in between.                                        *)

\* Writing the file, at every improvement and in the end, is nothing to the search
\* and to verifyResult, which go on where they were.
LEMMA PipelineSteps == [PNext]_pipeVars => [VNext]_<<vars, verifyVars>>
  BY DEF PNext, pipeVars, SearchOn, WriteFile, CloseFile, VerifyOn, WriteAgain, Exit, VNext

\* main writes what verifyResult has reported on, and nothing before.
WrittenAgain == delivered \/ writer = "main" => at = "reported"

\* A file of main is opened after the report, and nothing takes the report back.
LEMMA WrittenStep == WrittenAgain /\ [PNext]_pipeVars => WrittenAgain'
<1> SUFFICES ASSUME WrittenAgain, [PNext]_pipeVars PROVE WrittenAgain'
  OBVIOUS
<1>1. CASE SearchOn
  BY <1>1 DEF SearchOn, Search, verifyVars, fileVars, WrittenAgain, File!Open
<1>2. CASE VerifyOn
  BY <1>2 DEF VerifyOn, Verify, VerifyLocks, VerifyOutput, VerifyCrash, Report, fileVars, WrittenAgain
<1>3. CASE WriteFile \/ CloseFile \/ WriteAgain
  BY <1>3 DEF WriteFile, CloseFile, WriteAgain, File!WriteLine, File!CloseFile, File!Open,
        verifyVars, WrittenAgain
<1>4. CASE Exit \/ UNCHANGED pipeVars
  BY <1>4 DEF Exit, pipeVars, verifyVars, fileVars, WrittenAgain
<1>5. QED
  BY <1>1, <1>2, <1>3, <1>4 DEF PNext

\* The whole program writes its last file only when the answer in it has passed,
\* and reports no wrong lock count after a full match.
THEOREM PipelinePasses ==
    ASSUME NoPresets, Exhaustive, SupportsExact, PiIdxExact
    PROVE  PSpec => [](AnswerPasses /\ FullMatchCounts /\ WrittenAgain)
<1>1. PInit => Passing /\ WrittenAgain
  BY PassingInit DEF PInit, VInit, File!FileInit, WrittenAgain
<1>2. Passing /\ WrittenAgain /\ [PNext]_pipeVars => (Passing /\ WrittenAgain)'
  BY PassingStep, WrittenStep, PipelineSteps
<1>3. Passing => AnswerPasses /\ FullMatchCounts
  BY PassingPasses, FullCounts DEF Passing, Left, CountsReported, FullMatchCounts
<1>4. QED
  BY <1>1, <1>2, <1>3, PTL DEF PSpec

--------------------------------------------------------------------------------
(* The file.  A reader who takes the lines one after the other goes from   *)
(* state to state, never to one that says more than the answer does.       *)

\* The lines are joined by the operator the lemma is about.
LEMMA SameJoin == \A seqs : File!Seqs!FlattenSeq(seqs) = Seqs!FlattenSeq(seqs)
  BY DEF File!Seqs!FlattenSeq, Seqs!FlattenSeq

\* What the search keeps as its answer.
IsAnswer(a) == a.in \in [C2In -> InputLock] /\ a.out \in [C2Out -> OutputLock]

\* A reader has seen nothing of a port yet, or what the answer says.
Partly(a, s) ==
    /\ \A i \in C2In : s.in[i] \in {NoLock, Meaning(a).in[i]}
    /\ \A o \in C2Out : s.out[o] \in {NoLock, Meaning(a).out[o]}

\* The state of a reader who has seen the ports in D and E.
SeenIn(a, D) == [i \in C2In |-> IF i \in D THEN Meaning(a).in[i] ELSE NoLock]
SeenOut(a, E) == [o \in C2Out |-> IF o \in E THEN Meaning(a).out[o] ELSE NoLock]
State(in, out, group, c1) == [in |-> in, out |-> out, group |-> group, c1 |-> c1]
Seen(a, D, E, group, c1) == State(SeenIn(a, D), SeenOut(a, E), group, c1)

\* Such a state says nothing else.
LEMMA SeenPartly == \A a, D, E, g, c : Partly(a, Seen(a, D, E, g, c))
  BY DEF Partly, Seen, SeenIn, SeenOut, State

\* The lines of a file.
Tags == {"1", "2", "const", "INGROUP", "OUTGROUP", "CONSTGROUP", "END"}
Lines == [tag : Tags, neg : {0, 1}, port : C1In \cup C1Out \cup C2In \cup C2Out \cup {None}]

\* Reading the lines leads from s to t, and never to anything the answer does not say.
Run(a, f, lines) ==
    /\ \A n \in 0..Len(lines) : Partly(a, f[n])
    /\ \A n \in 1..Len(lines) : f[n] = File!ReadLine(f[n - 1], lines[n])
Reads(a, s, lines, t) == \E f : Run(a, f, lines) /\ f[0] = s /\ f[Len(lines)] = t

\* No line.
LEMMA ReadsNone == ASSUME NEW a, NEW s, Partly(a, s) PROVE Reads(a, s, <<>>, s)
<1> DEFINE f == [n \in {0} |-> s]
<1>1. Run(a, f, <<>>) /\ f[0] = s /\ f[Len(<<>>)] = s
  BY DEF Run
<1> HIDE DEF f
<1>2. QED
  BY <1>1 DEF Reads

\* One line.
LEMMA ReadsLine ==
    ASSUME NEW a, NEW s, Partly(a, s), NEW line, Partly(a, File!ReadLine(s, line))
    PROVE  Reads(a, s, <<line>>, File!ReadLine(s, line))
<1> PICK t : t = File!ReadLine(s, line)
  OBVIOUS
<1> DEFINE f == [n \in 0..1 |-> IF n = 0 THEN s ELSE t]
<1>1. f[0] = s /\ f[1] = t
  OBVIOUS
<1> HIDE DEF f
<1>2. Len(<<line>>) = 1 /\ <<line>>[1] = line
  OBVIOUS
<1>3. Run(a, f, <<line>>)
  BY <1>1, <1>2 DEF Run
<1>4. QED
  BY <1>1, <1>2, <1>3 DEF Reads

\* Some lines and then others.
LEMMA ReadsJoin ==
    ASSUME NEW a, NEW T, NEW l \in Seq(T), NEW m \in Seq(T), NEW s, NEW t, NEW u,
           Reads(a, s, l, t), Reads(a, t, m, u)
    PROVE  Reads(a, s, l \o m, u)
<1>1. PICK f : Run(a, f, l) /\ f[0] = s /\ f[Len(l)] = t
  BY DEF Reads
<1>2. PICK g : Run(a, g, m) /\ g[0] = t /\ g[Len(m)] = u
  BY DEF Reads
<1> DEFINE L == Len(l)  M == Len(m)
           h == [n \in 0..(L + M) |-> IF n <= L THEN f[n] ELSE g[n - L]]
<1>3. L \in Nat /\ M \in Nat /\ Len(l \o m) = L + M
  BY ConcatProperties
<1>4. /\ \A n \in 1..L : (l \o m)[n] = l[n]
      /\ \A n \in (L + 1)..(L + M) : (l \o m)[n] = m[n - L]
  BY <1>3, ConcatProperties
<1> HIDE DEF L, M
<1>5. /\ \A n \in 0..L : h[n] = f[n]
      /\ \A n \in L..(L + M) : h[n] = g[n - L]
  <2>1. ASSUME NEW n \in 0..L PROVE h[n] = f[n]
    BY <1>3
  <2>2. ASSUME NEW n \in L..(L + M) PROVE h[n] = g[n - L]
    <3>1. CASE n = L
      <4>1. h[n] = f[L]
        BY <1>3, <3>1
      <4>2. n - L = 0
        BY <1>3, <3>1
      <4>3. QED
        BY <1>1, <1>2, <4>1, <4>2 DEF L
    <3>2. CASE n # L
      BY <1>3, <3>2
    <3>3. QED
      BY <3>1, <3>2
  <2>3. QED
    BY <2>1, <2>2
<1> HIDE DEF h
<1>6. ASSUME NEW n \in 0..(L + M) PROVE Partly(a, h[n])
  <2>1. CASE n <= L
    <3>1. n \in 0..L
      BY <1>3, <2>1
    <3>2. QED
      BY <1>1, <1>5, <3>1 DEF Run, L
  <2>2. CASE n > L
    <3>1. n \in L..(L + M) /\ n - L \in 0..M
      BY <1>3, <2>2
    <3>2. QED
      BY <1>2, <1>5, <3>1 DEF Run, M
  <2>3. QED
    BY <1>3, <2>1, <2>2
<1>7. ASSUME NEW n \in 1..(L + M) PROVE h[n] = File!ReadLine(h[n - 1], (l \o m)[n])
  <2>1. CASE n <= L
    <3>1. n \in 0..L /\ n - 1 \in 0..L /\ n \in 1..L
      BY <1>3, <2>1
    <3>2. h[n] = f[n] /\ h[n - 1] = f[n - 1] /\ (l \o m)[n] = l[n]
      BY <1>4, <1>5, <3>1
    <3>3. f[n] = File!ReadLine(f[n - 1], l[n])
      BY <1>1, <3>1 DEF Run, L
    <3>4. QED
      BY <3>2, <3>3
  <2>2. CASE n > L
    <3>1. /\ n \in L..(L + M) /\ n - 1 \in L..(L + M) /\ n \in (L + 1)..(L + M)
          /\ n - L \in 1..M /\ (n - L) - 1 = (n - 1) - L
      BY <1>3, <2>2
    <3>2. h[n] = g[n - L] /\ h[n - 1] = g[(n - L) - 1] /\ (l \o m)[n] = m[n - L]
      BY <1>4, <1>5, <3>1
    <3>3. g[n - L] = File!ReadLine(g[(n - L) - 1], m[n - L])
      BY <1>2, <3>1 DEF Run, M
    <3>4. QED
      BY <3>2, <3>3
  <2>3. QED
    BY <1>3, <2>1, <2>2
<1>8. h[0] = s /\ h[L + M] = u
  <2>1. 0 \in 0..L /\ L + M \in L..(L + M) /\ (L + M) - L = M
    BY <1>3
  <2>2. QED
    BY <1>1, <1>2, <1>5, <2>1 DEF M
<1>9. QED
  BY <1>3, <1>6, <1>7, <1>8 DEF Run, Reads

\* The sequences are read one after the other.
Legs(a, st, seqs) == \A n \in 1..Len(seqs) : Reads(a, st[n - 1], seqs[n], st[n])

\* Leg after leg, to the end.
LEMMA ReadsAll ==
    ASSUME NEW a, NEW T, NEW seqs \in Seq(Seq(T)), NEW st, Partly(a, st[0]), Legs(a, st, seqs)
    PROVE  /\ Reads(a, st[0], File!Seqs!FlattenSeq(seqs), st[Len(seqs)])
           /\ File!Seqs!FlattenSeq(seqs) \in Seq(T)
<1>1. PICK f : Joins(f, seqs, T)
  BY Joined
<1> DEFINE N == Len(seqs)
           S == {n \in Nat : n \in 0..N => Reads(a, st[0], f[n], st[n])}
<1>2. N \in Nat /\ \A n \in 1..N : seqs[n] \in Seq(T)
  OBVIOUS
<1>3. 0 \in S
  BY <1>1, ReadsNone DEF Joins
<1> HIDE DEF N
<1>4. ASSUME NEW n \in Nat, n \in S PROVE n + 1 \in S
  <2> SUFFICES ASSUME n + 1 \in 0..N PROVE Reads(a, st[0], f[n + 1], st[n + 1])
    OBVIOUS
  <2>1. n \in 0..N /\ n + 1 \in 1..N /\ (n + 1) - 1 = n
    BY <1>2
  <2>2. f[n] \in Seq(T) /\ seqs[n + 1] \in Seq(T) /\ f[n + 1] = f[n] \o seqs[n + 1]
    <3>1. f[n + 1] = f[(n + 1) - 1] \o seqs[n + 1]
      BY <1>1, <2>1 DEF Joins, N
    <3>2. QED
      BY <1>1, <1>2, <2>1, <3>1 DEF Joins, N
  <2>3. Reads(a, st[n], seqs[n + 1], st[n + 1])
    <3>1. Reads(a, st[(n + 1) - 1], seqs[n + 1], st[n + 1])
      BY <2>1 DEF Legs, N
    <3>2. QED
      BY <2>1, <3>1
  <2>4. Reads(a, st[0], f[n], st[n])
    BY <1>4, <2>1
  <2>5. QED
    BY <2>2, <2>3, <2>4, ReadsJoin
<1> HIDE DEF S
<1>5. N \in S
  BY <1>2, <1>3, <1>4, NatInduct
<1>6. Reads(a, st[0], f[N], st[N]) /\ f[N] \in Seq(T)
  <2>1. N \in 0..N
    BY <1>2
  <2>2. QED
    BY <1>1, <1>5, <2>1 DEF S, Joins, N
<1>7. QED
  BY <1>1, <1>6, SameJoin DEF Joins, N

\* What the reader ends with is what ReadFile finds.
LEMMA ReadFound ==
    ASSUME NEW a, NEW lines \in Seq(Lines), NEW t, Reads(a, File!Start, lines, t)
    PROVE  File!ReadFile(lines) = [in |-> t.in, out |-> t.out]
<1> DEFINE N == Len(lines)
           Follows(h) == h = [n \in 0..N |->
                                IF n = 0 THEN File!Start ELSE File!ReadLine(h[n - 1], lines[n])]
<1>1. PICK f : Run(a, f, lines) /\ f[0] = File!Start /\ f[N] = t
  BY DEF Reads
<1> DEFINE g == [n \in 0..N |-> f[n]]
<1>2. N \in Nat
  OBVIOUS
<1> HIDE DEF N
<1>3. Follows(g)
  <2>1. ASSUME NEW n \in 0..N
        PROVE  g[n] = IF n = 0 THEN File!Start ELSE File!ReadLine(g[n - 1], lines[n])
    <3>1. CASE n = 0
      BY <1>1, <3>1
    <3>2. CASE n # 0
      <4>1. n \in 1..N /\ n - 1 \in 0..N
        BY <1>2, <3>2
      <4>2. f[n] = File!ReadLine(f[n - 1], lines[n])
        BY <1>1, <4>1 DEF Run, N
      <4>3. g[n] = f[n] /\ g[n - 1] = f[n - 1]
        BY <4>1
      <4> HIDE DEF g
      <4>4. QED
        BY <3>2, <4>2, <4>3
    <3>3. QED
      BY <3>1, <3>2
  <2>2. QED
    BY <2>1
<1>4. g[0] = File!Start /\ g[N] = t
  BY <1>1, <1>2
<1> HIDE DEF g
<1>5. ASSUME NEW h, Follows(h) PROVE h = g
  <2> DEFINE E == {n \in Nat : n \in 0..N => h[n] = g[n]}
  <2>1. 0 \in E
    BY <1>2, <1>3, <1>5
  <2>2. ASSUME NEW n \in Nat, n \in E PROVE n + 1 \in E
    <3> SUFFICES ASSUME n + 1 \in 0..N PROVE h[n + 1] = g[n + 1]
      OBVIOUS
    <3>1. n \in 0..N /\ n + 1 # 0 /\ (n + 1) - 1 = n
      BY <1>2
    <3>2. /\ h[n + 1] = File!ReadLine(h[(n + 1) - 1], lines[n + 1])
          /\ g[n + 1] = File!ReadLine(g[(n + 1) - 1], lines[n + 1])
      BY <1>3, <1>5, <3>1
    <3>3. QED
      BY <2>2, <3>1, <3>2
  <2> HIDE DEF E
  <2>3. \A n \in Nat : n \in E
    BY <2>1, <2>2, NatInduct
  <2>4. \A n \in 0..N : h[n] = g[n]
    BY <1>2, <2>3 DEF E
  <2>5. QED
    BY <1>3, <1>5, <2>4
<1> HIDE DEF Follows
<1>6. (CHOOSE h : Follows(h)) = g
  BY <1>3, <1>5
<1>7. File!ReadFile(lines)
        = [in |-> (CHOOSE h : Follows(h))[N].in, out |-> (CHOOSE h : Follows(h))[N].out]
  BY DEF File!ReadFile, Follows, N
<1>8. QED
  BY <1>4, <1>6, <1>7

\* A part of what is read well is read well.
LEMMA ReadsPart ==
    ASSUME NEW a, NEW l \in Seq(Lines), NEW m \in Seq(Lines), NEW s, NEW u, Reads(a, s, l \o m, u)
    PROVE  \E t : Reads(a, s, l, t) /\ Partly(a, t)
<1>1. PICK f : Run(a, f, l \o m) /\ f[0] = s
  BY DEF Reads
<1> DEFINE L == Len(l)  M == Len(m)
<1>2. L \in Nat /\ M \in Nat /\ Len(l \o m) = L + M
  BY ConcatProperties
<1>3. \A n \in 1..L : (l \o m)[n] = l[n]
  BY <1>2, ConcatProperties
<1> HIDE DEF L, M
<1>4. \A n \in 0..L : n \in 0..(L + M) /\ Partly(a, f[n])
  BY <1>1, <1>2 DEF Run
<1>5. ASSUME NEW n \in 1..L PROVE f[n] = File!ReadLine(f[n - 1], l[n])
  <2>1. n \in 1..(L + M)
    BY <1>2
  <2>2. f[n] = File!ReadLine(f[n - 1], (l \o m)[n])
    BY <1>1, <1>2, <2>1 DEF Run
  <2>3. QED
    BY <1>3, <2>2
<1>6. Run(a, f, l)
  BY <1>4, <1>5 DEF Run, L
<1>7. L \in 0..L
  BY <1>2
<1>8. Reads(a, s, l, f[Len(l)]) /\ Partly(a, f[Len(l)])
  BY <1>1, <1>4, <1>6, <1>7 DEF Reads, L
<1>9. QED
  BY <1>8

\* What one line does to what is seen: a mark ...
LEMMA LineMark ==
    ASSUME NEW A, NEW B, NEW g, NEW c, NEW tag \in {"INGROUP", "OUTGROUP", "CONSTGROUP", "END"}
    PROVE  File!ReadLine(State(A, B, g, c), File!Mark(tag)) = State(A, B, tag, c)
  BY DEF File!ReadLine, File!Line, File!Mark, State

\* ... the port of circuit 1 ...
LEMMA LineFirst ==
    ASSUME NEW A, NEW B, NEW g, NEW c, NEW p
    PROVE  File!ReadLine(State(A, B, g, c), File!Line("1", 0, p)) = State(A, B, g, p)
  BY DEF File!ReadLine, File!Line, State

\* ... a port in a group of inputs ...
LEMMA LineIn ==
    ASSUME NEW A, NEW B, NEW c, NEW neg, NEW p
    PROVE  File!ReadLine(State(A, B, "INGROUP", c), File!Line("2", neg, p))
                = State([A EXCEPT ![p] = [c1 |-> c, neg |-> neg]], B, "INGROUP", c)
  BY DEF File!ReadLine, File!Line, State

\* ... a port in a group of outputs ...
LEMMA LineOut ==
    ASSUME NEW A, NEW B, NEW c, NEW neg, NEW p
    PROVE  File!ReadLine(State(A, B, "OUTGROUP", c), File!Line("2", neg, p))
                = State(A, [B EXCEPT ![p] = [c1 |-> c, neg |-> neg]], "OUTGROUP", c)
  BY DEF File!ReadLine, File!Line, State

\* ... and an input that is constant.
LEMMA LineConst ==
    ASSUME NEW A, NEW B, NEW g, NEW c, NEW neg, NEW p
    PROVE  File!ReadLine(State(A, B, g, c), File!Line("const", neg, p))
                = State([A EXCEPT ![p] = [c1 |-> CONST, neg |-> neg]], B, g, c)
  BY DEF File!ReadLine, File!Line, State

\* The first and the last line of a group.
LEMMA ReadMark ==
    ASSUME NEW a, NEW D, NEW E, NEW g, NEW c,
           NEW tag \in {"INGROUP", "OUTGROUP", "CONSTGROUP", "END"}
    PROVE  /\ File!Mark(tag) \in Lines
           /\ Reads(a, Seen(a, D, E, g, c), <<File!Mark(tag)>>, Seen(a, D, E, tag, c))
<1>1. File!ReadLine(Seen(a, D, E, g, c), File!Mark(tag)) = Seen(a, D, E, tag, c)
  BY LineMark DEF Seen
<1>2. Reads(a, Seen(a, D, E, g, c), <<File!Mark(tag)>>, Seen(a, D, E, tag, c))
  BY <1>1, SeenPartly, ReadsLine
<1>3. File!Mark(tag) \in Lines
  BY DEF Lines, Tags, File!Mark, File!Line
<1>4. QED
  BY <1>2, <1>3

\* The line of the port of circuit 1.
LEMMA ReadFirst ==
    ASSUME NEW a, NEW D, NEW E, NEW g, NEW c, NEW c1 \in C1In \cup C1Out
    PROVE  /\ File!Line("1", 0, c1) \in Lines
           /\ Reads(a, Seen(a, D, E, g, c), <<File!Line("1", 0, c1)>>, Seen(a, D, E, g, c1))
<1>1. File!ReadLine(Seen(a, D, E, g, c), File!Line("1", 0, c1)) = Seen(a, D, E, g, c1)
  BY LineFirst DEF Seen
<1>2. Reads(a, Seen(a, D, E, g, c), <<File!Line("1", 0, c1)>>, Seen(a, D, E, g, c1))
  BY <1>1, SeenPartly, ReadsLine
<1>3. File!Line("1", 0, c1) \in Lines
  BY DEF Lines, Tags, File!Line
<1>4. QED
  BY <1>2, <1>3

\* The line of a port: its match is what the answer says.
LEMMA ReadIn ==
    ASSUME NEW a, IsAnswer(a), NEW D, NEW E, NEW c, c # None, NEW i \in C2In, a.in[i].c1 = c
    PROVE  File!ReadLine(Seen(a, D, E, "INGROUP", c), File!Line("2", a.in[i].neg, i))
             = Seen(a, D \cup {i}, E, "INGROUP", c)
<1>1. Meaning(a).in[i] = [c1 |-> c, neg |-> a.in[i].neg]
  BY DEF IsAnswer, InputLock, Meaning
<1>2. [SeenIn(a, D) EXCEPT ![i] = [c1 |-> c, neg |-> a.in[i].neg]] = SeenIn(a, D \cup {i})
  BY <1>1 DEF SeenIn
<1>3. QED
  BY <1>2, LineIn DEF Seen

\* The same for an output ...
LEMMA ReadOut ==
    ASSUME NEW a, IsAnswer(a), NEW D, NEW E, NEW c, c # None, NEW o \in C2Out, a.out[o].c1 = c
    PROVE  File!ReadLine(Seen(a, D, E, "OUTGROUP", c), File!Line("2", a.out[o].neg, o))
             = Seen(a, D, E \cup {o}, "OUTGROUP", c)
<1>1. Meaning(a).out[o] = [c1 |-> c, neg |-> a.out[o].neg]
  BY DEF IsAnswer, OutputLock, Meaning
<1>2. [SeenOut(a, E) EXCEPT ![o] = [c1 |-> c, neg |-> a.out[o].neg]] = SeenOut(a, E \cup {o})
  BY <1>1 DEF SeenOut
<1>3. QED
  BY <1>2, LineOut DEF Seen

\* ... and for a constant.
LEMMA ReadConst ==
    ASSUME NEW a, IsAnswer(a), NEW D, NEW E, NEW c, NEW i \in C2In, a.in[i].c1 = CONST
    PROVE  File!ReadLine(Seen(a, D, E, "CONSTGROUP", c), File!Line("const", a.in[i].neg, i))
             = Seen(a, D \cup {i}, E, "CONSTGROUP", c)
<1>1. Meaning(a).in[i] = [c1 |-> CONST, neg |-> a.in[i].neg]
  BY PortsAssumption DEF IsAnswer, InputLock, Meaning
<1>2. [SeenIn(a, D) EXCEPT ![i] = [c1 |-> CONST, neg |-> a.in[i].neg]] = SeenIn(a, D \cup {i})
  BY <1>1 DEF SeenIn
<1>3. QED
  BY <1>2, LineConst DEF Seen

\* The ports matched to c1, all of them and no others.
LEMMA MatchedPorts ==
    ASSUME NEW T, NEW ports \in Seq(T), NEW match, NEW c
    PROVE  /\ File!Matched(ports, match, c) \in Seq(T)
           /\ Range(File!Matched(ports, match, c)) = {p \in Range(ports) : match[p].c1 = c}
<1> DEFINE N == Len(ports)
           one == [k \in DOMAIN ports |-> IF match[ports[k]].c1 = c THEN <<ports[k]>> ELSE <<>>]
           Of(n) == {p \in T : \E k \in 1..n : ports[k] = p /\ match[p].c1 = c}
<1>1. N \in Nat /\ DOMAIN ports = 1..N /\ \A k \in 1..N : ports[k] \in T
  OBVIOUS
<1> HIDE DEF N
<1>2. one \in Seq(Seq(T)) /\ Len(one) = N
  <2>1. ASSUME NEW k \in 1..N
        PROVE  (IF match[ports[k]].c1 = c THEN <<ports[k]>> ELSE <<>>) \in Seq(T)
    <3>1. <<>> \in Seq(T) /\ <<ports[k]>> \in Seq(T)
      BY <1>1
    <3>2. QED
      BY <3>1
  <2>2. one \in [1..N -> Seq(T)]
    BY <1>1, <2>1
  <2> HIDE DEF one
  <2>3. QED
    BY <1>1, <2>2
<1>3. \A k \in 1..N : /\ match[ports[k]].c1 = c => one[k] = <<ports[k]>>
                      /\ match[ports[k]].c1 # c => one[k] = <<>>
                      /\ one[k] \in Seq(T)
  BY <1>1
<1>4. File!Matched(ports, match, c) = File!Seqs!FlattenSeq(one)
  BY DEF File!Matched
<1> HIDE DEF one
<1>5. PICK f : Joins(f, one, T)
  BY <1>2, Joined
<1> DEFINE S == {n \in Nat : n \in 0..N => Range(f[n]) = Of(n)}
<1>6. 0 \in S
  <2>1. f[0] = <<>>
    BY <1>5 DEF Joins
  <2>2. QED
    BY <2>1 DEF Range
<1>7. ASSUME NEW n \in Nat, n \in S PROVE n + 1 \in S
  <2> SUFFICES ASSUME n + 1 \in 0..N PROVE Range(f[n + 1]) = Of(n + 1)
    OBVIOUS
  <2>1. n \in 0..N /\ n + 1 \in 1..N /\ (n + 1) - 1 = n /\ 1..(n + 1) = 1..n \cup {n + 1}
    BY <1>1
  <2>2. f[n] \in Seq(T) /\ f[n + 1] = f[n] \o one[n + 1]
    <3>1. f[n + 1] = f[(n + 1) - 1] \o one[n + 1]
      BY <1>2, <1>5, <2>1 DEF Joins
    <3>2. QED
      BY <1>2, <1>5, <2>1, <3>1 DEF Joins
  <2>3. Range(f[n + 1]) = Range(f[n]) \cup Range(one[n + 1])
    BY <1>3, <2>1, <2>2, RangeConcatenation
  <2>4. Range(f[n]) = Of(n)
    BY <1>7, <2>1
  <2>5. Range(one[n + 1]) = IF match[ports[n + 1]].c1 = c THEN {ports[n + 1]} ELSE {}
    BY <1>3, <2>1 DEF Range
  <2>6. Of(n + 1) = Of(n) \cup IF match[ports[n + 1]].c1 = c THEN {ports[n + 1]} ELSE {}
    BY <1>1, <2>1
  <2> HIDE DEF Of
  <2>7. QED
    BY <2>3, <2>4, <2>5, <2>6
<1> HIDE DEF S
<1>8. N \in S
  BY <1>1, <1>6, <1>7, NatInduct
<1>9. Range(f[N]) = Of(N) /\ f[N] \in Seq(T)
  BY <1>1, <1>2, <1>5, <1>8 DEF S, Joins
<1>10. Of(N) = {p \in Range(ports) : match[p].c1 = c}
  BY <1>1 DEF Range
<1>11. File!Matched(ports, match, c) = f[N]
  BY <1>2, <1>4, <1>5, SameJoin DEF Joins
<1>12. QED
  BY <1>9, <1>10, <1>11

\* The lines of some ports, one after the other.
Steps(a, st, tag, match, ports) ==
    /\ \A n \in 0..Len(ports) : Partly(a, st[n])
    /\ \A n \in 1..Len(ports) :
          st[n] = File!ReadLine(st[n - 1], File!Line(tag, match[ports[n]].neg, ports[n]))

\* Reading them goes through these states.
LEMMA ReadPorts ==
    ASSUME NEW a, NEW tag \in Tags, NEW T \in SUBSET (C2In \cup C2Out), NEW ports \in Seq(T),
           NEW match, \A p \in T : match[p].neg \in {0, 1},
           NEW st, Steps(a, st, tag, match, ports)
    PROVE  /\ File!PortLines(tag, match, ports) \in Seq(Lines)
           /\ Reads(a, st[0], File!PortLines(tag, match, ports), st[Len(ports)])
<1> DEFINE N == Len(ports)
           l == File!PortLines(tag, match, ports)
<1>1. N \in Nat /\ DOMAIN ports = 1..N /\ \A k \in 1..N : ports[k] \in T
  OBVIOUS
<1> HIDE DEF N
<1>2. l = [j \in 1..N |-> File!Line(tag, match[ports[j]].neg, ports[j])]
  BY <1>1 DEF File!PortLines
<1> HIDE DEF l
<1>3. \A j \in 1..N : File!Line(tag, match[ports[j]].neg, ports[j]) \in Lines
  BY <1>1 DEF Lines, File!Line
<1>4. l \in Seq(Lines) /\ Len(l) = N
  BY <1>1, <1>2, <1>3
<1>5. Run(a, st, l)
  BY <1>2, <1>4 DEF Run, Steps, N
<1>6. QED
  BY <1>4, <1>5 DEF Reads, l, N

\* The first n of some ports.
First(ports, n) == {ports[k] : k \in 1..n}

\* One more.
LEMMA FirstNext ==
    ASSUME NEW ports, NEW n \in Nat \ {0}
    PROVE  First(ports, n) = First(ports, n - 1) \cup {ports[n]}
<1>1. 1..n = 1..(n - 1) \cup {n}
  OBVIOUS
<1>2. QED
  BY <1>1 DEF First

\* None of them, and all of them.
LEMMA FirstEnds ==
    ASSUME NEW T, NEW ports \in Seq(T)
    PROVE  First(ports, 0) = {} /\ First(ports, Len(ports)) = Range(ports)
  BY DEF First, Range

\* All of these ports are matched to c1.
MatchedTo(match, ports, c1) == \A k \in DOMAIN ports : match[ports[k]].c1 = c1

\* The lines of the inputs of a group ...
LEMMA ReadInPorts ==
    ASSUME NEW a, IsAnswer(a), NEW D, NEW E, NEW c, c # None, NEW ports \in Seq(C2In),
           MatchedTo(a.in, ports, c)
    PROVE  /\ File!PortLines("2", a.in, ports) \in Seq(Lines)
           /\ Reads(a, Seen(a, D, E, "INGROUP", c), File!PortLines("2", a.in, ports),
                       Seen(a, D \cup Range(ports), E, "INGROUP", c))
<1> DEFINE N == Len(ports)
           st == [n \in 0..N |-> Seen(a, D \cup First(ports, n), E, "INGROUP", c)]
<1>1. N \in Nat /\ DOMAIN ports = 1..N /\ \A k \in 1..N : ports[k] \in C2In
  OBVIOUS
<1> HIDE DEF N
<1>2. \A n \in 0..N : st[n] = Seen(a, D \cup First(ports, n), E, "INGROUP", c)
  OBVIOUS
<1> HIDE DEF st
<1>3. ASSUME NEW n \in 1..N
      PROVE  st[n] = File!ReadLine(st[n - 1], File!Line("2", a.in[ports[n]].neg, ports[n]))
  <2>1. n \in 0..N /\ n - 1 \in 0..N /\ ports[n] \in C2In
    BY <1>1
  <2>2. a.in[ports[n]].c1 = c
    BY <1>1 DEF MatchedTo
  <2>3. D \cup First(ports, n) = (D \cup First(ports, n - 1)) \cup {ports[n]}
    BY <1>1, FirstNext
  <2> PICK p \in C2In : p = ports[n]
    BY <2>1
  <2> PICK P : P = D \cup First(ports, n - 1)
    OBVIOUS
  <2>4. File!ReadLine(Seen(a, P, E, "INGROUP", c), File!Line("2", a.in[p].neg, p))
          = Seen(a, P \cup {p}, E, "INGROUP", c)
    BY <2>2, ReadIn
  <2>5. st[n - 1] = Seen(a, P, E, "INGROUP", c)
        /\ st[n] = Seen(a, P \cup {p}, E, "INGROUP", c)
    BY <1>2, <2>1, <2>3
  <2>6. QED
    BY <2>4, <2>5
<1>4. Steps(a, st, "2", a.in, ports)
  <2>1. ASSUME NEW n \in 0..N PROVE Partly(a, st[n])
    <3>1. Partly(a, Seen(a, D \cup First(ports, n), E, "INGROUP", c))
      BY SeenPartly
    <3>2. QED
      BY <1>2, <3>1
  <2>2. QED
    BY <1>3, <2>1 DEF Steps, N
<1>5. \A p \in C2In : a.in[p].neg \in {0, 1}
  BY DEF IsAnswer, InputLock
<1>6. "2" \in Tags
  BY DEF Tags
<1>7. st[0] = Seen(a, D, E, "INGROUP", c)
      /\ st[N] = Seen(a, D \cup Range(ports), E, "INGROUP", c)
  <2>1. First(ports, 0) = {} /\ First(ports, N) = Range(ports) /\ 0 \in 0..N /\ N \in 0..N
    BY <1>1, FirstEnds DEF N
  <2>2. QED
    BY <1>2, <2>1
<1>8. C2In \in SUBSET (C2In \cup C2Out)
  OBVIOUS
<1>9. QED
  BY <1>4, <1>5, <1>6, <1>7, <1>8, ReadPorts DEF N

\* ... of the outputs of a group ...
LEMMA ReadOutPorts ==
    ASSUME NEW a, IsAnswer(a), NEW D, NEW E, NEW c, c # None, NEW ports \in Seq(C2Out),
           MatchedTo(a.out, ports, c)
    PROVE  /\ File!PortLines("2", a.out, ports) \in Seq(Lines)
           /\ Reads(a, Seen(a, D, E, "OUTGROUP", c), File!PortLines("2", a.out, ports),
                       Seen(a, D, E \cup Range(ports), "OUTGROUP", c))
<1> DEFINE N == Len(ports)
           st == [n \in 0..N |-> Seen(a, D, E \cup First(ports, n), "OUTGROUP", c)]
<1>1. N \in Nat /\ DOMAIN ports = 1..N /\ \A k \in 1..N : ports[k] \in C2Out
  OBVIOUS
<1> HIDE DEF N
<1>2. \A n \in 0..N : st[n] = Seen(a, D, E \cup First(ports, n), "OUTGROUP", c)
  OBVIOUS
<1> HIDE DEF st
<1>3. ASSUME NEW n \in 1..N
      PROVE  st[n] = File!ReadLine(st[n - 1], File!Line("2", a.out[ports[n]].neg, ports[n]))
  <2>1. n \in 0..N /\ n - 1 \in 0..N /\ ports[n] \in C2Out
    BY <1>1
  <2>2. a.out[ports[n]].c1 = c
    BY <1>1 DEF MatchedTo
  <2>3. E \cup First(ports, n) = (E \cup First(ports, n - 1)) \cup {ports[n]}
    BY <1>1, FirstNext
  <2> PICK p \in C2Out : p = ports[n]
    BY <2>1
  <2> PICK P : P = E \cup First(ports, n - 1)
    OBVIOUS
  <2>4. File!ReadLine(Seen(a, D, P, "OUTGROUP", c), File!Line("2", a.out[p].neg, p))
          = Seen(a, D, P \cup {p}, "OUTGROUP", c)
    BY <2>2, ReadOut
  <2>5. st[n - 1] = Seen(a, D, P, "OUTGROUP", c)
        /\ st[n] = Seen(a, D, P \cup {p}, "OUTGROUP", c)
    BY <1>2, <2>1, <2>3
  <2>6. QED
    BY <2>4, <2>5
<1>4. Steps(a, st, "2", a.out, ports)
  <2>1. ASSUME NEW n \in 0..N PROVE Partly(a, st[n])
    <3>1. Partly(a, Seen(a, D, E \cup First(ports, n), "OUTGROUP", c))
      BY SeenPartly
    <3>2. QED
      BY <1>2, <3>1
  <2>2. QED
    BY <1>3, <2>1 DEF Steps, N
<1>5. \A p \in C2Out : a.out[p].neg \in {0, 1}
  BY DEF IsAnswer, OutputLock
<1>6. "2" \in Tags
  BY DEF Tags
<1>7. st[0] = Seen(a, D, E, "OUTGROUP", c)
      /\ st[N] = Seen(a, D, E \cup Range(ports), "OUTGROUP", c)
  <2>1. First(ports, 0) = {} /\ First(ports, N) = Range(ports) /\ 0 \in 0..N /\ N \in 0..N
    BY <1>1, FirstEnds DEF N
  <2>2. QED
    BY <1>2, <2>1
<1>8. C2Out \in SUBSET (C2In \cup C2Out)
  OBVIOUS
<1>9. QED
  BY <1>4, <1>5, <1>6, <1>7, <1>8, ReadPorts DEF N

\* ... and of the constants.
LEMMA ReadConstPorts ==
    ASSUME NEW a, IsAnswer(a), NEW D, NEW E, NEW c, NEW ports \in Seq(C2In),
           MatchedTo(a.in, ports, CONST)
    PROVE  /\ File!PortLines("const", a.in, ports) \in Seq(Lines)
           /\ Reads(a, Seen(a, D, E, "CONSTGROUP", c), File!PortLines("const", a.in, ports),
                       Seen(a, D \cup Range(ports), E, "CONSTGROUP", c))
<1> DEFINE N == Len(ports)
           st == [n \in 0..N |-> Seen(a, D \cup First(ports, n), E, "CONSTGROUP", c)]
<1>1. N \in Nat /\ DOMAIN ports = 1..N /\ \A k \in 1..N : ports[k] \in C2In
  OBVIOUS
<1> HIDE DEF N
<1>2. \A n \in 0..N : st[n] = Seen(a, D \cup First(ports, n), E, "CONSTGROUP", c)
  OBVIOUS
<1> HIDE DEF st
<1>3. ASSUME NEW n \in 1..N
      PROVE  st[n] = File!ReadLine(st[n - 1], File!Line("const", a.in[ports[n]].neg, ports[n]))
  <2>1. n \in 0..N /\ n - 1 \in 0..N /\ ports[n] \in C2In
    BY <1>1
  <2>2. a.in[ports[n]].c1 = CONST
    BY <1>1 DEF MatchedTo
  <2>3. D \cup First(ports, n) = (D \cup First(ports, n - 1)) \cup {ports[n]}
    BY <1>1, FirstNext
  <2> PICK p \in C2In : p = ports[n]
    BY <2>1
  <2> PICK P : P = D \cup First(ports, n - 1)
    OBVIOUS
  <2>4. File!ReadLine(Seen(a, P, E, "CONSTGROUP", c), File!Line("const", a.in[p].neg, p))
          = Seen(a, P \cup {p}, E, "CONSTGROUP", c)
    BY <2>2, ReadConst
  <2>5. st[n - 1] = Seen(a, P, E, "CONSTGROUP", c)
        /\ st[n] = Seen(a, P \cup {p}, E, "CONSTGROUP", c)
    BY <1>2, <2>1, <2>3
  <2>6. QED
    BY <2>4, <2>5
<1>4. Steps(a, st, "const", a.in, ports)
  <2>1. ASSUME NEW n \in 0..N PROVE Partly(a, st[n])
    <3>1. Partly(a, Seen(a, D \cup First(ports, n), E, "CONSTGROUP", c))
      BY SeenPartly
    <3>2. QED
      BY <1>2, <3>1
  <2>2. QED
    BY <1>3, <2>1 DEF Steps, N
<1>5. \A p \in C2In : a.in[p].neg \in {0, 1}
  BY DEF IsAnswer, InputLock
<1>6. "const" \in Tags
  BY DEF Tags
<1>7. st[0] = Seen(a, D, E, "CONSTGROUP", c)
      /\ st[N] = Seen(a, D \cup Range(ports), E, "CONSTGROUP", c)
  <2>1. First(ports, 0) = {} /\ First(ports, N) = Range(ports) /\ 0 \in 0..N /\ N \in 0..N
    BY <1>1, FirstEnds DEF N
  <2>2. QED
    BY <1>2, <2>1
<1>8. C2In \in SUBSET (C2In \cup C2Out)
  OBVIOUS
<1>9. QED
  BY <1>4, <1>5, <1>6, <1>7, <1>8, ReadPorts DEF N

\* A group.
LEMMA ReadInGroup ==
    ASSUME NEW a, IsAnswer(a), NEW D, NEW E, NEW g, NEW b, NEW c \in C1In
    PROVE  /\ File!Group("INGROUP", c, a.in, Ins2) \in Seq(Lines)
           /\ Reads(a, Seen(a, D, E, g, b), File!Group("INGROUP", c, a.in, Ins2),
                       Seen(a, D \cup {p \in C2In : a.in[p].c1 = c}, E, "END", c))
<1> DEFINE ports == File!Matched(Ins2, a.in, c)
           P == D \cup {p \in C2In : a.in[p].c1 = c}
           first == <<File!Mark("INGROUP"), File!Line("1", 0, c)>>
           body == File!PortLines("2", a.in, ports)
           last == <<File!Mark("END")>>
<1>1. ports \in Seq(C2In) /\ Range(ports) = {p \in C2In : a.in[p].c1 = c}
  BY OrderAssumption, MatchedPorts
<1>2. MatchedTo(a.in, ports, c)
  BY <1>1 DEF MatchedTo, Range
<1> HIDE DEF ports
<1>3. c # None /\ c \in C1In \cup C1Out
  BY PortsAssumption
<1>4. first \in Seq(Lines)
      /\ Reads(a, Seen(a, D, E, g, b), first, Seen(a, D, E, "INGROUP", c))
  <2>1. File!Mark("INGROUP") \in Lines /\ File!Line("1", 0, c) \in Lines
    BY <1>3, ReadMark, ReadFirst
  <2>2. Reads(a, Seen(a, D, E, g, b), <<File!Mark("INGROUP")>>, Seen(a, D, E, "INGROUP", b))
    BY ReadMark
  <2>3. Reads(a, Seen(a, D, E, "INGROUP", b), <<File!Line("1", 0, c)>>,
              Seen(a, D, E, "INGROUP", c))
    BY <1>3, ReadFirst
  <2>4. /\ first = <<File!Mark("INGROUP")>> \o <<File!Line("1", 0, c)>>
        /\ <<File!Mark("INGROUP")>> \in Seq(Lines) /\ <<File!Line("1", 0, c)>> \in Seq(Lines)
        /\ first \in Seq(Lines)
    BY <2>1
  <2> HIDE DEF first
  <2>5. QED
    BY <2>2, <2>3, <2>4, ReadsJoin
<1>5. body \in Seq(Lines)
      /\ Reads(a, Seen(a, D, E, "INGROUP", c), body, Seen(a, P, E, "INGROUP", c))
  BY <1>1, <1>2, <1>3, ReadInPorts
<1>6. last \in Seq(Lines)
      /\ Reads(a, Seen(a, P, E, "INGROUP", c), last, Seen(a, P, E, "END", c))
  BY ReadMark
<1>7. File!Group("INGROUP", c, a.in, Ins2) = (first \o body) \o last
  BY DEF File!Group, ports
<1> HIDE DEF first, body, last, P
<1>8. first \o body \in Seq(Lines) /\ (first \o body) \o last \in Seq(Lines)
  BY <1>4, <1>5, <1>6, ConcatProperties
<1>9. Reads(a, Seen(a, D, E, g, b), (first \o body) \o last, Seen(a, P, E, "END", c))
  <2>1. Reads(a, Seen(a, D, E, g, b), first \o body, Seen(a, P, E, "INGROUP", c))
    BY <1>4, <1>5, ReadsJoin
  <2>2. QED
    BY <1>6, <1>8, <2>1, ReadsJoin
<1>10. QED
  BY <1>7, <1>8, <1>9 DEF P

\* The same for outputs.
LEMMA ReadOutGroup ==
    ASSUME NEW a, IsAnswer(a), NEW D, NEW E, NEW g, NEW b, NEW c \in C1Out
    PROVE  /\ File!Group("OUTGROUP", c, a.out, Outs2) \in Seq(Lines)
           /\ Reads(a, Seen(a, D, E, g, b), File!Group("OUTGROUP", c, a.out, Outs2),
                       Seen(a, D, E \cup {p \in C2Out : a.out[p].c1 = c}, "END", c))
<1> DEFINE ports == File!Matched(Outs2, a.out, c)
           P == E \cup {p \in C2Out : a.out[p].c1 = c}
           first == <<File!Mark("OUTGROUP"), File!Line("1", 0, c)>>
           body == File!PortLines("2", a.out, ports)
           last == <<File!Mark("END")>>
<1>1. ports \in Seq(C2Out) /\ Range(ports) = {p \in C2Out : a.out[p].c1 = c}
  BY OrderAssumption, MatchedPorts
<1>2. MatchedTo(a.out, ports, c)
  BY <1>1 DEF MatchedTo, Range
<1> HIDE DEF ports
<1>3. c # None /\ c \in C1In \cup C1Out
  BY PortsAssumption
<1>4. first \in Seq(Lines)
      /\ Reads(a, Seen(a, D, E, g, b), first, Seen(a, D, E, "OUTGROUP", c))
  <2>1. File!Mark("OUTGROUP") \in Lines /\ File!Line("1", 0, c) \in Lines
    BY <1>3, ReadMark, ReadFirst
  <2>2. Reads(a, Seen(a, D, E, g, b), <<File!Mark("OUTGROUP")>>, Seen(a, D, E, "OUTGROUP", b))
    BY ReadMark
  <2>3. Reads(a, Seen(a, D, E, "OUTGROUP", b), <<File!Line("1", 0, c)>>,
              Seen(a, D, E, "OUTGROUP", c))
    BY <1>3, ReadFirst
  <2>4. /\ first = <<File!Mark("OUTGROUP")>> \o <<File!Line("1", 0, c)>>
        /\ <<File!Mark("OUTGROUP")>> \in Seq(Lines) /\ <<File!Line("1", 0, c)>> \in Seq(Lines)
        /\ first \in Seq(Lines)
    BY <2>1
  <2> HIDE DEF first
  <2>5. QED
    BY <2>2, <2>3, <2>4, ReadsJoin
<1>5. body \in Seq(Lines)
      /\ Reads(a, Seen(a, D, E, "OUTGROUP", c), body, Seen(a, D, P, "OUTGROUP", c))
  BY <1>1, <1>2, <1>3, ReadOutPorts
<1>6. last \in Seq(Lines)
      /\ Reads(a, Seen(a, D, P, "OUTGROUP", c), last, Seen(a, D, P, "END", c))
  BY ReadMark
<1>7. File!Group("OUTGROUP", c, a.out, Outs2) = (first \o body) \o last
  BY DEF File!Group, ports
<1> HIDE DEF first, body, last, P
<1>8. first \o body \in Seq(Lines) /\ (first \o body) \o last \in Seq(Lines)
  BY <1>4, <1>5, <1>6, ConcatProperties
<1>9. Reads(a, Seen(a, D, E, g, b), (first \o body) \o last, Seen(a, D, P, "END", c))
  <2>1. Reads(a, Seen(a, D, E, g, b), first \o body, Seen(a, D, P, "OUTGROUP", c))
    BY <1>4, <1>5, ReadsJoin
  <2>2. QED
    BY <1>6, <1>8, <2>1, ReadsJoin
<1>10. QED
  BY <1>7, <1>8, <1>9 DEF P

\* All groups of one kind.
InGroups(a) ==
    File!Seqs!FlattenSeq([i \in DOMAIN Ins1 |-> File!Group("INGROUP", Ins1[i], a.in, Ins2)])
OutGroups(a) ==
    File!Seqs!FlattenSeq([o \in DOMAIN Outs1 |-> File!Group("OUTGROUP", Outs1[o], a.out, Outs2)])

\* Reading them shows the inputs that are matched to inputs ...
LEMMA ReadInGroups ==
    ASSUME NEW a, IsAnswer(a), NEW D, NEW E, NEW g, NEW b
    PROVE  /\ InGroups(a) \in Seq(Lines)
           /\ \E h, c : Reads(a, Seen(a, D, E, g, b), InGroups(a),
                               Seen(a, D \cup {p \in C2In : a.in[p].c1 \in C1In}, E, h, c))
<1> DEFINE N == Len(Ins1)
           groups == [k \in DOMAIN Ins1 |-> File!Group("INGROUP", Ins1[k], a.in, Ins2)]
           Of(n) == {p \in C2In : a.in[p].c1 \in First(Ins1, n)}
           st == [n \in 0..N |-> Seen(a, D \cup Of(n), E, IF n = 0 THEN g ELSE "END",
                                       IF n = 0 THEN b ELSE Ins1[n])]
<1>1. N \in Nat /\ DOMAIN Ins1 = 1..N /\ \A k \in 1..N : Ins1[k] \in C1In
  BY OrderAssumption
<1> HIDE DEF N
<1>2. \A k \in 1..N : groups[k] = File!Group("INGROUP", Ins1[k], a.in, Ins2)
                        /\ groups[k] \in Seq(Lines)
  BY <1>1, ReadInGroup
<1>3. groups \in Seq(Seq(Lines)) /\ Len(groups) = N
  <2>1. groups \in [1..N -> Seq(Lines)]
    BY <1>1, <1>2
  <2> HIDE DEF groups
  <2>2. QED
    BY <1>1, <2>1
<1>4. InGroups(a) = File!Seqs!FlattenSeq(groups)
  BY DEF InGroups
<1> HIDE DEF groups
<1>5. \A n \in 0..N : st[n] = Seen(a, D \cup Of(n), E, IF n = 0 THEN g ELSE "END",
                                        IF n = 0 THEN b ELSE Ins1[n])
  OBVIOUS
<1> HIDE DEF st
<1>6. ASSUME NEW n \in 1..N PROVE Reads(a, st[n - 1], groups[n], st[n])
  <2>1. n \in 0..N /\ n - 1 \in 0..N /\ Ins1[n] \in C1In /\ n # 0
    BY <1>1
  <2>2. D \cup Of(n) = (D \cup Of(n - 1)) \cup {p \in C2In : a.in[p].c1 = Ins1[n]}
    BY <1>1, FirstNext
  <2> DEFINE P == D \cup Of(n - 1)
  <2>3. PICK h, c : st[n - 1] = Seen(a, P, E, h, c)
    BY <1>5, <2>1
  <2>4. st[n] = Seen(a, P \cup {p \in C2In : a.in[p].c1 = Ins1[n]}, E, "END", Ins1[n])
    BY <1>5, <2>1, <2>2
  <2> HIDE DEF P
  <2>5. QED
    BY <1>2, <2>1, <2>3, <2>4, ReadInGroup
<1>7. Legs(a, st, groups)
  BY <1>3, <1>6 DEF Legs
<1>8. 0 \in 0..N /\ N \in 0..N /\ First(Ins1, 0) = {} /\ First(Ins1, N) = C1In
  BY <1>1, OrderAssumption, FirstEnds DEF N
<1>9. st[0] = Seen(a, D, E, g, b)
  <2>1. D \cup Of(0) = D
    BY <1>8
  <2>2. QED
    BY <1>5, <1>8, <2>1
<1>10. \E h, c : st[N] = Seen(a, D \cup {p \in C2In : a.in[p].c1 \in C1In}, E, h, c)
  BY <1>5, <1>8
<1>11. Partly(a, st[0])
  BY <1>9, SeenPartly
<1>12. QED
  BY <1>3, <1>4, <1>7, <1>9, <1>10, <1>11, ReadsAll

\* ... and the outputs that are matched.
LEMMA ReadOutGroups ==
    ASSUME NEW a, IsAnswer(a), NEW D, NEW E, NEW g, NEW b
    PROVE  /\ OutGroups(a) \in Seq(Lines)
           /\ \E h, c : Reads(a, Seen(a, D, E, g, b), OutGroups(a),
                               Seen(a, D, E \cup {p \in C2Out : a.out[p].c1 \in C1Out}, h, c))
<1> DEFINE N == Len(Outs1)
           groups == [k \in DOMAIN Outs1 |-> File!Group("OUTGROUP", Outs1[k], a.out, Outs2)]
           Of(n) == {p \in C2Out : a.out[p].c1 \in First(Outs1, n)}
           st == [n \in 0..N |-> Seen(a, D, E \cup Of(n), IF n = 0 THEN g ELSE "END",
                                       IF n = 0 THEN b ELSE Outs1[n])]
<1>1. N \in Nat /\ DOMAIN Outs1 = 1..N /\ \A k \in 1..N : Outs1[k] \in C1Out
  BY OrderAssumption
<1> HIDE DEF N
<1>2. \A k \in 1..N : groups[k] = File!Group("OUTGROUP", Outs1[k], a.out, Outs2)
                        /\ groups[k] \in Seq(Lines)
  BY <1>1, ReadOutGroup
<1>3. groups \in Seq(Seq(Lines)) /\ Len(groups) = N
  <2>1. groups \in [1..N -> Seq(Lines)]
    BY <1>1, <1>2
  <2> HIDE DEF groups
  <2>2. QED
    BY <1>1, <2>1
<1>4. OutGroups(a) = File!Seqs!FlattenSeq(groups)
  BY DEF OutGroups
<1> HIDE DEF groups
<1>5. \A n \in 0..N : st[n] = Seen(a, D, E \cup Of(n), IF n = 0 THEN g ELSE "END",
                                        IF n = 0 THEN b ELSE Outs1[n])
  OBVIOUS
<1> HIDE DEF st
<1>6. ASSUME NEW n \in 1..N PROVE Reads(a, st[n - 1], groups[n], st[n])
  <2>1. n \in 0..N /\ n - 1 \in 0..N /\ Outs1[n] \in C1Out /\ n # 0
    BY <1>1
  <2>2. E \cup Of(n) = (E \cup Of(n - 1)) \cup {p \in C2Out : a.out[p].c1 = Outs1[n]}
    BY <1>1, FirstNext
  <2> DEFINE P == E \cup Of(n - 1)
  <2>3. PICK h, c : st[n - 1] = Seen(a, D, P, h, c)
    BY <1>5, <2>1
  <2>4. st[n] = Seen(a, D, P \cup {p \in C2Out : a.out[p].c1 = Outs1[n]}, "END", Outs1[n])
    BY <1>5, <2>1, <2>2
  <2> HIDE DEF P
  <2>5. QED
    BY <1>2, <2>1, <2>3, <2>4, ReadOutGroup
<1>7. Legs(a, st, groups)
  BY <1>3, <1>6 DEF Legs
<1>8. 0 \in 0..N /\ N \in 0..N /\ First(Outs1, 0) = {} /\ First(Outs1, N) = C1Out
  BY <1>1, OrderAssumption, FirstEnds DEF N
<1>9. st[0] = Seen(a, D, E, g, b)
  <2>1. E \cup Of(0) = E
    BY <1>8
  <2>2. QED
    BY <1>5, <1>8, <2>1
<1>10. \E h, c : st[N] = Seen(a, D, E \cup {p \in C2Out : a.out[p].c1 \in C1Out}, h, c)
  BY <1>5, <1>8
<1>11. Partly(a, st[0])
  BY <1>9, SeenPartly
<1>12. QED
  BY <1>3, <1>4, <1>7, <1>9, <1>10, <1>11, ReadsAll

\* The constants, if any.
LEMMA ReadConstGroup ==
    ASSUME NEW a, IsAnswer(a), NEW D, NEW E, NEW g, NEW c
    PROVE  /\ File!ConstGroup(a.in) \in Seq(Lines)
           /\ \E h : Reads(a, Seen(a, D, E, g, c), File!ConstGroup(a.in),
                           Seen(a, D \cup {p \in C2In : a.in[p].c1 = CONST}, E, h, c))
<1> DEFINE ports == File!Matched(Ins2, a.in, CONST)
           P == D \cup {p \in C2In : a.in[p].c1 = CONST}
           first == <<File!Mark("CONSTGROUP")>>
           body == File!PortLines("const", a.in, ports)
           last == <<File!Mark("END")>>
<1>1. ports \in Seq(C2In) /\ Range(ports) = {p \in C2In : a.in[p].c1 = CONST}
  BY OrderAssumption, MatchedPorts
<1>2. MatchedTo(a.in, ports, CONST)
  BY <1>1 DEF MatchedTo, Range
<1>3. CASE ports = <<>>
  <2>1. File!ConstGroup(a.in) = <<>>
    BY <1>3 DEF File!ConstGroup
  <2>2. P = D
    BY <1>1, <1>3 DEF Range
  <2>3. Reads(a, Seen(a, D, E, g, c), <<>>, Seen(a, P, E, g, c))
    BY <2>2, SeenPartly, ReadsNone
  <2> HIDE DEF P
  <2>4. <<>> \in Seq(Lines)
    OBVIOUS
  <2>5. QED
    BY <2>1, <2>3, <2>4 DEF P
<1>4. CASE ports # <<>>
  <2>1. File!ConstGroup(a.in) = (first \o body) \o last
    BY <1>4 DEF File!ConstGroup
  <2> HIDE DEF ports
  <2>2. first \in Seq(Lines) /\ Reads(a, Seen(a, D, E, g, c), first, Seen(a, D, E, "CONSTGROUP", c))
    BY ReadMark
  <2>3. body \in Seq(Lines)
        /\ Reads(a, Seen(a, D, E, "CONSTGROUP", c), body, Seen(a, P, E, "CONSTGROUP", c))
    BY <1>1, <1>2, ReadConstPorts
  <2>4. last \in Seq(Lines)
        /\ Reads(a, Seen(a, P, E, "CONSTGROUP", c), last, Seen(a, P, E, "END", c))
    BY ReadMark
  <2> HIDE DEF first, body, last, P
  <2>5. first \o body \in Seq(Lines) /\ (first \o body) \o last \in Seq(Lines)
    BY <2>2, <2>3, <2>4, ConcatProperties
  <2>6. Reads(a, Seen(a, D, E, g, c), first \o body, Seen(a, P, E, "CONSTGROUP", c))
    BY <2>2, <2>3, ReadsJoin
  <2>7. Reads(a, Seen(a, D, E, g, c), (first \o body) \o last, Seen(a, P, E, "END", c))
    BY <2>4, <2>5, <2>6, ReadsJoin
  <2>8. QED
    BY <2>1, <2>5, <2>7 DEF P
<1>5. QED
  BY <1>3, <1>4

\* A reader starts with nothing seen.
LEMMA StartSeen == \A a : File!Start = Seen(a, {}, {}, "", None)
<1> SUFFICES ASSUME NEW a PROVE File!Start = Seen(a, {}, {}, "", None)
  OBVIOUS
<1>1. C2In = {Ins2[k] : k \in DOMAIN Ins2} /\ C2Out = {Outs2[k] : k \in DOMAIN Outs2}
  BY OrderAssumption DEF Range
<1>2. File!NoMatch = NoLock
  BY DEF File!NoMatch, NoLock
<1>3. File!Unmatched = [in |-> SeenIn(a, {}), out |-> SeenOut(a, {})]
  BY <1>1, <1>2 DEF File!Unmatched, SeenIn, SeenOut
<1>4. QED
  BY <1>3 DEF File!Start, Seen, State

\* The whole file: what a reader ends with is what the answer means.
LEMMA AllSeen ==
    ASSUME NEW a, IsAnswer(a)
    PROVE  /\ File!writeOutput(a) \in Seq(Lines)
           /\ \E t : /\ Reads(a, File!Start, File!writeOutput(a), t)
                     /\ t.in = Meaning(a).in /\ t.out = Meaning(a).out
<1> DEFINE D == {p \in C2In : a.in[p].c1 \in C1In}
           E == {p \in C2Out : a.out[p].c1 \in C1Out}
           C == D \cup {p \in C2In : a.in[p].c1 = CONST}
           l == InGroups(a)  m == OutGroups(a)  n == File!ConstGroup(a.in)
<1>1. l \in Seq(Lines) /\ m \in Seq(Lines) /\ n \in Seq(Lines)
  BY ReadInGroups, ReadOutGroups, ReadConstGroup
<1>2. PICK g1, c1 : Reads(a, Seen(a, {}, {}, "", None), l, Seen(a, {} \cup D, {}, g1, c1))
  BY ReadInGroups
<1>3. PICK g2, c2 : Reads(a, Seen(a, D, {}, g1, c1), m, Seen(a, D, {} \cup E, g2, c2))
  BY ReadOutGroups
<1>4. PICK g3 : Reads(a, Seen(a, D, E, g2, c2), n, Seen(a, C, E, g3, c2))
  BY ReadConstGroup
<1>5. {} \cup D = D /\ {} \cup E = E
  OBVIOUS
<1>6. File!writeOutput(a) = (l \o m) \o n
  BY DEF File!writeOutput, InGroups, OutGroups
<1>7. SeenIn(a, C) = Meaning(a).in /\ SeenOut(a, E) = Meaning(a).out
  BY DEF SeenIn, SeenOut, Meaning, IsAnswer, InputLock, OutputLock
<1> HIDE DEF l, m, n, C, D, E
<1>8. l \o m \in Seq(Lines) /\ (l \o m) \o n \in Seq(Lines)
  BY <1>1, ConcatProperties
<1>9. Reads(a, Seen(a, {}, {}, "", None), l \o m, Seen(a, D, E, g2, c2))
  BY <1>1, <1>2, <1>3, <1>5, ReadsJoin
<1>10. Reads(a, Seen(a, {}, {}, "", None), (l \o m) \o n, Seen(a, C, E, g3, c2))
  BY <1>1, <1>4, <1>8, <1>9, ReadsJoin
<1>11. Reads(a, File!Start, File!writeOutput(a), Seen(a, C, E, g3, c2))
  BY <1>6, <1>10, StartSeen
<1>12. /\ Seen(a, C, E, g3, c2).in = Meaning(a).in
       /\ Seen(a, C, E, g3, c2).out = Meaning(a).out
  BY <1>7 DEF Seen, State
<1>13. QED
  BY <1>6, <1>8, <1>11, <1>12

\* The file written whole says what the answer says ...
LEMMA WholeFile ==
    ASSUME NEW a, IsAnswer(a)
    PROVE  File!ReadFile(File!writeOutput(a)) = Meaning(a)
<1>1. PICK t : /\ Reads(a, File!Start, File!writeOutput(a), t)
               /\ t.in = Meaning(a).in /\ t.out = Meaning(a).out
  BY AllSeen
<1>2. File!ReadFile(File!writeOutput(a)) = [in |-> t.in, out |-> t.out]
  BY <1>1, AllSeen, ReadFound
<1>3. QED
  BY <1>1, <1>2 DEF Meaning

\* ... and cut off anywhere, nothing else.
LEMMA PartFile ==
    ASSUME NEW a, IsAnswer(a), NEW l \in Seq(Lines), NEW m \in Seq(Lines),
           File!writeOutput(a) = l \o m
    PROVE  Partly(a, File!ReadFile(l))
<1>1. PICK u : Reads(a, File!Start, l \o m, u)
  BY AllSeen
<1>2. PICK t : Reads(a, File!Start, l, t) /\ Partly(a, t)
  BY <1>1, ReadsPart
<1>3. File!ReadFile(l) = [in |-> t.in, out |-> t.out]
  BY <1>2, ReadFound
<1>4. QED
  BY <1>2, <1>3 DEF Partly

\* Before the first answer is recorded there is no file.
LEMMA NoFile ==
    ASSUME NEW a, IsAnswer(a), \A i \in C2In : a.in[i].c1 = None, \A o \in C2Out : a.out[o].c1 = None
    PROVE  File!ReadFile(<<>>) = Meaning(a)
<1>1. Reads(a, File!Start, <<>>, File!Start)
  BY StartSeen, SeenPartly, ReadsNone
<1>2. <<>> \in Seq(Lines)
  OBVIOUS
<1>3. File!ReadFile(<<>>) = [in |-> File!Start.in, out |-> File!Start.out]
  BY <1>1, <1>2, ReadFound
<1>4. File!Start.in = SeenIn(a, {}) /\ File!Start.out = SeenOut(a, {})
  <2>1. File!Start = Seen(a, {}, {}, "", None)
    BY StartSeen
  <2>2. QED
    BY <2>1 DEF Seen, State
<1>5. SeenIn(a, {}) = Meaning(a).in /\ SeenOut(a, {}) = Meaning(a).out
  <2>1. /\ Meaning(a).in = [i \in C2In |-> IF a.in[i].c1 = None THEN NoLock ELSE a.in[i]]
        /\ Meaning(a).out = [o \in C2Out |-> IF a.out[o].c1 = None THEN NoLock ELSE a.out[o]]
    BY DEF Meaning
  <2>2. QED
    BY <2>1 DEF SeenIn, SeenOut
<1>6. QED
  BY <1>3, <1>4, <1>5 DEF Meaning

\* What is on disk and what is left to write are the file of the best answer, or
\* nothing has been matched and nothing written yet.
FileKept ==
    /\ file \in Seq(Lines) /\ todo \in Seq(Lines)
    /\ writer = "none" => todo = <<>>
    /\ \/ file \o todo = File!writeOutput(Best)
       \/ /\ writer = "none" /\ file = <<>>
          /\ \A i \in C2In : maxInputMatch[i].c1 = None
          /\ \A o \in C2Out : maxOutputMatch[o].c1 = None

\* The answer is recorded only when more outputs are matched than before.
LEMMA BestSame == TypeOK /\ [Next]_vars /\ ~Improved => Best' = Best
<1> SUFFICES ASSUME TypeOK, [Next]_vars, ~Improved
             PROVE  maxOutputMatch' = maxOutputMatch /\ maxInputMatch' = maxInputMatch
  BY DEF Best
<1>1. CASE ChooseOutput \/ AllMatched
  <2>1. RecordBest
    BY <1>1 DEF ChooseOutput, AllMatched
  <2>2. QED
    BY <2>1 DEF RecordBest, Improved, bestVars
<1>2. CASE ~(ChooseOutput \/ AllMatched)
  BY <1>2 DEF Next, MatchOutput, MatchInput, Done, vars, bestVars,
        NoMoreOutputs, SkipOutput, EnterOutput, NextOutputCandidate, NextInput, MiterRejects,
        MiterAccepts, NoMoreInputs, SkipInput, BindConst, BindInput, AssignNeg, UnbindConst,
        UnbindInput, UnlockInput, UndoOutput
<1>3. QED
  BY <1>1, <1>2

\* The recorded answer gives every port a match.
LEMMA BestTyped == TypeOK => IsAnswer(Best)
  BY DEF TypeOK, Typed, IsAnswer, Best

\* A step that leaves the answer and the file leaves what they say of each other.
LEMMA FileSame ==
    ASSUME FileKept, Best' = Best, UNCHANGED fileVars
    PROVE  FileKept'
<1>1. maxInputMatch' = maxInputMatch /\ maxOutputMatch' = maxOutputMatch
  BY DEF Best
<1>2. file' = file /\ todo' = todo /\ writer' = writer
  BY DEF fileVars
<1>3. File!writeOutput(Best)' = File!writeOutput(Best')
  OBVIOUS
<1>4. QED
  BY <1>1, <1>2, <1>3 DEF FileKept

\* Opening the file leaves all of it to write.
LEMMA FileOpened ==
    ASSUME NEW a, IsAnswer(a), NEW who, who # "none", File!Open(who, a), Best' = a
    PROVE  FileKept'
<1>1. file' = <<>> /\ todo' = File!writeOutput(a) /\ writer' = who
  BY DEF File!Open, File!Opened
<1>2. File!writeOutput(a) \in Seq(Lines)
  BY AllSeen
<1>3. file' \o todo' = todo' /\ file' \in Seq(Lines) /\ todo' \in Seq(Lines)
  BY <1>1, <1>2, ConcatEmptySeq
<1>4. File!writeOutput(Best)' = todo'
  BY <1>1
<1>5. QED
  BY <1>1, <1>3, <1>4 DEF FileKept

\* FileKept is inductive: the file is opened exactly when the answer changes, and
\* while it is open nothing else runs.
LEMMA FileStep == TypeOK /\ FileKept /\ [PNext]_pipeVars => FileKept'
<1> SUFFICES ASSUME TypeOK, FileKept, [PNext]_pipeVars PROVE FileKept'
  OBVIOUS
<1>1. [Next]_vars
  BY PipelineSteps, SearchSteps
<1>2. TypeOK' /\ IsAnswer(Best) /\ IsAnswer(Best')
  <2>1. TypeOK'
    BY <1>1, TypeStep
  <2>2. IsAnswer(Best')
    BY <2>1 DEF TypeOK, Typed, IsAnswer, Best
  <2>3. QED
    BY <2>1, <2>2, BestTyped
<1>3. CASE SearchOn /\ Improved
  <2>1. File!Open("search", Best')
    BY <1>3 DEF SearchOn
  <2>2. QED
    BY <1>2, <2>1, FileOpened
<1>4. CASE SearchOn /\ ~Improved
  <2>1. UNCHANGED fileVars
    BY <1>4 DEF SearchOn
  <2>2. QED
    BY <1>1, <1>4, <2>1, BestSame, FileSame
<1>5. CASE WriteAgain
  <2>1. File!Open("main", Best) /\ Best' = Best
    BY <1>5 DEF WriteAgain, vars, bestVars, Best
  <2>2. QED
    BY <1>2, <2>1, FileOpened
<1>6. CASE VerifyOn \/ Exit \/ UNCHANGED pipeVars
  <2>1. Best' = Best
    BY <1>6 DEF VerifyOn, Verify, VerifyLocks, VerifyOutput, VerifyCrash, Report, Exit,
                pipeVars, vars, bestVars, Best
  <2>2. UNCHANGED fileVars
    BY <1>6 DEF VerifyOn, Exit, pipeVars
  <2>3. QED
    BY <2>1, <2>2, FileSame
<1>7. CASE WriteFile
  <2>1. /\ todo # <<>> /\ file' = Append(file, Head(todo)) /\ todo' = Tail(todo)
        /\ writer' = writer /\ Best' = Best
    BY <1>7 DEF WriteFile, File!WriteLine, vars, bestVars, Best
  <2>2. file \in Seq(Lines) /\ todo \in Seq(Lines)
    BY DEF FileKept
  <2>3. /\ file' \in Seq(Lines) /\ todo' \in Seq(Lines)
        /\ file' \o todo' = file \o todo
    BY <2>1, <2>2
  <2>4. writer # "none" /\ file \o todo = File!writeOutput(Best)
    BY <2>1 DEF FileKept
  <2>5. File!writeOutput(Best)' = File!writeOutput(Best)
    BY <2>1
  <2>6. QED
    BY <2>1, <2>3, <2>4, <2>5 DEF FileKept
<1>8. CASE CloseFile
  <2>1. /\ writer # "none" /\ todo = <<>> /\ file' = file /\ todo' = todo /\ Best' = Best
    BY <1>8 DEF CloseFile, File!CloseFile, vars, bestVars, Best
  <2>2. File!writeOutput(Best)' = File!writeOutput(Best)
    BY <2>1
  <2>3. QED
    BY <2>1, <2>2 DEF FileKept
<1>9. QED
  BY <1>3, <1>4, <1>5, <1>6, <1>7, <1>8 DEF PNext

\* Then the closed file says what the answer says ...
LEMMA FileBest == TypeOK /\ FileKept => FileIsBest
<1> SUFFICES ASSUME TypeOK, FileKept, writer = "none"
             PROVE  File!ReadFile(file) = Meaning(Best)
  BY DEF FileIsBest
<1> PICK a : a = Best
  OBVIOUS
<1>1. IsAnswer(a)
  BY BestTyped
<1>2. file \in Seq(Lines) /\ todo = <<>>
  BY DEF FileKept
<1>3. file \o todo = file
  BY <1>2, ConcatEmptySeq
<1>4. CASE file = File!writeOutput(a)
  BY <1>1, <1>4, WholeFile
<1>5. CASE /\ file = <<>>
           /\ \A i \in C2In : maxInputMatch[i].c1 = None
           /\ \A o \in C2Out : maxOutputMatch[o].c1 = None
  <2>1. (\A i \in C2In : a.in[i].c1 = None) /\ (\A o \in C2Out : a.out[o].c1 = None)
    BY <1>5 DEF Best
  <2>2. File!ReadFile(<<>>) = Meaning(a)
    BY <1>1, <2>1, NoFile
  <2>3. QED
    BY <1>5, <2>2
<1>6. QED
  BY <1>3, <1>4, <1>5 DEF FileKept

\* ... and an open one a part of it.
LEMMA FileKilled == TypeOK /\ FileKept => KilledFile
<1> SUFFICES ASSUME TypeOK, FileKept PROVE KilledFile
  OBVIOUS
<1> PICK a : a = Best
  OBVIOUS
<1>1. IsAnswer(a)
  BY BestTyped
<1>2. Partly(a, File!ReadFile(file))
  <2>1. CASE File!writeOutput(a) = file \o todo
    BY <1>1, <2>1, PartFile DEF FileKept
  <2>2. CASE writer = "none"
    <3>1. File!ReadFile(file) = Meaning(a)
      BY <2>2, FileBest DEF FileIsBest
    <3>2. QED
      BY <3>1 DEF Partly
  <2>3. QED
    BY <2>1, <2>2 DEF FileKept
<1>3. QED
  BY <1>2 DEF Partly, KilledFile

\* Before the search, nothing is matched and nothing written.
LEMMA FileBegins == PInit => TypeOK /\ FileKept
<1> SUFFICES ASSUME PInit PROVE TypeOK /\ FileKept
  OBVIOUS
<1>1. Init /\ File!FileInit
  BY DEF PInit, VInit
<1>2. TypeOK
  BY <1>1, InitTyped
<1>3. /\ file = <<>> /\ todo = <<>> /\ writer = "none"
      /\ \A i \in C2In : maxInputMatch[i].c1 = None
      /\ \A o \in C2Out : maxOutputMatch[o].c1 = None
  BY <1>1 DEF Init, NoLock, File!FileInit
<1>4. QED
  BY <1>2, <1>3 DEF FileKept

\* Whenever nobody is writing the file, it says what the best answer of the search
\* says: writePartialAns is called at every improvement, truncates, and leaves out no
\* port, whatever is preset and however the matches are grouped.
THEOREM FileUpToDate == PSpec => []FileIsBest
<1>1. TypeOK /\ FileKept /\ [PNext]_pipeVars => (TypeOK /\ FileKept)'
  BY FileStep, PipelineSteps, SearchSteps, TypeStep
<1>2. QED
  BY <1>1, FileBegins, FileBest, PTL DEF PSpec

\* A program that is killed while it writes leaves matches of the best answer only,
\* after whichever line it stops.
THEOREM FileCutOff == PSpec => []KilledFile
<1>1. TypeOK /\ FileKept /\ [PNext]_pipeVars => (TypeOK /\ FileKept)'
  BY FileStep, PipelineSteps, SearchSteps, TypeStep
<1>2. QED
  BY <1>1, FileBegins, FileKilled, PTL DEF PSpec
================================================================================
