--------------------------- MODULE MatchSearchProofs ---------------------------
(***************************************************************************)
(* Theorems about the search, for every value of the constants: types and  *)
(* the shape of the stack; the outputs (OutputPairing); what each step     *)
(* does to the stack of activations, and the locks of the inputs           *)
(* (InputHolding).                                                         *)
(***************************************************************************)
EXTENDS MatchInvariants, SequenceTheorems, FiniteSetTheorems, TLAPS

\* Replacing the last element of a nonempty sequence changes nothing else.
LEMMA LastReplaced ==
    ASSUME NEW S, NEW s \in Seq(S), Len(s) > 0, NEW e \in S
    PROVE  LET t == [s EXCEPT ![Len(s)] = e] IN
           /\ t \in Seq(S)
           /\ Len(t) = Len(s)
           /\ DOMAIN t = 1..Len(s)
           /\ t[Len(s)] = e
           /\ \A n \in 1..(Len(s) - 1) : t[n] = s[n]
<1>1. Len(s) \in 1..Len(s)
  BY LenProperties
<1>2. QED
  BY <1>1, ExceptSeq, LenProperties

\* Dropping the last element of a nonempty sequence changes nothing else.
LEMMA LastDropped ==
    ASSUME NEW S, NEW s \in Seq(S), Len(s) > 0
    PROVE  LET t == SubSeq(s, 1, Len(s) - 1) IN
           /\ t \in Seq(S)
           /\ Len(t) = Len(s) - 1
           /\ DOMAIN t = 1..(Len(s) - 1)
           /\ \A n \in 1..(Len(s) - 1) : t[n] = s[n]
<1> DEFINE m == Len(s) - 1
           t == SubSeq(s, 1, m)
<1>1. m \in Nat /\ m + 1 = Len(s)
  OBVIOUS
<1>2. t \in Seq(S)
  OBVIOUS
<1>3. Len(t) = m
  BY <1>1
<1>4. DOMAIN t = 1..m
  BY <1>2, <1>3
<1>5. ASSUME NEW n \in 1..m PROVE t[n] = s[n]
  OBVIOUS
<1>6. QED
  BY <1>2, <1>3, <1>4, <1>5

\* A new top activation leaves the ones below it alone.
LEMMA TopReplaced ==
    ASSUME Typed, Depth > 0, NEW level \in Level, ReplaceTop(level)
    PROVE  /\ stack' \in Seq(Level)
           /\ Len(stack') = Len(stack)
           /\ stack'[Len(stack)] = level
           /\ \A n \in 1..(Depth - 1) : stack'[n] = stack[n]
  BY LastReplaced DEF Typed, ReplaceTop, Depth

\* The top activation and its last frame have their types.
LEMMA TopTyped ==
    ASSUME Typed, Depth > 0
    PROVE  /\ Depth \in Nat
           /\ Top \in Level
           /\ Frames \in Nat
           /\ Frames > 0 => /\ Frame \in InFrame
                            /\ C2Input \in C2In
           /\ Top.k <= Len(OutCand[Top.out]) => C1Output \in C1Out
           /\ Frames > 0 /\ Frame.j <= Len(InCand[C2Input])
                => C1Input \in C1In \cup {CONST}
<1>1. Depth \in Nat /\ Depth \in 1..Depth
  BY LenProperties DEF Typed, Depth
<1>2. Top \in Level
  BY <1>1, ElementOfSeq DEF Typed, Top, Depth
<1>3. Top.ins \in Seq(InFrame)
  BY <1>2 DEF Level
<1>4. Frames \in Nat
  BY <1>3 DEF Frames
<1>5. Frames > 0 => Frame \in InFrame
  BY <1>3, <1>4 DEF Frame, Frames
<1>6. Frames > 0 => C2Input \in C2In
  BY <1>5 DEF C2Input, InFrame
<1>7. Top.k <= Len(OutCand[Top.out]) => C1Output \in C1Out
  <2>1. OutCand[Top.out] \in Seq(C1Out) /\ Top.k \in Nat \ {0}
    BY <1>2, CandidateAssumption DEF Level
  <2>2. QED
    BY <2>1, ElementOfSeq, LenProperties DEF C1Output
<1>8. Frames > 0 /\ Frame.j <= Len(InCand[C2Input]) => C1Input \in C1In \cup {CONST}
  <2>1. Frames > 0 => InCand[C2Input] \in Seq(C1In \cup {CONST}) /\ Frame.j \in Nat \ {0}
    BY <1>5, <1>6, CandidateAssumption DEF InFrame
  <2>2. QED
    BY <2>1, ElementOfSeq, LenProperties DEF C1Input
<1>9. QED
  BY <1>1, <1>2, <1>4, <1>5, <1>6, <1>7, <1>8

\* A level with another last frame is still a level, and differs only there.
LEMMA LastFrameReplaced ==
    ASSUME NEW level \in Level, NEW n \in Nat, n = Len(level.ins), n > 0,
           NEW f \in InFrame
    PROVE  LET new == [level EXCEPT !.ins[n] = f] IN
           /\ new \in Level
           /\ new = [level EXCEPT !.ins = new.ins]
           /\ Len(new.ins) = n
           /\ new.ins[n] = f
           /\ \A m \in 1..(n - 1) : new.ins[m] = level.ins[m]
<1> DEFINE s == level.ins
           t == [s EXCEPT ![n] = f]
           new == [level EXCEPT !.ins[n] = f]
<1>1. s \in Seq(InFrame)
  BY DEF Level
<1>2. /\ t \in Seq(InFrame)
      /\ Len(t) = n
      /\ t[n] = f
      /\ \A m \in 1..(n - 1) : t[m] = s[m]
  BY <1>1, LastReplaced
<1>3. new = [level EXCEPT !.ins = t]
  BY DEF Level
<1>4. new.ins = t
  BY <1>3 DEF Level
<1>5. new \in Level
  BY <1>2, <1>3 DEF Level
<1>6. QED
  BY <1>2, <1>3, <1>4, <1>5

\* Changing the quota and the use counts of a level leaves a level.
LEMMA LevelChanged ==
    ASSUME NEW level \in Level, NEW q \in Int, NEW u \in [C1In -> Int]
    PROVE  /\ [level EXCEPT !.quota = q] \in Level
           /\ [level EXCEPT !.quota = q, !.used = u] \in Level
<1>1. [level EXCEPT !.quota = q] \in Level
  BY DEF Level
<1>2. [level EXCEPT !.quota = q, !.used = u] \in Level
  BY DEF Level
<1>3. QED
  BY <1>1, <1>2

\* The polarities an input may be tried with.
LEMMA Polarities ==
    ASSUME NEW i \in C2In
    PROVE  ini_neg(i) \in {0, 1} /\ max_neg(i) \in {0, 1}
  BY CandidateAssumption DEF ini_neg, max_neg

\* The shape of the stack after a step that replaces the top activation.
LEMMA NewTopShape ==
    ASSUME TypeOK, Depth > 0, NEW level \in Level, ReplaceTop(level),
           ~findOutputBest', pc' # "done",
           pc' \notin {"output_cand", "input_cand", "neg"} => Settled(level),
           pc' = "output_cand" => level.ins = <<>>,
           pc' \in {"input_cand", "neg"} =>
              /\ Len(level.ins) > 0
              /\ HasCandidate(level)
              /\ \A m \in 1..(Len(level.ins) - 1) : FrameSettled(level.ins[m]),
           pc' = "neg" => LET f == level.ins[Len(level.ins)] IN f.j <= Len(InCand[f.i])
    PROVE  StackShape'
<1>1. /\ Depth' = Depth
      /\ Top' = level
      /\ \A n \in 1..(Depth - 1) : stack'[n] = stack[n]
  BY TopReplaced DEF TypeOK, Depth, Top
<1>2. /\ Frames' = Len(level.ins)
      /\ Frame' = level.ins[Len(level.ins)]
      /\ C2Input' = level.ins[Len(level.ins)].i
  BY <1>1 DEF Frames, Frame, C2Input
<1>3. \A n \in 1..(Depth' - 1) : Settled(stack'[n])
  BY <1>1 DEF TypeOK, StackShape
<1>4. QED
  BY <1>1, <1>2, <1>3 DEF StackShape

\* What filtLockedInput computes has its type.
LEMMA FilterTyped ==
    ASSUME Typed, NEW o2 \in C2Out, NEW o1 \in C1Out
    PROVE  /\ Range(Supp2[o2]) \subseteq C2In
           /\ Locked(o2) \subseteq C2In
           /\ QuotaLeft(o2, o1) \in Int
           /\ \A c : Cardinality(LockedTo(o2, c)) \in Nat
<1>1. Range(Supp2[o2]) \subseteq C2In
  BY CandidateAssumption, LenProperties DEF Range
<1>2. Locked(o2) \subseteq C2In
  BY <1>1 DEF Locked
<1>3. \A S \in SUBSET C2In : IsFiniteSet(S) /\ Cardinality(S) \in Nat
  BY PortsAssumption, FS_Subset, FS_CardinalityType
<1>4. \A c : Cardinality(LockedTo(o2, c)) \in Nat
  BY <1>2, <1>3 DEF LockedTo
<1> DEFINE paired == Locked(o2) \ LockedConst(o2)
           partners == {inputLock[i].c1 : i \in paired}
           dangling == {i \in Range(Supp2[o2]) : Dangling(i, o1)}
<1>5. /\ Cardinality(LockedConst(o2)) \in Nat
      /\ Cardinality(paired) \in Nat
      /\ Cardinality(dangling) \in Nat
  BY <1>1, <1>2, <1>3 DEF LockedConst
<1>6. Cardinality(partners) \in Nat
  <2>1. IsFiniteSet(C1In \cup {CONST, None})
    <3>1. IsFiniteSet({CONST}) /\ IsFiniteSet({None})
      BY FS_Singleton
    <3>2. IsFiniteSet({CONST} \cup {None})
      BY <3>1, FS_Union
    <3>3. {CONST} \cup {None} = {CONST, None}
      OBVIOUS
    <3>4. QED
      BY <3>2, <3>3, PortsAssumption, FS_Union
  <2>2. partners \subseteq C1In \cup {CONST, None}
    BY <1>2 DEF Typed, InputLock
  <2>3. QED
    BY <2>1, <2>2, FS_Subset, FS_CardinalityType
<1>7. Len(Supp2[o2]) \in Nat
  BY CandidateAssumption, LenProperties
<1>8. Cardinality(Supp1[o1]) \in Nat
  BY CandidateAssumption, PortsAssumption, FS_Subset, FS_CardinalityType
<1>9. QuotaLeft(o2, o1) \in Int
  BY <1>5, <1>6, <1>7, <1>8 DEF QuotaLeft
<1>10. QED
  BY <1>1, <1>2, <1>4, <1>9

\* A candidate of an input lies on a bus for every bus of the input.
LEMMA BusPairsTyped ==
    ASSUME NEW i \in C2In, NEW c \in C1In, c \in Range(InCand[i])
    PROVE  BusPairs(i, c) \subseteq Bus2 \X Bus1
<1>1. BusIdx2[i] \in Bus2 /\ BusIdx1[c] \in Bus1
  BY BusAssumption
<1>2. BusIndices2[i] \in Seq(Bus2) /\ BusIndices1[c] \in Seq(Bus1)
  BY BusAssumption
<1>3. ASSUME Len(BusIndices2[i]) > 1, NEW m \in DOMAIN BusIndices2[i]
      PROVE  BusIndices2[i][m] \in Bus2 /\ BusIndices1[c][m] \in Bus1
  <2>1. Len(BusIndices1[c]) >= Len(BusIndices2[i])
    BY <1>3, CandidateAssumption
  <2>2. m \in 1..Len(BusIndices2[i]) /\ m \in 1..Len(BusIndices1[c])
    BY <1>2, <2>1, LenProperties
  <2>3. QED
    BY <1>2, <2>2, ElementOfSeq
<1>4. QED
  BY <1>1, <1>3 DEF BusPairs

\* Linking and releasing buses keeps the maps typed.
LEMMA LinkTyped ==
    ASSUME Typed, NEW pairs \in SUBSET (Bus2 \X Bus1), LinkBuses(pairs)
    PROVE  /\ bus_2_to_1' \in [Bus2 -> Bus1 \cup {None}]
           /\ bus_1_to_2' \in [Bus1 -> Bus2 \cup {None}]
<1> DEFINE free == {p \in pairs : Unbound(p[1], p[2])}
<1>1. ASSUME NEW b \in Bus2, \E p \in free : p[1] = b
      PROVE  (CHOOSE p \in free : p[1] = b)[2] \in Bus1
  BY <1>1
<1>2. ASSUME NEW b \in Bus1, \E p \in free : p[2] = b
      PROVE  (CHOOSE p \in free : p[2] = b)[1] \in Bus2
  BY <1>2
<1>3. bus_2_to_1' \in [Bus2 -> Bus1 \cup {None}]
  BY <1>1 DEF LinkBuses, Typed
<1>4. bus_1_to_2' \in [Bus1 -> Bus2 \cup {None}]
  BY <1>2 DEF LinkBuses, Typed
<1>5. QED
  BY <1>3, <1>4

\* Releasing a bus keeps the types.
LEMMA ReleaseTyped ==
    ASSUME Typed, NEW pairs, NEW count \in [Bus2 -> Int], ReleaseBuses(pairs, count)
    PROVE  /\ bus_2_to_1' \in [Bus2 -> Bus1 \cup {None}]
           /\ bus_1_to_2' \in [Bus1 -> Bus2 \cup {None}]
           /\ bus_2_to_1_count' \in [Bus2 -> Int]
<1>1. bus_2_to_1' \in [Bus2 -> Bus1 \cup {None}]
  BY DEF ReleaseBuses, Typed
<1>2. bus_1_to_2' \in [Bus1 -> Bus2 \cup {None}]
  BY DEF ReleaseBuses, Typed
<1>3. bus_2_to_1_count' \in [Bus2 -> Int]
  BY DEF ReleaseBuses
<1>4. QED
  BY <1>1, <1>2, <1>3

\* The counters of a commit and of its undo stay integers.
LEMMA CommitTyped ==
    ASSUME Typed, NEW level \in Level, NEW d \in {-1, 1}, NEW c \in C1Out
    PROVE  /\ CommitCount(level, d) \in [Bus2 -> Int]
           /\ RecordLocks(level, d) \in [C2In -> Int]
           /\ OutputLockCount(c, d) \in [C1Out -> Int]
<1>1. ASSUME NEW b \in Bus2 PROVE RecordedOn(b, level.locked) \in Int
  <2>1. {i \in level.locked : inputLock[i].c1 # CONST /\ BusIdx2[i] = b} \subseteq C2In
    BY DEF Level
  <2>2. QED
    BY <2>1, PortsAssumption, FS_Subset, FS_CardinalityType DEF RecordedOn
<1>2. ASSUME NEW b \in Bus2
      PROVE  bus_2_to_1_count[b]
               + d * (RecordedOn(b, level.locked) + IF b = BusIdx2[level.out] THEN 1 ELSE 0)
                 \in Int
  BY <1>1 DEF Typed
<1>3. CommitCount(level, d) \in [Bus2 -> Int]
  BY <1>2 DEF CommitCount
<1>4. RecordLocks(level, d) \in [C2In -> Int]
  BY DEF RecordLocks, Typed
<1>5. OutputLockCount(c, d) \in [C1Out -> Int]
  BY DEF OutputLockCount, Typed
<1>6. QED
  BY <1>3, <1>4, <1>5

\* The miter returns 0, 1 or 2.
LEMMA MiterTyped ==
    \A o1, o2, lock : MiterResults(o1, o2, lock) \subseteq {0, 1, 2}
<1>1. \A o1, o2, lock, patterns : MiterType(o1, o2, lock, patterns) \in {0, 1, 2}
  BY DEF MiterType
<1>2. QED
  BY <1>1 DEF MiterResults

--------------------------------------------------------------------------------

\* The initial state of new_boolean_match is typed.
LEMMA InitTyped == Init => TypeOK
<1> SUFFICES ASSUME Init PROVE TypeOK
  OBVIOUS
<1> USE DEF Init
<1>1. stack = <<>> /\ stack \in Seq(Level) /\ Depth = 0
  BY EmptySeq DEF Depth
<1>2. NoLock \in InputLock /\ NoLock \in OutputLock
  BY DEF NoLock, InputLock, OutputLock
<1>3. /\ inputLock \in [C2In -> InputLock] /\ maxInputMatch \in [C2In -> InputLock]
      /\ outputLock \in [C2Out -> OutputLock] /\ maxOutputMatch \in [C2Out -> OutputLock]
  BY <1>2
<1>4. Typed
  <2>1. /\ inputLockCount \in [C2In -> Int] /\ c1_OutputLockCount \in [C1Out -> Int]
        /\ c1_inputMatchCount \in [C1In -> Int] /\ bus_2_to_1_count \in [Bus2 -> Int]
    OBVIOUS
  <2>2. /\ bus_2_to_1 \in [Bus2 -> Bus1 \cup {None}]
        /\ bus_1_to_2 \in [Bus1 -> Bus2 \cup {None}]
    OBVIOUS
  <2>3. mod \in Netlists /\ maxOutputDepth \in Int /\ pc = "match_output"
    OBVIOUS
  <2>4. findOutputBest \in BOOLEAN
    OBVIOUS
  <2> HIDE DEF Init
  <2>5. QED
    BY <1>1, <1>3, <2>1, <2>2, <2>3, <2>4 DEF Typed
<1>5. StackShape
  BY <1>1 DEF StackShape
<1>6. QED
  BY <1>4, <1>5 DEF TypeOK

\* Steps of match_output.
LEMMA MatchOutputTyped == TypeOK /\ MatchOutput => TypeOK'
<1> SUFFICES ASSUME TypeOK, MatchOutput PROVE Typed' /\ StackShape'
  BY DEF TypeOK
<1> USE DEF inputVars, outputVars, busVars, bestVars
<1>1. Typed /\ StackShape
  BY DEF TypeOK
<1>2. Depth \in Nat
  BY <1>1, LenProperties DEF Typed, Depth
<1>3. pc # "done" => ~findOutputBest
  BY <1>1 DEF StackShape, Typed
<1>4. RecordBest => /\ maxOutputDepth' \in Int
                    /\ maxOutputMatch' \in [C2Out -> OutputLock]
                    /\ maxInputMatch' \in [C2In -> InputLock]
  BY <1>1, <1>2 DEF RecordBest, Typed
<1>5. CASE AllMatched
  <2>1. Typed'
    BY <1>1, <1>4, <1>5 DEF AllMatched, Typed
  <2>2. StackShape'
    BY <1>1, <1>5 DEF AllMatched, StackShape, Depth, Top, Frames, Frame, C2Input
  <2>3. QED
    BY <2>1, <2>2
<1>6. CASE ChooseOutput
  <2>1. PICK o \in C2Out : stack' = Append(stack, AtCandidate(o, 1))
    BY <1>6 DEF ChooseOutput
  <2>2. AtCandidate(o, 1) \in Level /\ AtCandidate(o, 1).ins = <<>>
    <3>1. <<>> \in Seq(InFrame)
      BY EmptySeq
    <3>2. QED
      BY <3>1 DEF AtCandidate, Level
  <2>3. /\ stack' \in Seq(Level)
        /\ Depth' = Depth + 1
        /\ Top' = AtCandidate(o, 1)
        /\ \A n \in 1..Depth : stack'[n] = stack[n]
    BY <1>1, <2>1, <2>2, AppendProperties DEF Typed, Depth, Top
  <2>4. Typed'
    BY <1>1, <1>4, <1>6, <2>3 DEF ChooseOutput, Typed
  <2>5. \A n \in 1..Depth : Settled(stack[n])
    BY <1>1, <1>2, <1>6 DEF ChooseOutput, StackShape, Top
  <2>6. \A n \in 1..(Depth' - 1) : Settled(stack'[n])
    BY <1>2, <2>3, <2>5
  <2>7. /\ pc' = "output_cand" /\ Depth' > 0
        /\ ~findOutputBest' /\ Top'.ins = <<>>
    BY <1>2, <1>3, <1>6, <2>2, <2>3 DEF ChooseOutput
  <2>8. StackShape'
    BY <2>6, <2>7 DEF StackShape
  <2>9. QED
    BY <2>4, <2>8
<1>7. CASE NoMoreOutputs
  <2>1. Depth > 0
    BY <1>1, <1>7 DEF NoMoreOutputs, StackShape
  <2>2. /\ stack' \in Seq(Level)
        /\ Depth' = Depth - 1
        /\ \A n \in 1..(Depth - 1) : stack'[n] = stack[n]
    BY <1>1, <1>7, <2>1, LastDropped DEF NoMoreOutputs, Typed, Depth
  <2>3. Typed'
    BY <1>1, <1>7, <2>2 DEF NoMoreOutputs, Typed
  <2>4. \A n \in 1..Depth' : Settled(stack'[n])
    BY <1>1, <2>2 DEF StackShape
  <2>5. StackShape'
    BY <1>2, <1>3, <1>7, <2>1, <2>2, <2>4 DEF NoMoreOutputs, StackShape, Top
  <2>6. QED
    BY <2>3, <2>5
<1>8. ASSUME pc \notin {"match_output", "done"}
      PROVE  Depth > 0 /\ Top \in Level
  BY <1>1, <1>8, TopTyped DEF StackShape
<1>9. ASSUME pc \notin {"match_output", "done"}
      PROVE  /\ AtCandidate(Top.out, Top.k + 1) \in Level
             /\ AtCandidate(Top.out, Top.k + 1).ins = <<>>
  <2>1. <<>> \in Seq(InFrame)
    BY EmptySeq
  <2>2. Top.out \in C2Out /\ Top.k + 1 \in Nat \ {0}
    BY <1>8, <1>9 DEF Level
  <2>3. QED
    BY <2>1, <2>2 DEF AtCandidate, Level
<1>10. CASE SkipOutput
  <2>1. Depth > 0 /\ ReplaceTop(AtCandidate(Top.out, Top.k + 1))
    BY <1>8, <1>10 DEF SkipOutput
  <2>2. Typed'
    BY <1>1, <1>9, <1>10, <2>1, TopReplaced DEF SkipOutput, Typed
  <2>3. StackShape'
    BY <1>3, <1>9, <1>10, <2>1, NewTopShape DEF SkipOutput
  <2>4. QED
    BY <2>2, <2>3
<1>11. CASE EnterOutput
  <2> DEFINE level == [Top EXCEPT
           !.quota = QuotaLeft(Top.out, C1Output),
           !.used = [c \in C1In |-> Cardinality(LockedTo(Top.out, c))],
           !.todo = {i \in Range(Supp2[Top.out]) :
                        inputLock[i].c1 = None /\ ~Dangling(i, C1Output)},
           !.locked = Locked(Top.out)]
  <2>1. Depth > 0 /\ Top \in Level /\ ReplaceTop(level)
    BY <1>8, <1>11 DEF EnterOutput
  <2>2. C1Output \in C1Out /\ Top.out \in C2Out
    BY <1>1, <1>11, <2>1, TopTyped DEF EnterOutput, Level
  <2>3. /\ Range(Supp2[Top.out]) \subseteq C2In
        /\ Locked(Top.out) \subseteq C2In
        /\ QuotaLeft(Top.out, C1Output) \in Int
        /\ \A c \in C1In : Cardinality(LockedTo(Top.out, c)) \in Int
    BY <1>1, <2>2, FilterTyped
  <2>4. level \in Level
    BY <2>1, <2>3 DEF Level
  <2>5. level.ins = <<>> /\ HasCandidate(level)
    BY <1>1, <1>11, <2>1 DEF EnterOutput, StackShape, Level, HasCandidate
  <2>6. Settled(level)
    BY <2>5 DEF Settled
  <2>7. Typed'
    BY <1>1, <1>11, <2>1, <2>4, TopReplaced DEF EnterOutput, Typed
  <2>8. StackShape'
    BY <1>3, <1>11, <2>1, <2>4, <2>6, NewTopShape DEF EnterOutput
  <2>9. QED
    BY <2>7, <2>8
<1>12. CASE NextOutputCandidate
  <2>1. Depth > 0 /\ ReplaceTop(AtCandidate(Top.out, Top.k + 1))
    BY <1>8, <1>12 DEF NextOutputCandidate
  <2>2. Typed'
    BY <1>1, <1>9, <1>12, <2>1, TopReplaced DEF NextOutputCandidate, Typed
  <2>3. StackShape'
    BY <1>3, <1>9, <1>12, <2>1, NewTopShape DEF NextOutputCandidate
  <2>4. QED
    BY <2>2, <2>3
<1>13. QED
  BY <1>5, <1>6, <1>7, <1>10, <1>11, <1>12 DEF MatchOutput

\* A step that moves the last frame to its next candidate keeps the types.
LEMMA NextCandidateTyped ==
    ASSUME TypeOK, Depth > 0, Frames > 0, HasCandidate(Top),
           \A m \in 1..(Frames - 1) : FrameSettled(Top.ins[m]),
           NEW level \in Level, level.ins = Top.ins, level.out = Top.out, level.k = Top.k,
           ReplaceTop(NextCandidate(level)), ~findOutputBest', pc' = "input_cand"
    PROVE  stack' \in Seq(Level) /\ StackShape'
<1> DEFINE f == [i |-> C2Input, j |-> Frame.j + 1, neg |-> ini_neg(C2Input)]
           new == [level EXCEPT !.ins[Frames] = f]
<1>1. Frames \in Nat /\ Frame \in InFrame /\ C2Input \in C2In
  BY TopTyped DEF TypeOK
<1>2. f \in InFrame
  BY <1>1, Polarities DEF InFrame
<1>3. Frames = Len(level.ins)
  BY DEF Frames
<1>4. /\ new \in Level
      /\ new = [level EXCEPT !.ins = new.ins]
      /\ Len(new.ins) = Frames
      /\ \A m \in 1..(Frames - 1) : new.ins[m] = level.ins[m]
  BY <1>1, <1>2, <1>3, LastFrameReplaced
<1>5. new.out = Top.out /\ new.k = Top.k
  BY <1>4 DEF Level
<1>6. ReplaceTop(new)
  BY DEF NextCandidate
<1> HIDE DEF new
<1>7. stack' \in Seq(Level)
  BY <1>4, <1>6, TopReplaced DEF TypeOK
<1>8. HasCandidate(new) /\ \A m \in 1..(Frames - 1) : FrameSettled(new.ins[m])
  BY <1>4, <1>5 DEF HasCandidate
<1>9. StackShape'
  BY <1>4, <1>6, <1>8, NewTopShape
<1>10. QED
  BY <1>7, <1>9

\* Steps of match_input.
LEMMA MatchInputTyped == TypeOK /\ MatchInput => TypeOK'
<1> SUFFICES ASSUME TypeOK, MatchInput PROVE Typed' /\ StackShape'
  BY DEF TypeOK
<1> USE DEF inputVars, outputVars, busVars, bestVars
<1>1. Typed /\ StackShape
  BY DEF TypeOK
<1>2. /\ pc \in {"match_input", "input_cand", "neg", "input_back", "output_back"}
      /\ ~findOutputBest
  BY <1>1 DEF MatchInput, NextInput, MiterRejects, MiterAccepts, NoMoreInputs, SkipInput,
              BindConst, BindInput, AssignNeg, UnbindConst, UnbindInput, UnlockInput,
              UndoOutput, StackShape, Typed
<1>3. Depth > 0
  BY <1>1, <1>2 DEF StackShape
<1>4. /\ Depth \in Nat
      /\ Top \in Level
      /\ Frames \in Nat
      /\ Frames > 0 => Frame \in InFrame /\ C2Input \in C2In
      /\ Top.k <= Len(OutCand[Top.out]) => C1Output \in C1Out
  BY <1>1, <1>3, TopTyped
<1>5. /\ Top.ins \in Seq(InFrame) /\ Len(Top.ins) = Frames
      /\ Top.quota \in Int /\ Top.used \in [C1In -> Int]
  BY <1>4 DEF Level, Frames
<1>6. HasCandidate(Top) /\ C1Output \in C1Out
  BY <1>1, <1>2, <1>3, <1>4 DEF StackShape, Settled, HasCandidate
<1>7. CASE NextInput
  <2>1. PICK i \in Top.todo :
           ReplaceTop([Top EXCEPT !.todo = @ \ {i},
                         !.ins = Append(@, [i |-> i, j |-> 1, neg |-> ini_neg(i)])])
    BY <1>7 DEF NextInput
  <2> DEFINE f == [i |-> i, j |-> 1, neg |-> ini_neg(i)]
             level == [Top EXCEPT !.todo = @ \ {i}, !.ins = Append(@, f)]
  <2>2. i \in C2In
    BY <1>4 DEF Level
  <2>3. f \in InFrame
    BY <2>2, Polarities DEF InFrame
  <2>4. /\ Append(Top.ins, f) \in Seq(InFrame)
        /\ Len(Append(Top.ins, f)) = Frames + 1
        /\ \A m \in 1..Frames : Append(Top.ins, f)[m] = Top.ins[m]
    BY <1>5, <2>3, AppendProperties
  <2>5. /\ level \in Level
        /\ level.ins = Append(Top.ins, f)
        /\ level.out = Top.out /\ level.k = Top.k
    BY <1>4, <2>4 DEF Level
  <2>6. Settled(Top)
    BY <1>1, <1>3, <1>7 DEF NextInput, StackShape
  <2>7. \A m \in 1..Frames : FrameSettled(level.ins[m])
    BY <1>5, <2>4, <2>5, <2>6, LenProperties DEF Settled
  <2>8. HasCandidate(level)
    BY <1>6, <2>5 DEF HasCandidate
  <2> HIDE DEF level
  <2>9. Typed'
    BY <1>1, <1>3, <1>7, <2>1, <2>5, TopReplaced DEF NextInput, Typed, level
  <2>10. /\ ReplaceTop(level)
         /\ pc' = "input_cand" /\ ~findOutputBest'
         /\ Len(level.ins) > 0 /\ Len(level.ins) - 1 = Frames
    BY <1>2, <1>4, <1>7, <2>1, <2>4, <2>5 DEF NextInput, level
  <2>11. StackShape'
    BY <1>3, <2>5, <2>7, <2>8, <2>10, NewTopShape
  <2>12. QED
    BY <2>9, <2>11
<1>8. CASE MiterRejects
  <2>1. Typed'
    BY <1>1, <1>8 DEF MiterRejects, Typed
  <2>2. StackShape'
    BY <1>1, <1>2, <1>3, <1>8 DEF MiterRejects, StackShape, Depth, Top
  <2>3. QED
    BY <2>1, <2>2
<1>9. CASE MiterAccepts
  <2>1. PICK r \in {1, 2} :
           outputLock' = [outputLock EXCEPT ![Top.out] = [c1 |-> C1Output, neg |-> r - 1]]
    <3>1. MiterResults(C1Output, Top.out, inputLock) \ {0} \subseteq {1, 2}
      BY MiterTyped
    <3>2. QED
      BY <1>9, <3>1 DEF MiterAccepts
  <2>2. Top.out \in C2Out
    BY <1>4 DEF Level
  <2>3. [c1 |-> C1Output, neg |-> r - 1] \in OutputLock
    BY <1>6 DEF OutputLock
  <2>4. outputLock' \in [C2Out -> OutputLock]
    BY <1>1, <2>1, <2>3 DEF Typed
  <2>5. <<BusIdx2[Top.out], BusIdx1[C1Output]>> \in Bus2 \X Bus1
    BY <1>6, <2>2, BusAssumption
  <2>6. /\ bus_2_to_1' \in [Bus2 -> Bus1 \cup {None}]
        /\ bus_1_to_2' \in [Bus1 -> Bus2 \cup {None}]
    BY <1>1, <1>9, <2>5, LinkTyped DEF MiterAccepts
  <2>7. /\ bus_2_to_1_count' \in [Bus2 -> Int]
        /\ inputLockCount' \in [C2In -> Int]
        /\ c1_OutputLockCount' \in [C1Out -> Int]
    BY <1>1, <1>4, <1>6, <1>9, CommitTyped DEF MiterAccepts
  <2>8. Typed'
    BY <1>1, <1>9, <2>4, <2>6, <2>7 DEF MiterAccepts, Typed
  <2>9. StackShape'
    BY <1>1, <1>2, <1>3, <1>9 DEF MiterAccepts, StackShape, Depth, Top
  <2>10. QED
    BY <2>8, <2>9
<1>10. CASE NoMoreInputs
  <2> DEFINE below == SubSeq(Top.ins, 1, Frames - 1)
             level == [Top EXCEPT !.todo = @ \cup {C2Input}, !.ins = below]
  <2>1. Frames > 0 /\ \A m \in 1..(Frames - 1) : FrameSettled(Top.ins[m])
    BY <1>1, <1>10 DEF NoMoreInputs, StackShape
  <2>2. /\ below \in Seq(InFrame)
        /\ DOMAIN below = 1..(Frames - 1)
        /\ \A m \in 1..(Frames - 1) : below[m] = Top.ins[m]
    BY <1>5, <2>1, LastDropped
  <2>3. level \in Level /\ level.ins = below /\ level.out = Top.out /\ level.k = Top.k
    BY <1>4, <2>1, <2>2 DEF Level
  <2>4. Settled(level)
    BY <1>6, <2>1, <2>2, <2>3 DEF Settled, HasCandidate
  <2>5. ReplaceTop(level) /\ pc' = "input_back" /\ ~findOutputBest'
    BY <1>2, <1>10 DEF NoMoreInputs
  <2> HIDE DEF level
  <2>6. Typed'
    BY <1>1, <1>3, <1>10, <2>3, <2>5, TopReplaced DEF NoMoreInputs, Typed
  <2>7. StackShape'
    BY <1>3, <2>3, <2>4, <2>5, NewTopShape
  <2>8. QED
    BY <2>6, <2>7
<1>11. ASSUME pc \in {"input_cand", "neg"}
       PROVE  /\ Frames > 0
              /\ \A m \in 1..(Frames - 1) : FrameSettled(Top.ins[m])
  BY <1>1, <1>11 DEF StackShape
<1>12. CASE SkipInput
  <2>1. stack' \in Seq(Level) /\ StackShape'
    BY <1>2, <1>3, <1>4, <1>6, <1>11, <1>12, NextCandidateTyped DEF SkipInput
  <2>2. Typed'
    BY <1>1, <1>12, <2>1 DEF SkipInput, Typed
  <2>3. QED
    BY <2>1, <2>2
<1>13. ASSUME NEW level \in Level, level.ins = Top.ins, level.out = Top.out,
              level.k = Top.k, ReplaceTop(level), ~findOutputBest', pc' = "neg",
              pc = "input_cand", Frame.j <= Len(InCand[C2Input])
       PROVE  stack' \in Seq(Level) /\ StackShape'
  <2>1. stack' \in Seq(Level)
    BY <1>1, <1>3, <1>13, TopReplaced
  <2>2. /\ Len(level.ins) = Frames
        /\ level.ins[Len(level.ins)] = Frame
        /\ HasCandidate(level)
    BY <1>5, <1>6, <1>13 DEF Frame, HasCandidate
  <2>3. /\ Len(level.ins) > 0
        /\ \A m \in 1..(Len(level.ins) - 1) : FrameSettled(level.ins[m])
        /\ LET f == level.ins[Len(level.ins)] IN f.j <= Len(InCand[f.i])
    BY <1>11, <1>13, <2>2 DEF C2Input
  <2>4. StackShape'
    BY <1>3, <1>13, <2>2, <2>3, NewTopShape
  <2>5. QED
    BY <2>1, <2>4
<1>14. CASE BindConst
  <2> DEFINE q == Top.quota - 1
             level == [Top EXCEPT !.quota = q]
  <2>1. level \in Level
    <3>1. q \in Int
      BY <1>5
    <3> HIDE DEF q
    <3>2. QED
      BY <1>4, <1>5, <3>1, LevelChanged
  <2>2. level.ins = Top.ins /\ level.out = Top.out /\ level.k = Top.k
    BY <1>4 DEF Level
  <2>3. stack' \in Seq(Level) /\ StackShape'
    BY <1>2, <1>13, <1>14, <2>1, <2>2 DEF BindConst
  <2>4. Typed'
    BY <1>1, <1>14, <2>3 DEF BindConst, Typed
  <2>5. QED
    BY <2>3, <2>4
<1>15. ASSUME pc \in {"input_cand", "neg"}, Frame.j <= Len(InCand[C2Input]),
              C1Input # CONST
       PROVE  C1Input \in C1In /\ BusPairs(C2Input, C1Input) \subseteq Bus2 \X Bus1
  <2>1. Frames > 0 /\ C2Input \in C2In /\ C1Input \in C1In
    BY <1>1, <1>3, <1>4, <1>11, <1>15, TopTyped
  <2>2. InCand[C2Input] \in Seq(C1In \cup {CONST}) /\ Frame.j \in Nat \ {0}
    BY <1>4, <2>1, CandidateAssumption DEF InFrame
  <2>3. Frame.j \in DOMAIN InCand[C2Input]
    BY <1>15, <2>2, LenProperties
  <2>4. C1Input \in Range(InCand[C2Input])
    BY <2>3 DEF C1Input, Range
  <2>5. QED
    BY <2>1, <2>4, BusPairsTyped
<1>16. CASE BindInput
  <2> DEFINE d == IF Top.used[C1Input] # 0 THEN 1 ELSE 0
             level == [Top EXCEPT !.quota = @ - d, !.used[C1Input] = @ + 1]
             used == [Top.used EXCEPT ![C1Input] = @ + 1]
             pairs == BusPairs(C2Input, C1Input)
  <2>1. C1Input \in C1In /\ pairs \subseteq Bus2 \X Bus1
    BY <1>15, <1>16 DEF BindInput
  <2>2. level \in Level
    <3>1. used \in [C1In -> Int] /\ d \in Int
      BY <1>5, <2>1
    <3>2. Top.quota - d \in Int
      BY <1>5, <3>1
    <3>3. level = [Top EXCEPT !.quota = Top.quota - d, !.used = used]
      BY <1>4 DEF Level
    <3> HIDE DEF used, d, level
    <3>4. QED
      BY <1>4, <3>1, <3>2, <3>3, LevelChanged
  <2>3. level.ins = Top.ins /\ level.out = Top.out /\ level.k = Top.k
    BY <1>4 DEF Level
  <2>4. ReplaceTop(level) /\ LinkBuses(pairs)
    BY <1>16 DEF BindInput
  <2>5. stack' \in Seq(Level) /\ StackShape'
    BY <1>2, <1>13, <1>16, <2>2, <2>3, <2>4 DEF BindInput
  <2>6. /\ bus_2_to_1' \in [Bus2 -> Bus1 \cup {None}]
        /\ bus_1_to_2' \in [Bus1 -> Bus2 \cup {None}]
    BY <1>1, <2>1, <2>4, LinkTyped
  <2>7. bus_2_to_1_count' \in [Bus2 -> Int]
    BY <1>1, <1>16 DEF BindInput, Typed
  <2>8. c1_inputMatchCount' \in [C1In -> Int]
    BY <1>1, <1>16, <2>1 DEF BindInput, Typed
  <2>9. Typed'
    BY <1>1, <1>16, <2>5, <2>6, <2>7, <2>8 DEF BindInput, Typed
  <2>10. QED
    BY <2>5, <2>9
<1>17. CASE AssignNeg
  <2>1. /\ Frames > 0 /\ C2Input \in C2In
        /\ C1Input \in C1In \cup {CONST}
        /\ Frame.j <= Len(InCand[C2Input])
    BY <1>1, <1>3, <1>4, <1>11, <1>17, TopTyped DEF AssignNeg, StackShape
  <2>2. Frame.neg \in {0, 1}
    <3>1. max_neg(C2Input) \in {0, 1} /\ Frame.neg \in 0..2
      BY <1>4, <2>1, Polarities DEF InFrame
    <3>2. QED
      BY <1>17, <3>1 DEF AssignNeg
  <2>3. FrameSettled(Frame)
    BY <2>1, <2>2 DEF FrameSettled, C2Input
  <2>4. Settled(Top)
    <3>1. ASSUME NEW m \in DOMAIN Top.ins PROVE FrameSettled(Top.ins[m])
      <4>1. m \in 1..(Frames - 1) \/ m = Frames
        BY <1>4, <1>5, LenProperties
      <4>2. QED
        BY <1>11, <1>17, <2>3, <4>1 DEF AssignNeg, Frame
    <3>2. QED
      BY <1>6, <3>1 DEF Settled
  <2>5. inputLock' \in [C2In -> InputLock]
    <3>1. [c1 |-> C1Input, neg |-> Frame.neg] \in InputLock
      BY <2>1, <2>2 DEF InputLock
    <3>2. QED
      BY <1>1, <1>17, <3>1 DEF AssignNeg, Typed
  <2>6. inputLockCount' \in [C2In -> Int]
    BY <1>1, <1>17, <2>1 DEF AssignNeg, Typed
  <2>7. Typed'
    BY <1>1, <1>17, <2>5, <2>6 DEF AssignNeg, Typed
  <2>8. StackShape'
    BY <1>1, <1>2, <1>3, <1>17, <2>4 DEF AssignNeg, StackShape, Depth, Top
  <2>9. QED
    BY <2>7, <2>8
<1>18. CASE UnbindConst
  <2> DEFINE q == Top.quota + 1
             level == [Top EXCEPT !.quota = q]
  <2>1. level \in Level
    <3>1. q \in Int
      BY <1>5
    <3> HIDE DEF q
    <3>2. QED
      BY <1>4, <1>5, <3>1, LevelChanged
  <2>2. level.ins = Top.ins /\ level.out = Top.out /\ level.k = Top.k
    BY <1>4 DEF Level
  <2>3. ReplaceTop(NextCandidate(level)) /\ ~findOutputBest' /\ pc' = "input_cand"
    BY <1>2, <1>18 DEF UnbindConst
  <2>4. Frames > 0 /\ \A m \in 1..(Frames - 1) : FrameSettled(Top.ins[m])
    BY <1>11, <1>18 DEF UnbindConst
  <2> HIDE DEF level
  <2>5. stack' \in Seq(Level) /\ StackShape'
    BY <1>3, <1>6, <2>1, <2>2, <2>3, <2>4, NextCandidateTyped
  <2>6. Typed'
    BY <1>1, <1>18, <2>5 DEF UnbindConst, Typed
  <2>7. QED
    BY <2>5, <2>6
<1>19. CASE UnbindInput
  <2> DEFINE d == IF Top.used[C1Input] > 1 THEN 1 ELSE 0
             level == [Top EXCEPT !.quota = @ + d, !.used[C1Input] = @ - 1]
             used == [Top.used EXCEPT ![C1Input] = @ - 1]
             pairs == BusPairs(C2Input, C1Input)
             count == [b \in Bus2 |->
                bus_2_to_1_count[b] - IF \E p \in pairs : p[1] = b THEN 1 ELSE 0]
  <2>1. C1Input \in C1In
    BY <1>1, <1>15, <1>19 DEF UnbindInput, StackShape
  <2>2. level \in Level
    <3>1. used \in [C1In -> Int] /\ d \in Int
      BY <1>5, <2>1
    <3>2. Top.quota + d \in Int
      BY <1>5, <3>1
    <3>3. level = [Top EXCEPT !.quota = Top.quota + d, !.used = used]
      BY <1>4 DEF Level
    <3> HIDE DEF used, d, level
    <3>4. QED
      BY <1>4, <3>1, <3>2, <3>3, LevelChanged
  <2>3. level.ins = Top.ins /\ level.out = Top.out /\ level.k = Top.k
    BY <1>4 DEF Level
  <2>4. /\ ReplaceTop(NextCandidate(level)) /\ ~findOutputBest' /\ pc' = "input_cand"
        /\ ReleaseBuses(pairs, count)
    BY <1>2, <1>19 DEF UnbindInput
  <2>5. Frames > 0 /\ \A m \in 1..(Frames - 1) : FrameSettled(Top.ins[m])
    BY <1>11, <1>19 DEF UnbindInput
  <2>6. count \in [Bus2 -> Int]
    BY <1>1 DEF Typed
  <2> HIDE DEF level, count
  <2>7. stack' \in Seq(Level) /\ StackShape'
    BY <1>3, <1>6, <2>2, <2>3, <2>4, <2>5, NextCandidateTyped
  <2>8. /\ bus_2_to_1' \in [Bus2 -> Bus1 \cup {None}]
        /\ bus_1_to_2' \in [Bus1 -> Bus2 \cup {None}]
        /\ bus_2_to_1_count' \in [Bus2 -> Int]
    BY <1>1, <2>4, <2>6, ReleaseTyped
  <2>9. c1_inputMatchCount' \in [C1In -> Int]
    BY <1>1, <1>19, <2>1 DEF UnbindInput, Typed
  <2>10. Typed'
    BY <1>1, <1>19, <2>7, <2>8, <2>9 DEF UnbindInput, Typed
  <2>11. QED
    BY <2>7, <2>10
<1>20. CASE UnlockInput
  <2> DEFINE f == [Frame EXCEPT !.neg = @ + 1]
             level == [Top EXCEPT !.ins[Frames] = f]
  <2>1. Frames > 0 /\ Frame \in InFrame /\ C2Input \in C2In /\ Settled(Top)
    BY <1>1, <1>3, <1>4, <1>20 DEF UnlockInput, StackShape
  <2>2. FrameSettled(Frame) /\ \A m \in 1..(Frames - 1) : FrameSettled(Top.ins[m])
    BY <1>4, <1>5, <2>1, LenProperties DEF Settled, Frame
  <2>3. f \in InFrame /\ f.j = Frame.j /\ f.i = Frame.i
    BY <2>1, <2>2 DEF InFrame, FrameSettled
  <2> HIDE DEF f
  <2>4. /\ level \in Level
        /\ level = [Top EXCEPT !.ins = level.ins]
        /\ Len(level.ins) = Frames
        /\ level.ins[Frames] = f
        /\ \A m \in 1..(Frames - 1) : level.ins[m] = Top.ins[m]
    <3>1. Top \in Level /\ Frames \in Nat /\ Frames = Len(Top.ins) /\ f \in InFrame
      BY <1>4, <1>5, <2>3
    <3>2. QED
      BY <2>1, <3>1, LastFrameReplaced
  <2>5. level.out = Top.out /\ level.k = Top.k
    BY <1>4, <2>4 DEF Level
  <2>6. ReplaceTop(level)
    <3>1. level = [Top EXCEPT !.ins[Frames].neg = @ + 1]
      BY <1>4 DEF Frame, Level, f
    <3>2. QED
      BY <1>20, <3>1 DEF UnlockInput
  <2> HIDE DEF level
  <2>7. /\ HasCandidate(level)
        /\ \A m \in 1..(Len(level.ins) - 1) : FrameSettled(level.ins[m])
        /\ LET g == level.ins[Len(level.ins)] IN g.j <= Len(InCand[g.i])
    BY <1>6, <2>2, <2>3, <2>4, <2>5 DEF HasCandidate, FrameSettled
  <2>8. StackShape'
    BY <1>2, <1>3, <1>20, <2>1, <2>4, <2>6, <2>7, NewTopShape DEF UnlockInput
  <2>9. inputLock' \in [C2In -> InputLock]
    <3>1. LockLeft(C2Input) \in InputLock
      BY <1>1, <2>1 DEF LockLeft, Typed, NoLock, InputLock
    <3>2. QED
      BY <1>1, <1>20, <3>1 DEF UnlockInput, Typed
  <2>10. inputLockCount' \in [C2In -> Int]
    BY <1>1, <1>20, <2>1 DEF UnlockInput, Typed
  <2>11. stack' \in Seq(Level)
    BY <1>1, <1>3, <2>4, <2>6, TopReplaced
  <2>12. Typed'
    BY <1>1, <1>20, <2>9, <2>10, <2>11 DEF UnlockInput, Typed
  <2>13. QED
    BY <2>8, <2>12
<1>21. CASE UndoOutput
  <2>1. Top.out \in C2Out
    BY <1>4 DEF Level
  <2>2. outputLock' \in [C2Out -> OutputLock]
    BY <1>1, <1>21 DEF UndoOutput, Typed, NoLock, OutputLock
  <2>3. /\ CommitCount(Top, -1) \in [Bus2 -> Int]
        /\ inputLockCount' \in [C2In -> Int]
        /\ c1_OutputLockCount' \in [C1Out -> Int]
    BY <1>1, <1>4, <1>6, <1>21, CommitTyped DEF UndoOutput
  <2>4. /\ bus_2_to_1' \in [Bus2 -> Bus1 \cup {None}]
        /\ bus_1_to_2' \in [Bus1 -> Bus2 \cup {None}]
        /\ bus_2_to_1_count' \in [Bus2 -> Int]
    BY <1>1, <1>21, <2>3, ReleaseTyped DEF UndoOutput
  <2>5. Typed'
    BY <1>1, <1>21, <2>2, <2>3, <2>4 DEF UndoOutput, Typed
  <2>6. StackShape'
    BY <1>1, <1>2, <1>3, <1>21 DEF UndoOutput, StackShape, Depth, Top
  <2>7. QED
    BY <2>5, <2>6
<1>22. QED
  BY <1>7, <1>8, <1>9, <1>10, <1>12, <1>14, <1>16, <1>17, <1>18, <1>19, <1>20, <1>21
     DEF MatchInput

\* Every step keeps the types and the shape of the stack.
LEMMA TypeStep == TypeOK /\ [Next]_vars => TypeOK'
<1> SUFFICES ASSUME TypeOK, [Next]_vars PROVE TypeOK'
  OBVIOUS
<1>1. CASE Done \/ UNCHANGED vars
  BY <1>1 DEF Done, vars, inputVars, outputVars, busVars, bestVars, TypeOK, Typed,
              StackShape, Depth, Top, Frames, Frame, C2Input
<1>2. QED
  BY <1>1, MatchOutputTyped, MatchInputTyped DEF Next

\* The variables have their types and the stack the shape of the C++ stack in
\* every state of the search.
THEOREM TypeCorrect == Spec => []TypeOK
<1>1. Init => TypeOK
  BY InitTyped
<1>2. TypeOK /\ [Next]_vars => TypeOK'
  BY TypeStep
<1>3. QED
  BY <1>1, <1>2, PTL DEF Spec

--------------------------------------------------------------------------------
(* The output locks: no circuit-1 output is matched twice, and the locks   *)
(* and their counters are those of the levels that committed them.         *)


\* The committed levels are all the activations, or all but the top one.
LEMMA CommittedAre ==
    \A d \in Nat, b \in BOOLEAN :
        {n \in 1..d : n < d \/ b} = IF b THEN 1..d ELSE 1..(d - 1)
  OBVIOUS

\* The candidate of a committed level is an output of circuit 1.
LEMMA CommittedTyped ==
    ASSUME TypeOK, NEW n \in CommittedLevels
    PROVE  n \in 1..Depth /\ stack[n].out \in C2Out /\ Candidate(n) \in C1Out
<1>1. Depth \in Nat /\ stack \in Seq(Level) /\ Len(stack) = Depth
  BY LenProperties DEF TypeOK, Typed, Depth
<1>2. n \in 1..Depth /\ (n < Depth \/ n = Depth)
  BY <1>1 DEF CommittedLevels
<1>3. stack[n] \in Level
  BY <1>1, <1>2, ElementOfSeq
<1>4. HasCandidate(stack[n])
  <2>1. CASE n < Depth
    BY <1>1, <1>2, <2>1 DEF TypeOK, StackShape, Settled
  <2>2. CASE n = Depth
    <3>1. pc \in {"match_output", "output_back", "done"}
      BY <1>1, <2>2 DEF CommittedLevels, Committed, TypeOK, StackShape
    <3>2. QED
      BY <1>1, <1>2, <2>2, <3>1 DEF TypeOK, StackShape, Settled, Top
  <2>3. QED
    BY <1>2, <2>1, <2>2
<1>5. OutCand[stack[n].out] \in Seq(C1Out) /\ stack[n].k \in Nat \ {0}
  BY <1>3, CandidateAssumption DEF Level
<1>6. stack[n].k \in 1..Len(OutCand[stack[n].out])
  BY <1>4, <1>5, LenProperties DEF HasCandidate
<1>7. QED
  BY <1>2, <1>3, <1>5, <1>6, ElementOfSeq DEF Candidate, Level

\* Two outputs locked to one candidate would be two levels committed to it.
LEMMA PairingOneToOne == TypeOK /\ OutputPairing => OutputOneToOne
<1> SUFFICES ASSUME TypeOK, OutputPairing, NEW o \in C2Out, NEW p \in C2Out,
                    outputLock[o].c1 # None, outputLock[o].c1 = outputLock[p].c1
             PROVE  o = p
  BY DEF OutputOneToOne, NoSharedPartner, OutputPairing
<1>1. outputLock[o] # NoLock /\ outputLock[p] # NoLock
  BY DEF NoLock
<1>2. PICK n \in CommittedLevels : stack[n].out = o
  BY <1>1 DEF OutputPairing, PairsHeld
<1>3. PICK m \in CommittedLevels : stack[m].out = p
  BY <1>1 DEF OutputPairing, PairsHeld
<1>4. Candidate(n) = Candidate(m)
  BY <1>2, <1>3 DEF OutputPairing, PairsHeld
<1>5. QED
  BY <1>2, <1>3, <1>4 DEF OutputPairing, PairsHeld

\* A counter that is one or zero counts the one level, or none, that has the
\* candidate.
LEMMA PairingHeld == TypeOK /\ OutputPairing => OutputLocksHeld
<1> SUFFICES ASSUME TypeOK, OutputPairing PROVE OutputLocksHeld
  OBVIOUS
<1>1. PairsHeld
  BY DEF OutputPairing
<1>2. ASSUME NEW c \in C1Out
      PROVE  c1_OutputLockCount[c] = Cardinality(CommittedTo(c))
  <2>1. CommittedTo(c) = {n \in CommittedLevels : Candidate(n) = c}
    BY DEF CommittedTo, CommittedLevels, Candidate
  <2>2. CASE \E n \in CommittedLevels : Candidate(n) = c
    <3>1. PICK n \in CommittedLevels : Candidate(n) = c
      BY <2>2
    <3>2. CommittedTo(c) = {n}
      BY <1>1, <2>1, <3>1 DEF PairsHeld
    <3>3. Cardinality(CommittedTo(c)) = 1
      BY <3>2, FS_Singleton
    <3>4. QED
      BY <1>1, <2>2, <3>3 DEF PairsHeld
  <2>3. CASE ~ \E n \in CommittedLevels : Candidate(n) = c
    <3>1. CommittedTo(c) = {}
      BY <2>1, <2>3
    <3>2. Cardinality(CommittedTo(c)) = 0
      BY <3>1, FS_EmptySet
    <3>3. QED
      BY <1>1, <2>3, <3>2 DEF PairsHeld
  <2>4. QED
    BY <2>2, <2>3
<1>3. \A n \in 1..Depth : Committed(n) =>
          outputLock[stack[n].out].c1 = OutCand[stack[n].out][stack[n].k]
  BY <1>1 DEF PairsHeld, CommittedLevels, Candidate
<1>4. \A o \in C2Out : outputLock[o] # NoLock =>
          \E n \in 1..Depth : Committed(n) /\ stack[n].out = o
  BY <1>1 DEF PairsHeld, CommittedLevels
<1>5. QED
  BY <1>2, <1>3, <1>4 DEF OutputLocksHeld

--------------------------------------------------------------------------------

\* The pairs are kept while neither the locks nor the committed levels change.
LEMMA PairsKept ==
    ASSUME PairsHeld, UNCHANGED outputVars, CommittedLevels' = CommittedLevels,
           \A n \in CommittedLevels : /\ stack'[n].out = stack[n].out
                                      /\ stack'[n].k = stack[n].k
    PROVE  PairsHeld'
<1>1. \A n \in CommittedLevels : Candidate(n)' = Candidate(n)
  BY DEF Candidate
<1>2. QED
  BY <1>1 DEF PairsHeld, outputVars

\* The picks stay distinct while no level is added.
LEMMA PicksKept ==
    ASSUME PicksDistinct, 1..Depth' \subseteq 1..Depth,
           \A n \in 1..Depth' : stack'[n].out = stack[n].out
    PROVE  PicksDistinct'
  BY DEF PicksDistinct

\* A step inside the attempt of one candidate, or to the next one: only the top
\* level changes, and a candidate is entered only while it is not locked.
LoopPcs == {"output_cand", "match_input", "input_cand", "neg", "input_back"}
TopStep ==
    /\ pc \in LoopPcs /\ pc' \in LoopPcs
    /\ UNCHANGED <<outputVars, maxOutputMatch, findOutputBest>>
    /\ Depth' = Depth
    /\ \A n \in 1..(Depth - 1) : stack'[n] = stack[n]
    /\ Top'.out = Top.out
    /\ pc' # "output_cand" =>
          /\ Top'.k = Top.k
          /\ pc = "output_cand" => c1_OutputLockCount[C1Output] = 0

\* The initial state has nothing locked and no level.
LEMMA PairingInit == Init => OutputPairing
<1> SUFFICES ASSUME Init PROVE OutputPairing
  OBVIOUS
<1>1. Depth = 0 /\ CommittedLevels = {}
  BY DEF Init, Depth, CommittedLevels
<1>2. PicksDistinct /\ CandidateFree
  BY <1>1 DEF Init, PicksDistinct, CandidateFree
<1>3. PairsHeld
  BY <1>1 DEF Init, PairsHeld
<1>4. NoSharedPartner(maxOutputMatch)
  BY DEF Init, NoSharedPartner, NoLock
<1>5. QED
  BY <1>2, <1>3, <1>4 DEF OutputPairing

\* A step at the top keeps the pairing of the levels below.
LEMMA PairingTopStep ==
    ASSUME TypeOK, OutputPairing, TopStep
    PROVE  OutputPairing'
<1>1. Depth \in Nat /\ Depth > 0 /\ ~findOutputBest /\ ~findOutputBest'
  BY LenProperties DEF TypeOK, Typed, StackShape, Depth, TopStep, LoopPcs
<1>2. CommittedLevels = 1..(Depth - 1) /\ CommittedLevels' = 1..(Depth - 1)
  BY <1>1 DEF CommittedLevels, Committed, TopStep, LoopPcs
<1>3. PairsHeld'
  BY <1>2, PairsKept DEF OutputPairing, TopStep
<1>4. PicksDistinct'
  <2>1. \A n \in 1..Depth : n \in 1..(Depth - 1) \/ n = Depth
    BY <1>1
  <2>2. \A n \in 1..Depth : stack'[n].out = stack[n].out
    BY <2>1 DEF TopStep, Top
  <2>3. QED
    BY <2>2, PicksKept DEF OutputPairing, TopStep
<1>5. CandidateFree'
  BY DEF CandidateFree, OutputPairing, TopStep, LoopPcs, C1Output, outputVars
<1>6. NoSharedPartner(maxOutputMatch)'
  BY DEF NoSharedPartner, OutputPairing, TopStep
<1>7. QED
  BY <1>3, <1>4, <1>5, <1>6 DEF OutputPairing

\* The steps that work on one candidate are such steps.
LEMMA TopSteps ==
    ASSUME TypeOK,
           \/ SkipOutput \/ EnterOutput \/ NextOutputCandidate
           \/ NextInput \/ MiterRejects \/ NoMoreInputs \/ SkipInput
           \/ BindConst \/ BindInput \/ AssignNeg \/ UnbindConst \/ UnbindInput
           \/ UnlockInput
    PROVE  TopStep
<1> USE DEF outputVars, bestVars
<1>1. /\ Depth > 0 /\ Depth \in Nat
      /\ Top \in Level
      /\ stack \in Seq(Level) /\ Len(stack) = Depth
  BY TopTyped, LenProperties
     DEF TypeOK, Typed, StackShape, Depth, SkipOutput, EnterOutput, NextOutputCandidate,
         NextInput, MiterRejects, NoMoreInputs, SkipInput, BindConst, BindInput,
         AssignNeg, UnbindConst, UnbindInput, UnlockInput
<1>2. ASSUME NEW level, ReplaceTop(level)
      PROVE  /\ Depth' = Depth
             /\ Top' = level
             /\ \A n \in 1..(Depth - 1) : stack'[n] = stack[n]
  <2>1. stack \in Seq(Level \cup {level})
    BY <1>1
  <2>2. QED
    BY <1>1, <1>2, <2>1, LastReplaced DEF ReplaceTop, Depth, Top
<1>3. CASE SkipOutput \/ NextOutputCandidate
  BY <1>2, <1>3 DEF SkipOutput, NextOutputCandidate, AtCandidate, TopStep, LoopPcs
<1>4. CASE EnterOutput
  <2>1. PICK q, u, t, l : ReplaceTop([Top EXCEPT !.quota = q, !.used = u, !.todo = t, !.locked = l])
    BY <1>4 DEF EnterOutput
  <2>2. Top' = [Top EXCEPT !.quota = q, !.used = u, !.todo = t, !.locked = l]
    BY <1>2, <2>1
  <2>3. Top'.out = Top.out /\ Top'.k = Top.k
    BY <1>1, <2>2 DEF Level
  <2>4. QED
    BY <1>2, <1>4, <2>1, <2>3 DEF EnterOutput, OutputFits, TopStep, LoopPcs
<1>5. CASE MiterRejects \/ AssignNeg
  BY <1>1, <1>5 DEF MiterRejects, AssignNeg, TopStep, LoopPcs, Depth, Top
<1>6. CASE NextInput \/ NoMoreInputs
  <2>1. PICK t, f : ReplaceTop([Top EXCEPT !.todo = t, !.ins = f])
    BY <1>6 DEF NextInput, NoMoreInputs
  <2>2. Top' = [Top EXCEPT !.todo = t, !.ins = f]
    BY <1>2, <2>1
  <2>3. Top'.out = Top.out /\ Top'.k = Top.k
    BY <1>1, <2>2 DEF Level
  <2>4. QED
    BY <1>2, <1>6, <2>1, <2>3 DEF NextInput, NoMoreInputs, TopStep, LoopPcs
<1>7. CASE BindConst
  <2>1. PICK q : ReplaceTop([Top EXCEPT !.quota = q])
    BY <1>7 DEF BindConst
  <2>2. Top' = [Top EXCEPT !.quota = q]
    BY <1>2, <2>1
  <2>3. Top'.out = Top.out /\ Top'.k = Top.k
    BY <1>1, <2>2 DEF Level
  <2>4. QED
    BY <1>2, <1>7, <2>1, <2>3 DEF BindConst, TopStep, LoopPcs
<1>8. CASE BindInput
  <2>1. PICK q, u : ReplaceTop([Top EXCEPT !.quota = q, !.used = u])
    BY <1>8 DEF BindInput
  <2>2. Top' = [Top EXCEPT !.quota = q, !.used = u]
    BY <1>2, <2>1
  <2>3. Top'.out = Top.out /\ Top'.k = Top.k
    BY <1>1, <2>2 DEF Level
  <2>4. QED
    BY <1>2, <1>8, <2>1, <2>3 DEF BindInput, TopStep, LoopPcs
<1>9. CASE UnlockInput \/ SkipInput
  <2>1. PICK f : ReplaceTop([Top EXCEPT !.ins = f])
    BY <1>9 DEF UnlockInput, SkipInput, NextCandidate
  <2>2. Top' = [Top EXCEPT !.ins = f]
    BY <1>2, <2>1
  <2>3. Top'.out = Top.out /\ Top'.k = Top.k
    BY <1>1, <2>2 DEF Level
  <2>4. QED
    BY <1>2, <1>9, <2>1, <2>3 DEF UnlockInput, SkipInput, TopStep, LoopPcs
<1>10. CASE UnbindConst
  <2>1. PICK q, f : ReplaceTop([Top EXCEPT !.quota = q, !.ins = f])
    BY <1>10 DEF UnbindConst, NextCandidate
  <2>2. Top' = [Top EXCEPT !.quota = q, !.ins = f]
    BY <1>2, <2>1
  <2>3. Top'.out = Top.out /\ Top'.k = Top.k
    BY <1>1, <2>2 DEF Level
  <2>4. QED
    BY <1>2, <1>10, <2>1, <2>3 DEF UnbindConst, TopStep, LoopPcs
<1>11. CASE UnbindInput
  <2>1. PICK q, u, f : ReplaceTop([Top EXCEPT !.quota = q, !.used = u, !.ins = f])
    BY <1>11 DEF UnbindInput, NextCandidate
  <2>2. Top' = [Top EXCEPT !.quota = q, !.used = u, !.ins = f]
    BY <1>2, <2>1
  <2>3. Top'.out = Top.out /\ Top'.k = Top.k
    BY <1>1, <2>2 DEF Level
  <2>4. QED
    BY <1>2, <1>11, <2>1, <2>3 DEF UnbindInput, TopStep, LoopPcs
<1>12. QED
  BY <1>3, <1>4, <1>5, <1>6, <1>7, <1>8, <1>9, <1>10, <1>11

\* Picking an output and returning leave the committed levels as they are.
LEMMA PairingCalls ==
    ASSUME TypeOK, OutputPairing, AllMatched \/ ChooseOutput \/ NoMoreOutputs
    PROVE  OutputPairing'
<1> USE DEF outputVars, bestVars
<1>1. /\ Depth \in Nat /\ stack \in Seq(Level)
      /\ pc # "done" /\ ~findOutputBest
  BY LenProperties DEF TypeOK, Typed, StackShape, Depth, AllMatched, ChooseOutput,
                       NoMoreOutputs
<1>2. PairsHeld /\ PicksDistinct
  BY DEF OutputPairing
<1>3. RecordBest => NoSharedPartner(maxOutputMatch)'
  BY PairingOneToOne DEF RecordBest, OutputOneToOne, NoSharedPartner
<1>4. CASE AllMatched
  <2>1. CommittedLevels = 1..Depth /\ CommittedLevels' = 1..Depth
    BY <1>1, <1>4 DEF AllMatched, CommittedLevels, Committed, Depth
  <2>2. PairsHeld' /\ PicksDistinct'
    BY <1>2, <1>4, <2>1, PairsKept, PicksKept DEF AllMatched, Depth
  <2>3. CandidateFree'
    BY <1>4 DEF AllMatched, CandidateFree
  <2>4. QED
    BY <1>3, <1>4, <2>2, <2>3 DEF AllMatched, OutputPairing
<1>5. CASE ChooseOutput
  <2>1. PICK o \in C2Out : IsNextMatch(o) /\ stack' = Append(stack, AtCandidate(o, 1))
    BY <1>5 DEF ChooseOutput
  <2>2. /\ Depth' = Depth + 1
        /\ \A n \in 1..Depth : stack'[n] = stack[n]
        /\ stack'[Depth + 1].out = o
    BY <1>1, <2>1, AppendProperties DEF Depth, AtCandidate
  <2>3. CommittedLevels = 1..Depth /\ CommittedLevels' = 1..Depth
    BY <1>1, <1>5, <2>2 DEF ChooseOutput, CommittedLevels, Committed
  <2>4. PairsHeld'
    BY <1>2, <1>5, <2>2, <2>3, PairsKept DEF ChooseOutput
  <2>5. ASSUME NEW n \in 1..Depth PROVE stack[n].out # o
    <3>1. outputLock[stack[n].out].c1 \in C1Out
      BY <1>2, <2>3, CommittedTyped DEF PairsHeld
    <3>2. outputLock[o].c1 = None
      BY <2>1 DEF IsNextMatch, NoLock
    <3>3. QED
      BY <3>1, <3>2, PortsAssumption
  <2>6. PicksDistinct'
    <3>1. 1..Depth' = 1..Depth \cup {Depth + 1}
      BY <1>1, <2>2
    <3>2. QED
      BY <1>2, <2>2, <2>5, <3>1 DEF PicksDistinct
  <2>7. CandidateFree'
    BY <1>5 DEF ChooseOutput, CandidateFree
  <2>8. QED
    BY <1>3, <1>5, <2>4, <2>6, <2>7 DEF ChooseOutput, OutputPairing
<1>6. CASE NoMoreOutputs
  <2>1. Depth > 0
    BY <1>6 DEF TypeOK, StackShape, NoMoreOutputs
  <2>2. /\ Depth' = Depth - 1
        /\ \A n \in 1..(Depth - 1) : stack'[n] = stack[n]
    BY <1>1, <1>6, <2>1, LastDropped DEF NoMoreOutputs, Depth
  <2>3. CommittedLevels = 1..(Depth - 1) /\ CommittedLevels' = 1..(Depth - 1)
    BY <1>1, <1>6, <2>1, <2>2 DEF NoMoreOutputs, CommittedLevels, Committed
  <2>4. PairsHeld'
    BY <1>2, <1>6, <2>2, <2>3, PairsKept DEF NoMoreOutputs
  <2>5. PicksDistinct'
    BY <1>1, <1>2, <2>1, <2>2, PicksKept
  <2>6. CandidateFree'
    BY <1>6 DEF NoMoreOutputs, CandidateFree
  <2>7. NoSharedPartner(maxOutputMatch)'
    BY <1>6 DEF NoMoreOutputs, OutputPairing, NoSharedPartner
  <2>8. QED
    BY <2>4, <2>5, <2>6, <2>7 DEF OutputPairing
<1>7. QED
  BY <1>4, <1>5, <1>6

\* Committing the candidate of the top level: it was free, and its output was
\* picked by no other level.
LEMMA PairingCommit ==
    ASSUME TypeOK, OutputPairing, MiterAccepts
    PROVE  OutputPairing'
<1>1. /\ Depth \in Nat /\ Depth > 0 /\ Depth \in 1..Depth
      /\ ~findOutputBest /\ Settled(Top) /\ Top \in Level
      /\ stack' = stack /\ pc = "match_input" /\ pc' = "match_output"
      /\ findOutputBest' = findOutputBest
  BY TopTyped, LenProperties DEF TypeOK, Typed, StackShape, Depth, MiterAccepts
<1>2. PairsHeld /\ PicksDistinct
  BY DEF OutputPairing
<1>3. CommittedLevels = 1..(Depth - 1) /\ CommittedLevels' = 1..Depth
  BY <1>1 DEF CommittedLevels, Committed, Depth
<1>4. 1..Depth = (1..(Depth - 1)) \cup {Depth} /\ Depth \notin 1..(Depth - 1)
  BY <1>1
<1>5. \A n : Candidate(n)' = Candidate(n)
  BY <1>1 DEF Candidate
<1>6. C1Output = Candidate(Depth) /\ C1Output \in C1Out /\ Top.out = stack[Depth].out
      /\ Top.out \in C2Out
  BY <1>1, TopTyped DEF TypeOK, Settled, HasCandidate, C1Output, Candidate, Top, Level
<1>7. \A n \in 1..(Depth - 1) : Candidate(n) # C1Output /\ stack[n].out # Top.out
  <2>1. c1_OutputLockCount[C1Output] = 0
    BY <1>1 DEF OutputPairing, CandidateFree
  <2>2. \A n \in 1..(Depth - 1) : Candidate(n) # C1Output
    BY <1>2, <1>3, <1>6, <2>1 DEF PairsHeld
  <2>3. QED
    BY <1>2, <1>4, <1>6, <2>2 DEF PicksDistinct
<1>8. PICK r \in {1, 2} :
         outputLock' = [outputLock EXCEPT ![Top.out] = [c1 |-> C1Output, neg |-> r - 1]]
  <2>1. MiterResults(C1Output, Top.out, inputLock) \ {0} \subseteq {1, 2}
    BY MiterTyped
  <2>2. QED
    BY <2>1 DEF MiterAccepts
<1>9. /\ outputLock \in [C2Out -> OutputLock]
      /\ c1_OutputLockCount \in [C1Out -> Int]
      /\ c1_OutputLockCount' = [c1_OutputLockCount EXCEPT ![C1Output] = @ + 1]
  BY DEF TypeOK, Typed, MiterAccepts, OutputLockCount
<1>10. PairsHeld'
  <2>1. \A n \in 1..Depth : outputLock'[stack[n].out].c1 = Candidate(n)
    <3>1. ASSUME NEW n \in 1..(Depth - 1)
          PROVE  outputLock'[stack[n].out].c1 = Candidate(n)
      BY <1>2, <1>3, <1>7, <1>8, <1>9 DEF PairsHeld
    <3>2. outputLock'[Top.out].c1 = C1Output
      BY <1>6, <1>8, <1>9
    <3>3. QED
      BY <1>4, <1>6, <3>1, <3>2
  <2>2. \A o \in C2Out : outputLock'[o] # NoLock => \E n \in 1..Depth : stack[n].out = o
    BY <1>1, <1>2, <1>3, <1>4, <1>6, <1>8, <1>9 DEF PairsHeld
  <2>3. \A n, m \in 1..Depth : Candidate(n) = Candidate(m) => n = m
    BY <1>2, <1>3, <1>4, <1>6, <1>7 DEF PairsHeld
  <2>4. \A c \in C1Out : c1_OutputLockCount'[c] =
            IF \E n \in 1..Depth : Candidate(n) = c THEN 1 ELSE 0
    <3>1. ASSUME NEW c \in C1Out, c # C1Output
          PROVE  c1_OutputLockCount'[c] =
                    IF \E n \in 1..Depth : Candidate(n) = c THEN 1 ELSE 0
      BY <1>2, <1>3, <1>4, <1>6, <1>9, <3>1 DEF PairsHeld
    <3>2. c1_OutputLockCount'[C1Output] = 1
      BY <1>1, <1>6, <1>9 DEF OutputPairing, CandidateFree
    <3>3. QED
      BY <1>1, <1>6, <3>1, <3>2
  <2>5. QED
    BY <1>1, <1>3, <1>5, <2>1, <2>2, <2>3, <2>4 DEF PairsHeld
<1>11. PicksDistinct'
  BY <1>1, <1>2, PicksKept DEF Depth
<1>12. CandidateFree'
  BY <1>1 DEF CandidateFree
<1>13. NoSharedPartner(maxOutputMatch)'
  BY DEF MiterAccepts, OutputPairing, NoSharedPartner, bestVars
<1>14. QED
  BY <1>10, <1>11, <1>12, <1>13 DEF OutputPairing

\* Undoing it frees the candidate and the output of the top level only.
LEMMA PairingUndo ==
    ASSUME TypeOK, OutputPairing, UndoOutput
    PROVE  OutputPairing'
<1>1. /\ Depth \in Nat /\ Depth > 0 /\ Depth \in 1..Depth
      /\ ~findOutputBest /\ Settled(Top) /\ Top \in Level
      /\ stack' = stack /\ pc = "output_back" /\ pc' = "input_back"
      /\ findOutputBest' = findOutputBest
  BY TopTyped, LenProperties DEF TypeOK, Typed, StackShape, Depth, UndoOutput
<1>2. PairsHeld /\ PicksDistinct
  BY DEF OutputPairing
<1>3. CommittedLevels = 1..Depth /\ CommittedLevels' = 1..(Depth - 1)
  BY <1>1 DEF CommittedLevels, Committed, Depth
<1>4. 1..Depth = (1..(Depth - 1)) \cup {Depth} /\ Depth \notin 1..(Depth - 1)
  BY <1>1
<1>5. (\A n : Candidate(n)' = Candidate(n)) /\ C1Output' = C1Output
  BY <1>1 DEF Candidate, C1Output, Top, Depth
<1>6. C1Output = Candidate(Depth) /\ C1Output \in C1Out /\ Top.out = stack[Depth].out
      /\ Top.out \in C2Out
  BY <1>1, TopTyped DEF TypeOK, Settled, HasCandidate, C1Output, Candidate, Top, Level
<1>7. \A n \in 1..(Depth - 1) : Candidate(n) # C1Output /\ stack[n].out # Top.out
  BY <1>2, <1>3, <1>4, <1>6 DEF PairsHeld, PicksDistinct
<1>8. /\ outputLock \in [C2Out -> OutputLock]
      /\ outputLock' = [outputLock EXCEPT ![Top.out] = NoLock]
      /\ c1_OutputLockCount \in [C1Out -> Int]
      /\ c1_OutputLockCount' = [c1_OutputLockCount EXCEPT ![C1Output] = @ + -1]
  BY DEF TypeOK, Typed, UndoOutput, OutputLockCount
<1>9. c1_OutputLockCount'[C1Output] = 0
  BY <1>1, <1>2, <1>3, <1>6, <1>8 DEF PairsHeld
<1>10. PairsHeld'
  <2>1. \A n \in 1..(Depth - 1) : outputLock'[stack[n].out].c1 = Candidate(n)
    BY <1>2, <1>3, <1>4, <1>7, <1>8 DEF PairsHeld
  <2>2. \A o \in C2Out : outputLock'[o] # NoLock =>
            \E n \in 1..(Depth - 1) : stack[n].out = o
    BY <1>2, <1>3, <1>4, <1>6, <1>8 DEF PairsHeld
  <2>3. \A n, m \in 1..(Depth - 1) : Candidate(n) = Candidate(m) => n = m
    BY <1>2, <1>3, <1>4 DEF PairsHeld
  <2>4. \A c \in C1Out : c1_OutputLockCount'[c] =
            IF \E n \in 1..(Depth - 1) : Candidate(n) = c THEN 1 ELSE 0
    <3>1. ASSUME NEW c \in C1Out, c # C1Output
          PROVE  c1_OutputLockCount'[c] =
                    IF \E n \in 1..(Depth - 1) : Candidate(n) = c THEN 1 ELSE 0
      BY <1>2, <1>3, <1>4, <1>6, <1>8, <3>1 DEF PairsHeld
    <3>2. QED
      BY <1>7, <1>9, <3>1
  <2>5. QED
    BY <1>1, <1>3, <1>5, <2>1, <2>2, <2>3, <2>4 DEF PairsHeld
<1>11. PicksDistinct'
  BY <1>1, <1>2, PicksKept DEF Depth
<1>12. CandidateFree'
  BY <1>5, <1>9 DEF CandidateFree
<1>13. NoSharedPartner(maxOutputMatch)'
  BY DEF UndoOutput, OutputPairing, NoSharedPartner, bestVars
<1>14. QED
  BY <1>10, <1>11, <1>12, <1>13 DEF OutputPairing

\* Every step keeps the pairing.
LEMMA PairingStep == TypeOK /\ OutputPairing /\ [Next]_vars => OutputPairing'
<1> SUFFICES ASSUME TypeOK, OutputPairing, [Next]_vars PROVE OutputPairing'
  OBVIOUS
<1>1. CASE Done \/ UNCHANGED vars
  BY <1>1 DEF Done, vars, outputVars, bestVars, OutputPairing, PicksDistinct, PairsHeld,
              CandidateFree, NoSharedPartner, CommittedLevels, Committed, Candidate,
              C1Output, Top, Depth
<1>2. CASE MatchOutput
  BY <1>2, TopSteps, PairingTopStep, PairingCalls DEF MatchOutput
<1>3. CASE MatchInput
  BY <1>3, TopSteps, PairingTopStep, PairingCommit, PairingUndo DEF MatchInput
<1>4. QED
  BY <1>1, <1>2, <1>3 DEF Next

\* The pairing holds throughout the search.
THEOREM PairingInvariant == Spec => []OutputPairing
<1>1. Init => OutputPairing
  BY PairingInit
<1>2. TypeOK /\ OutputPairing /\ [Next]_vars => OutputPairing'
  BY PairingStep
<1>3. QED
  BY <1>1, <1>2, TypeCorrect, PTL DEF Spec

\* "one c1 output can only match once": neither the locks of match_output nor
\* the answer they are copied to share a circuit-1 output.
THEOREM OutputsOneToOne == Spec => []OutputOneToOne
<1>1. TypeOK /\ OutputPairing => OutputOneToOne
  BY PairingOneToOne
<1>2. QED
  BY <1>1, TypeCorrect, PairingInvariant, PTL

\* The output locks and their counters are exactly those of the levels whose
\* pair match_input committed and has not undone.
THEOREM OutputsHeld == Spec => []OutputLocksHeld
<1>1. TypeOK /\ OutputPairing => OutputLocksHeld
  BY PairingHeld
<1>2. QED
  BY <1>1, TypeCorrect, PairingInvariant, PTL

--------------------------------------------------------------------------------
(* The frames of the top level, which of them have their input locked or placed *)

\* Every level of the stack and every frame of it has its type.
LEMMA LevelFacts ==
    ASSUME TypeOK
    PROVE  /\ Depth \in Nat
           /\ \A n \in 1..Depth :
                /\ stack[n] \in Level
                /\ stack[n].ins \in Seq(InFrame)
                /\ Len(stack[n].ins) \in Nat
                /\ DOMAIN stack[n].ins = 1..Len(stack[n].ins)
                /\ \A m \in DOMAIN stack[n].ins :
                      stack[n].ins[m] \in InFrame /\ stack[n].ins[m].i \in C2In
                /\ stack[n].todo \subseteq C2In
                /\ stack[n].locked \subseteq C2In
                /\ LockingFrames(n) \subseteq DOMAIN stack[n].ins
                /\ BoundFrames(n) \subseteq DOMAIN stack[n].ins
<1>1. stack \in Seq(Level) /\ Depth \in Nat
  BY LenProperties DEF TypeOK, Typed, Depth
<1>2. SUFFICES ASSUME NEW n \in 1..Depth
               PROVE  /\ stack[n] \in Level
                      /\ stack[n].ins \in Seq(InFrame)
                      /\ Len(stack[n].ins) \in Nat
                      /\ DOMAIN stack[n].ins = 1..Len(stack[n].ins)
                      /\ \A m \in DOMAIN stack[n].ins :
                            stack[n].ins[m] \in InFrame /\ stack[n].ins[m].i \in C2In
                      /\ stack[n].todo \subseteq C2In
                      /\ stack[n].locked \subseteq C2In
                      /\ LockingFrames(n) \subseteq DOMAIN stack[n].ins
                      /\ BoundFrames(n) \subseteq DOMAIN stack[n].ins
  BY <1>1
<1>3. stack[n] \in Level
  BY <1>1, ElementOfSeq DEF Depth
<1>4. /\ stack[n].ins \in Seq(InFrame)
      /\ stack[n].todo \subseteq C2In /\ stack[n].locked \subseteq C2In
  BY <1>3 DEF Level
<1>5. Len(stack[n].ins) \in Nat /\ DOMAIN stack[n].ins = 1..Len(stack[n].ins)
  BY <1>4, LenProperties
<1>6. ASSUME NEW m \in DOMAIN stack[n].ins
      PROVE  stack[n].ins[m] \in InFrame /\ stack[n].ins[m].i \in C2In
  <2>1. stack[n].ins[m] \in InFrame
    BY <1>4, <1>5, ElementOfSeq
  <2>2. QED
    BY <2>1 DEF InFrame
<1>7. LockingFrames(n) \subseteq DOMAIN stack[n].ins /\ BoundFrames(n) \subseteq DOMAIN stack[n].ins
  BY DEF LockingFrames, BoundFrames
<1>8. QED
  BY <1>3, <1>4, <1>5, <1>6, <1>7

\* Replacing the top of the stack, whatever the new top is.
LEMMA StackTop ==
    ASSUME TypeOK, Depth > 0, NEW level, ReplaceTop(level)
    PROVE  /\ Depth' = Depth
           /\ Top' = level
           /\ stack'[Depth] = level
           /\ \A n \in 1..(Depth - 1) : stack'[n] = stack[n]
           /\ 1..Depth = (1..(Depth - 1)) \cup {Depth}
<1>1. stack \in Seq(Level \cup {level}) /\ Depth = Len(stack) /\ Depth \in Nat
  BY LenProperties DEF TypeOK, Typed, Depth
<1>2. QED
  BY <1>1, LastReplaced DEF ReplaceTop, Depth, Top

\* A frame that has its input locked is at a candidate and a polarity.
LEMMA LockingSettled ==
    ASSUME TypeOK
    PROVE  \A n \in 1..Depth : \A m \in LockingFrames(n) :
              /\ FrameSettled(stack[n].ins[m])
              /\ InCand[stack[n].ins[m].i][stack[n].ins[m].j] \in C1In \cup {CONST}
<1>1. SUFFICES ASSUME NEW n \in 1..Depth, NEW m \in LockingFrames(n)
               PROVE  /\ FrameSettled(stack[n].ins[m])
                      /\ InCand[stack[n].ins[m].i][stack[n].ins[m].j] \in C1In \cup {CONST}
  OBVIOUS
<1>2. /\ Depth \in Nat /\ m \in DOMAIN stack[n].ins
      /\ Len(stack[n].ins) \in Nat
      /\ DOMAIN stack[n].ins = 1..Len(stack[n].ins)
      /\ stack[n].ins[m] \in InFrame
  BY LevelFacts
<1>3. FrameSettled(stack[n].ins[m])
  <2>1. CASE n # Depth
    <3>1. Settled(stack[n])
      BY <1>2, <2>1 DEF TypeOK, StackShape
    <3>2. QED
      BY <1>2, <3>1 DEF Settled
  <2>2. CASE n = Depth /\ pc \in {"input_cand", "neg"}
    <3>1. m \in 1..(Frames - 1)
      BY <1>2, <2>2 DEF LockingFrames, Frames, Top
    <3>2. QED
      BY <2>2, <3>1 DEF TypeOK, StackShape, Top
  <2>3. CASE n = Depth /\ pc \notin {"input_cand", "neg"}
    <3>1. pc # "output_cand"
      BY <1>2, <2>3 DEF TypeOK, StackShape, Top
    <3>2. Settled(Top)
      BY <1>2, <2>3, <3>1 DEF TypeOK, StackShape
    <3>3. QED
      BY <1>2, <2>3, <3>2 DEF Settled, Top
  <2>4. QED
    BY <2>1, <2>2, <2>3
<1>4. InCand[stack[n].ins[m].i][stack[n].ins[m].j] \in C1In \cup {CONST}
  <2> DEFINE f == stack[n].ins[m]
  <2>1. f.i \in C2In /\ f.j \in Nat \ {0} /\ f.j <= Len(InCand[f.i])
    BY <1>2, <1>3 DEF InFrame, FrameSettled
  <2>2. InCand[f.i] \in Seq(C1In \cup {CONST})
    BY <2>1, CandidateAssumption
  <2>3. f.j \in 1..Len(InCand[f.i])
    BY <2>1, <2>2, LenProperties
  <2>4. QED
    BY <2>2, <2>3, ElementOfSeq
<1>5. QED
  BY <1>3, <1>4

\* The frames of the top level that have their input locked, and placed.
TopFrames == Depth > 0 =>
    /\ Frames \in Nat /\ DOMAIN Top.ins = 1..Frames
    /\ Top \in Level /\ Top = stack[Depth] /\ Depth \in 1..Depth
    /\ Top.ins \in Seq(InFrame) /\ Len(Top.ins) = Frames
    /\ LockingFrames(Depth) = IF pc \in {"input_cand", "neg"} THEN 1..(Frames - 1) ELSE 1..Frames
    /\ BoundFrames(Depth) = IF pc = "input_cand" THEN 1..(Frames - 1) ELSE 1..Frames

\* They are what the point in the code says.
LEMMA FramesAre == TypeOK => TopFrames
<1> SUFFICES ASSUME TypeOK, Depth > 0
             PROVE  /\ Frames \in Nat /\ DOMAIN Top.ins = 1..Frames
                    /\ Top \in Level /\ Top = stack[Depth] /\ Depth \in 1..Depth
                    /\ Top.ins \in Seq(InFrame) /\ Len(Top.ins) = Frames
                    /\ LockingFrames(Depth) = IF pc \in {"input_cand", "neg"}
                                              THEN 1..(Frames - 1) ELSE 1..Frames
                    /\ BoundFrames(Depth) = IF pc = "input_cand" THEN 1..(Frames - 1)
                                            ELSE 1..Frames
  BY DEF TopFrames
<1>1. /\ Depth \in Nat /\ Depth \in 1..Depth /\ Top \in Level
      /\ Frames \in Nat /\ Top.ins \in Seq(InFrame) /\ DOMAIN Top.ins = 1..Frames
      /\ Len(Top.ins) = Frames
  BY TopTyped, LenProperties DEF TypeOK, Level, Frames
<1>2. Top = stack[Depth]
  BY DEF Top
<1>3. LockingFrames(Depth) = IF pc \in {"input_cand", "neg"} THEN (1..Frames) \ {Frames}
                             ELSE 1..Frames
  BY <1>1, <1>2 DEF LockingFrames
<1>4. BoundFrames(Depth) = IF pc = "input_cand" THEN (1..Frames) \ {Frames} ELSE 1..Frames
  BY <1>1, <1>2 DEF BoundFrames
<1>5. (1..Frames) \ {Frames} = 1..(Frames - 1)
  BY <1>1
<1>6. QED
  BY <1>1, <1>2, <1>3, <1>4, <1>5

\* The same in the state after a step.
LEMMA FramesAreNext == TypeOK' => TopFrames'
  BY FramesAre, PTL

\* The inputs of the top level.
TopInputs ==
    Depth > 0 => \A i : i \in Inputs(Depth) <=> \E m \in 1..Frames : Top.ins[m].i = i

\* They are the inputs of its frames, in order.
LEMMA InputsAre == TypeOK => TopInputs
<1> SUFFICES ASSUME TypeOK, Depth > 0
             PROVE  \A i : i \in Inputs(Depth) <=> \E m \in 1..Frames : Top.ins[m].i = i
  BY DEF TopInputs
<1>1. DOMAIN stack[Depth].ins = 1..Frames /\ Top = stack[Depth]
  BY FramesAre DEF TopFrames
<1>2. QED
  BY <1>1 DEF Inputs

\* The same in the state after a step.
LEMMA InputsAreNext == TypeOK' => TopInputs'
  BY InputsAre, PTL

\* The levels below the top keep their frames when the top is replaced.
LEMMA BelowKept ==
    ASSUME TypeOK, Depth' = Depth, NEW n \in 1..(Depth - 1), stack'[n] = stack[n]
    PROVE  /\ n \in 1..Depth /\ n # Depth
           /\ LockingFrames(n) = DOMAIN stack[n].ins
           /\ LockingFrames(n)' = LockingFrames(n)
           /\ BoundFrames(n) = DOMAIN stack[n].ins
           /\ BoundFrames(n)' = BoundFrames(n)
           /\ Inputs(n)' = Inputs(n)
           /\ Candidate(n)' = Candidate(n)
<1>1. Depth \in Nat
  BY LenProperties DEF TypeOK, Typed, Depth
<1>2. n \in 1..Depth /\ n # Depth /\ n # Depth'
  BY <1>1
<1>3. LockingFrames(n) = DOMAIN stack[n].ins /\ LockingFrames(n)' = LockingFrames(n)
  BY <1>2 DEF LockingFrames
<1>4. BoundFrames(n) = DOMAIN stack[n].ins /\ BoundFrames(n)' = BoundFrames(n)
  BY <1>2 DEF BoundFrames
<1>5. Inputs(n)' = Inputs(n) /\ Candidate(n)' = Candidate(n)
  BY DEF Inputs, Candidate
<1>6. QED
  BY <1>2, <1>3, <1>4, <1>5

\* A step inside an attempt leaves the committed levels, those below the top.
LEMMA TopStepCommits ==
    ASSUME TypeOK, TopStep
    PROVE  /\ Depth > 0
           /\ CommittedLevels = 1..(Depth - 1) /\ CommittedLevels' = 1..(Depth - 1)
<1>1. Depth \in Nat /\ Depth > 0 /\ ~findOutputBest
  BY LenProperties DEF TypeOK, Typed, StackShape, Depth, TopStep, LoopPcs
<1>2. CommittedLevels = {n \in 1..Depth : n < Depth}
  BY <1>1 DEF CommittedLevels, Committed, TopStep, LoopPcs
<1>3. CommittedLevels' = {n \in 1..Depth : n < Depth}
  BY <1>1 DEF CommittedLevels, Committed, TopStep, LoopPcs
<1>4. {n \in 1..Depth : n < Depth} = 1..(Depth - 1)
  BY <1>1
<1>5. QED
  BY <1>1, <1>2, <1>3, <1>4

\* The next circuit-1 output: the top level starts over with nothing.
LEMMA SeeNewCandidate ==
    ASSUME TypeOK, SkipOutput \/ NextOutputCandidate
    PROVE  /\ Top.ins = <<>> /\ Top'.ins = <<>> /\ Top'.todo = {} /\ Top'.locked = {}
           /\ UNCHANGED <<inputVars, busVars, mod>>
           /\ pc' = "output_cand"
<1>1. Depth > 0
  BY DEF TypeOK, StackShape, SkipOutput, NextOutputCandidate
<1>2. Top' = AtCandidate(Top.out, Top.k + 1)
  BY <1>1, StackTop DEF SkipOutput, NextOutputCandidate
<1>3. Top.ins = <<>>
  <2>1. CASE SkipOutput
    BY <2>1 DEF TypeOK, StackShape, SkipOutput
  <2>2. CASE NextOutputCandidate
    BY <1>1, <2>2, FramesAre, EmptySeq DEF NextOutputCandidate, TopFrames
  <2>3. QED
    BY <2>1, <2>2
<1>4. QED
  BY <1>2, <1>3 DEF AtCandidate, SkipOutput, NextOutputCandidate, inputVars, busVars

\* filtLockedInput let the candidate through.
LEMMA SeeEnterOutput ==
    ASSUME TypeOK, EnterOutput
    PROVE  /\ Top.ins = <<>> /\ Top'.ins = <<>>
           /\ Top'.quota = QuotaLeft(Top.out, C1Output)
           /\ Top'.used = [c \in C1In |-> Cardinality(LockedTo(Top.out, c))]
           /\ Top'.todo = {i \in Range(Supp2[Top.out]) :
                              inputLock[i].c1 = None /\ ~Dangling(i, C1Output)}
           /\ Top'.locked = Locked(Top.out)
           /\ Top'.out = Top.out /\ Top'.k = Top.k /\ C1Output' = C1Output
           /\ Depth > 0 /\ Top.out \in C2Out /\ C1Output \in C1Out
           /\ OutputFits(Top.out, C1Output)
           /\ UNCHANGED <<inputVars, busVars, mod>>
           /\ pc = "output_cand" /\ pc' = "match_input"
<1>1. Depth > 0 /\ Top.ins = <<>>
  BY DEF TypeOK, StackShape, EnterOutput
<1>2. Top \in Level /\ C1Output \in C1Out
  BY <1>1, TopTyped DEF TypeOK, EnterOutput
<1>3. Top' = [Top EXCEPT !.quota = QuotaLeft(Top.out, C1Output),
           !.used = [c \in C1In |-> Cardinality(LockedTo(Top.out, c))],
           !.todo = {i \in Range(Supp2[Top.out]) :
                        inputLock[i].c1 = None /\ ~Dangling(i, C1Output)},
           !.locked = Locked(Top.out)]
  BY <1>1, StackTop DEF EnterOutput
<1>4. /\ Top'.ins = Top.ins
      /\ Top'.quota = QuotaLeft(Top.out, C1Output)
      /\ Top'.used = [c \in C1In |-> Cardinality(LockedTo(Top.out, c))]
      /\ Top'.todo = {i \in Range(Supp2[Top.out]) :
                         inputLock[i].c1 = None /\ ~Dangling(i, C1Output)}
      /\ Top'.locked = Locked(Top.out)
      /\ Top'.out = Top.out /\ Top'.k = Top.k
  BY <1>2, <1>3 DEF Level
<1>5. C1Output' = C1Output
  BY <1>4 DEF C1Output
<1>6. QED
  BY <1>1, <1>2, <1>4, <1>5 DEF EnterOutput, Level, inputVars, busVars

\* The loop of match_input works on a candidate of both circuits.
LEMMA InLoop ==
    ASSUME TypeOK, pc \in {"match_input", "input_cand", "neg", "input_back"}
    PROVE  /\ Depth > 0 /\ Depth \in 1..Depth /\ Top \in Level /\ ~findOutputBest
           /\ Top.out \in C2Out /\ C1Output \in C1Out /\ C1Output = Candidate(Depth)
           /\ Frames \in Nat /\ Top.ins \in Seq(InFrame) /\ Len(Top.ins) = Frames
           /\ DOMAIN Top.ins = 1..Frames
           /\ Frames > 0 => /\ Frame = Top.ins[Frames] /\ C2Input = Top.ins[Frames].i
                            /\ Frame \in InFrame /\ C2Input \in C2In
           /\ pc \in {"input_cand", "neg"} => Frames > 0
           /\ pc = "neg" => C1Input \in C1In \cup {CONST}
<1>1. Depth > 0 /\ HasCandidate(Top) /\ ~findOutputBest
  BY DEF TypeOK, StackShape, Settled
<1>2. /\ Depth \in 1..Depth /\ Top \in Level /\ Frames \in Nat
      /\ Top.ins \in Seq(InFrame) /\ Len(Top.ins) = Frames /\ DOMAIN Top.ins = 1..Frames
  BY <1>1, FramesAre DEF TopFrames
<1>3. C1Output \in C1Out /\ Top.out \in C2Out
  BY <1>1, <1>2, TopTyped DEF TypeOK, HasCandidate, Level
<1>4. pc \in {"input_cand", "neg"} => Frames > 0
  BY DEF TypeOK, StackShape
<1>5. pc = "neg" => C1Input \in C1In \cup {CONST}
  BY <1>1, <1>4, TopTyped DEF TypeOK, StackShape
<1>6. Frames > 0 => Frame \in InFrame /\ C2Input \in C2In
  BY <1>1, TopTyped DEF TypeOK
<1>7. C1Output = Candidate(Depth)
  BY DEF C1Output, Candidate, Top
<1>8. QED
  BY <1>1, <1>2, <1>3, <1>4, <1>5, <1>6, <1>7 DEF Frame, C2Input

\* Starting on the next input of the support.
LEMMA SeeNextInput ==
    ASSUME TypeOK, NextInput
    PROVE  /\ Frames' = Frames + 1
           /\ C2Input' \in Top.todo
           /\ Top'.todo = Top.todo \ {C2Input'}
           /\ \A m \in 1..Frames : Top'.ins[m] = Top.ins[m]
           /\ Top'.ins[Frames + 1].i = C2Input'
           /\ Top'.out = Top.out /\ Top'.k = Top.k /\ Top'.locked = Top.locked
           /\ Top'.quota = Top.quota /\ Top'.used = Top.used
           /\ C1Output' = C1Output
           /\ UNCHANGED <<inputVars, busVars, mod>>
           /\ pc = "match_input" /\ pc' = "input_cand"
<1>1. PICK i \in Top.todo :
         ReplaceTop([Top EXCEPT !.todo = @ \ {i},
                       !.ins = Append(@, [i |-> i, j |-> 1, neg |-> ini_neg(i)])])
  BY DEF NextInput
<1> DEFINE f == [i |-> i, j |-> 1, neg |-> ini_neg(i)]
<1>2. pc = "match_input" /\ pc' = "input_cand"
  BY DEF NextInput
<1>3. /\ Depth > 0 /\ Top \in Level /\ Frames \in Nat
      /\ Top.ins \in Seq(InFrame) /\ Len(Top.ins) = Frames
  BY <1>2, InLoop
<1>4. Top' = [Top EXCEPT !.todo = @ \ {i}, !.ins = Append(@, f)]
  BY <1>1, <1>3, StackTop
<1>5. /\ Top'.todo = Top.todo \ {i} /\ Top'.ins = Append(Top.ins, f)
      /\ Top'.out = Top.out /\ Top'.k = Top.k /\ Top'.locked = Top.locked
      /\ Top'.quota = Top.quota /\ Top'.used = Top.used
  BY <1>3, <1>4 DEF Level
<1>6. i \in C2In
  BY <1>3 DEF Level
<1>7. f \in InFrame
  BY <1>6, Polarities DEF InFrame
<1> HIDE DEF f
<1>8. /\ Len(Append(Top.ins, f)) = Frames + 1
      /\ \A m \in 1..Frames : Append(Top.ins, f)[m] = Top.ins[m]
      /\ Append(Top.ins, f)[Frames + 1] = f
  BY <1>3, <1>7, AppendProperties
<1>9. Frames' = Frames + 1
  BY <1>5, <1>8 DEF Frames
<1>10. C2Input' = i
  BY <1>5, <1>8, <1>9 DEF C2Input, Frame, f
<1>11. C1Output' = C1Output
  BY <1>5 DEF C1Output
<1>12. Top'.ins[Frames + 1].i = i
  BY <1>5, <1>8 DEF f
<1>13. QED
  BY <1>2, <1>5, <1>8, <1>9, <1>10, <1>11, <1>12 DEF NextInput, inputVars, busVars

\* Steps that leave the stack alone.
LEMMA SeeSameStack ==
    ASSUME TypeOK, MiterRejects \/ AssignNeg
    PROVE  /\ stack' = stack /\ Top' = Top /\ Frames' = Frames /\ C1Output' = C1Output
           /\ C2Input' = C2Input
           /\ UNCHANGED <<c1_inputMatchCount, busVars, mod>>
           /\ MiterRejects => /\ UNCHANGED inputVars /\ Top.todo = {}
                              /\ pc = "match_input" /\ pc' = "input_back"
           /\ AssignNeg => pc = "neg" /\ pc' = "match_input"
  BY DEF MiterRejects, AssignNeg, Top, Depth, Frames, C1Output, C2Input, Frame, inputVars, busVars

\* The last input is given back.
LEMMA SeeNoMoreInputs ==
    ASSUME TypeOK, NoMoreInputs
    PROVE  /\ Frames > 0 /\ Frames' = Frames - 1
           /\ Top'.todo = Top.todo \cup {C2Input}
           /\ \A m \in 1..(Frames - 1) : Top'.ins[m] = Top.ins[m]
           /\ Top'.out = Top.out /\ Top'.k = Top.k /\ Top'.locked = Top.locked
           /\ Top'.quota = Top.quota /\ Top'.used = Top.used
           /\ C1Output' = C1Output
           /\ UNCHANGED <<inputVars, busVars, mod>>
           /\ pc = "input_cand" /\ pc' = "input_back"
<1>1. pc = "input_cand" /\ pc' = "input_back"
  BY DEF NoMoreInputs
<1>2. /\ Depth > 0 /\ Top \in Level /\ Frames \in Nat /\ Frames > 0
      /\ Top.ins \in Seq(InFrame) /\ Len(Top.ins) = Frames
  BY <1>1, InLoop
<1>3. Top' = [Top EXCEPT !.todo = @ \cup {C2Input}, !.ins = SubSeq(@, 1, Frames - 1)]
  BY <1>2, StackTop DEF NoMoreInputs
<1>4. /\ Top'.todo = Top.todo \cup {C2Input} /\ Top'.ins = SubSeq(Top.ins, 1, Len(Top.ins) - 1)
      /\ Top'.out = Top.out /\ Top'.k = Top.k /\ Top'.locked = Top.locked
      /\ Top'.quota = Top.quota /\ Top'.used = Top.used
  BY <1>2, <1>3 DEF Level
<1>5. Len(Top'.ins) = Frames - 1 /\ \A m \in 1..(Frames - 1) : Top'.ins[m] = Top.ins[m]
  BY <1>2, <1>4, LastDropped
<1>6. Frames' = Frames - 1 /\ C1Output' = C1Output
  BY <1>4, <1>5 DEF Frames, C1Output
<1>7. QED
  BY <1>1, <1>2, <1>4, <1>5, <1>6 DEF NoMoreInputs, inputVars, busVars

\* Giving the input of the last frame a constant or a circuit-1 input.
LEMMA SeeBind ==
    ASSUME TypeOK, BindConst \/ BindInput
    PROVE  /\ Top'.ins = Top.ins /\ Frames' = Frames /\ Frames > 0
           /\ C2Input' = C2Input /\ C1Input' = C1Input
           /\ Top'.out = Top.out /\ Top'.k = Top.k /\ Top'.locked = Top.locked
           /\ Top'.todo = Top.todo /\ C1Output' = C1Output
           /\ InputFits(C2Input, C1Input) /\ C1Input \in C1In \cup {CONST}
           /\ BindConst => /\ Top'.quota = Top.quota - 1 /\ Top'.used = Top.used
                           /\ C1Input = CONST /\ UNCHANGED c1_inputMatchCount
                           /\ UNCHANGED busVars
           /\ BindInput =>
                /\ Top'.quota = Top.quota - (IF Top.used[C1Input] # 0 THEN 1 ELSE 0)
                /\ Top'.used = [Top.used EXCEPT ![C1Input] = @ + 1]
                /\ C1Input # CONST
           /\ UNCHANGED <<inputLock, inputLockCount, mod>>
           /\ pc = "input_cand" /\ pc' = "neg"
<1>1. pc = "input_cand" /\ pc' = "neg" /\ Frame.j <= Len(InCand[C2Input])
  BY DEF BindConst, BindInput
<1>2. Depth > 0 /\ Top \in Level /\ Frames \in Nat /\ Frames > 0
  BY <1>1, InLoop
<1>3. C1Input \in C1In \cup {CONST}
  BY <1>1, <1>2, TopTyped DEF TypeOK
<1>4. BindConst => Top' = [Top EXCEPT !.quota = @ - 1]
  BY <1>2, StackTop DEF BindConst
<1>5. BindInput => Top' = [Top EXCEPT !.quota = @ - (IF Top.used[C1Input] # 0 THEN 1 ELSE 0),
                                      !.used[C1Input] = @ + 1]
  BY <1>2, StackTop DEF BindInput
<1>6. /\ Top'.ins = Top.ins
      /\ Top'.out = Top.out /\ Top'.k = Top.k /\ Top'.locked = Top.locked
      /\ Top'.todo = Top.todo
  BY <1>2, <1>4, <1>5 DEF Level
<1>7. BindConst => Top'.quota = Top.quota - 1 /\ Top'.used = Top.used
  BY <1>2, <1>4 DEF Level
<1>8. BindInput => /\ Top'.quota = Top.quota - (IF Top.used[C1Input] # 0 THEN 1 ELSE 0)
                   /\ Top'.used = [Top.used EXCEPT ![C1Input] = @ + 1]
  BY <1>2, <1>5 DEF Level
<1>9. /\ Frames' = Frames /\ C2Input' = C2Input /\ C1Input' = C1Input /\ C1Output' = C1Output
  BY <1>6 DEF Frames, C2Input, C1Input, Frame, C1Output
<1>10. QED
  BY <1>1, <1>2, <1>3, <1>6, <1>7, <1>8, <1>9 DEF BindConst, BindInput, inputVars, busVars

\* The last frame moves on: to its next candidate, its place given back, or to
\* its next polarity.
LEMMA SeeLastFrame ==
    ASSUME TypeOK, SkipInput \/ UnbindConst \/ UnbindInput \/ UnlockInput
    PROVE  /\ Frames' = Frames /\ Frames > 0
           /\ \A m \in 1..(Frames - 1) : Top'.ins[m] = Top.ins[m]
           /\ Top'.ins[Frames].i = C2Input /\ C2Input' = C2Input
           /\ Top'.out = Top.out /\ Top'.k = Top.k /\ Top'.locked = Top.locked
           /\ Top'.todo = Top.todo /\ C1Output' = C1Output
           /\ SkipInput => /\ Top'.quota = Top.quota /\ Top'.used = Top.used
                           /\ UNCHANGED <<inputVars, busVars>>
                           /\ pc = "input_cand" /\ pc' = "input_cand"
           /\ UnbindConst => /\ Top'.quota = Top.quota + 1 /\ Top'.used = Top.used
                             /\ C1Input = CONST
                             /\ UNCHANGED <<inputVars, busVars>>
                             /\ pc = "neg" /\ pc' = "input_cand"
           /\ UnbindInput =>
                /\ Top'.quota = Top.quota + (IF Top.used[C1Input] > 1 THEN 1 ELSE 0)
                /\ Top'.used = [Top.used EXCEPT ![C1Input] = @ - 1]
                /\ C1Input # CONST
                /\ UNCHANGED <<inputLock, inputLockCount>>
                /\ pc = "neg" /\ pc' = "input_cand"
           /\ UnlockInput => /\ Top'.quota = Top.quota /\ Top'.used = Top.used
                             /\ Top'.ins[Frames] = [Frame EXCEPT !.neg = @ + 1]
                             /\ C1Input' = C1Input
                             /\ UNCHANGED <<c1_inputMatchCount, busVars>>
                             /\ pc = "input_back" /\ pc' = "neg"
           /\ UNCHANGED mod
<1>1. /\ SkipInput => pc = "input_cand" /\ pc' = "input_cand"
      /\ (UnbindConst \/ UnbindInput) => pc = "neg" /\ pc' = "input_cand"
      /\ UnlockInput => pc = "input_back" /\ pc' = "neg" /\ Frames > 0
      /\ UnbindConst => C1Input = CONST
      /\ UnbindInput => C1Input # CONST
  BY DEF SkipInput, UnbindConst, UnbindInput, UnlockInput
<1>2. /\ Depth > 0 /\ Top \in Level /\ Frames \in Nat /\ Frames > 0
      /\ Top.ins \in Seq(InFrame) /\ Len(Top.ins) = Frames
      /\ Frame \in InFrame /\ C2Input \in C2In /\ Frame = Top.ins[Frames]
  BY <1>1, InLoop
<1> DEFINE next == [i |-> C2Input, j |-> Frame.j + 1, neg |-> ini_neg(C2Input)]
           turn == [Frame EXCEPT !.neg = @ + 1]
<1>3. PICK f : /\ Top' = [Top EXCEPT !.quota = Top'.quota, !.used = Top'.used, !.ins[Frames] = f]
               /\ f.i = C2Input
               /\ UnlockInput => f = turn
               /\ UnlockInput \/ SkipInput => Top'.quota = Top.quota /\ Top'.used = Top.used
               /\ UnbindConst => Top'.quota = Top.quota + 1 /\ Top'.used = Top.used
               /\ UnbindInput =>
                    /\ Top'.quota = Top.quota + (IF Top.used[C1Input] > 1 THEN 1 ELSE 0)
                    /\ Top'.used = [Top.used EXCEPT ![C1Input] = @ - 1]
  <2>1. CASE UnlockInput
    <3>1. Top' = [Top EXCEPT !.ins[Frames].neg = @ + 1]
      BY <1>2, <2>1, StackTop DEF UnlockInput
    <3>2. [Top EXCEPT !.ins[Frames].neg = @ + 1] = [Top EXCEPT !.ins[Frames] = turn]
      BY <1>2 DEF Level, InFrame
    <3>3. Top'.quota = Top.quota /\ Top'.used = Top.used
      BY <1>2, <3>1 DEF Level
    <3>4. Top' = [Top EXCEPT !.quota = Top'.quota, !.used = Top'.used, !.ins[Frames] = turn]
      BY <1>2, <3>1, <3>2, <3>3 DEF Level
    <3>5. turn.i = C2Input
      BY <1>2 DEF C2Input, InFrame
    <3>6. ~SkipInput /\ ~UnbindConst /\ ~UnbindInput
      BY <1>1, <2>1
    <3>7. QED
      BY <3>3, <3>4, <3>5, <3>6
  <2>2. CASE SkipInput
    <3>1. Top' = [Top EXCEPT !.ins[Frames] = next]
      BY <1>2, <2>2, StackTop DEF SkipInput, NextCandidate
    <3>2. Top'.quota = Top.quota /\ Top'.used = Top.used
      BY <1>2, <3>1 DEF Level
    <3>3. Top' = [Top EXCEPT !.quota = Top'.quota, !.used = Top'.used, !.ins[Frames] = next]
      BY <1>2, <3>1, <3>2 DEF Level
    <3>4. ~UnlockInput /\ ~UnbindConst /\ ~UnbindInput
      BY <1>1, <2>2
    <3>5. next.i = C2Input
      OBVIOUS
    <3> HIDE DEF next
    <3>6. QED
      BY <3>2, <3>3, <3>4, <3>5
  <2>3. CASE UnbindConst
    <3>1. Top' = [[Top EXCEPT !.quota = @ + 1] EXCEPT !.ins[Frames] = next]
      BY <1>2, <2>3, StackTop DEF UnbindConst, NextCandidate
    <3>2. Top'.quota = Top.quota + 1 /\ Top'.used = Top.used
      BY <1>2, <3>1 DEF Level
    <3>3. Top' = [Top EXCEPT !.quota = Top'.quota, !.used = Top'.used, !.ins[Frames] = next]
      BY <1>2, <3>1, <3>2 DEF Level
    <3>4. ~UnlockInput /\ ~SkipInput /\ ~UnbindInput
      BY <1>1, <2>3
    <3>5. next.i = C2Input
      OBVIOUS
    <3> HIDE DEF next
    <3>6. QED
      BY <3>2, <3>3, <3>4, <3>5
  <2>4. CASE UnbindInput
    <3> DEFINE q == Top.quota + (IF Top.used[C1Input] > 1 THEN 1 ELSE 0)
               u == [Top.used EXCEPT ![C1Input] = @ - 1]
    <3>1. Top' = [[Top EXCEPT !.quota = q, !.used[C1Input] = @ - 1] EXCEPT !.ins[Frames] = next]
      BY <1>2, <2>4, StackTop DEF UnbindInput, NextCandidate
    <3>2. Top'.quota = q /\ Top'.used = u
      BY <1>2, <3>1 DEF Level
    <3>3. Top' = [Top EXCEPT !.quota = Top'.quota, !.used = Top'.used, !.ins[Frames] = next]
      BY <1>2, <3>1, <3>2 DEF Level
    <3>4. ~UnlockInput /\ ~SkipInput /\ ~UnbindConst
      BY <1>1, <2>4
    <3>5. next.i = C2Input
      OBVIOUS
    <3> HIDE DEF next
    <3>6. QED
      BY <3>2, <3>3, <3>4, <3>5
  <2>5. QED
    BY <2>1, <2>2, <2>3, <2>4
<1>4. /\ Top'.ins = [Top.ins EXCEPT ![Frames] = f]
      /\ Top'.out = Top.out /\ Top'.k = Top.k /\ Top'.locked = Top.locked
      /\ Top'.todo = Top.todo
  BY <1>2, <1>3 DEF Level
<1>5. /\ Len(Top'.ins) = Frames /\ Top'.ins[Frames] = f
      /\ \A m \in 1..(Frames - 1) : Top'.ins[m] = Top.ins[m]
  <2>1. Top.ins \in Seq(InFrame \cup {f})
    BY <1>2
  <2>2. PICK s \in Seq(InFrame \cup {f}), g \in InFrame \cup {f} :
           s = Top.ins /\ g = f /\ Len(s) = Frames /\ Len(s) > 0
    BY <1>2, <2>1
  <2>3. LET t == [s EXCEPT ![Len(s)] = g]
        IN  /\ Len(t) = Len(s) /\ t[Len(s)] = g
            /\ \A m \in 1..(Len(s) - 1) : t[m] = s[m]
    BY <2>2, LastReplaced
  <2>4. Top'.ins = [s EXCEPT ![Len(s)] = g]
    BY <1>4, <2>2
  <2>5. QED
    BY <2>2, <2>3, <2>4
<1>6. Frames' = Frames /\ C2Input' = C2Input /\ C1Output' = C1Output
  BY <1>3, <1>4, <1>5 DEF Frames, C2Input, Frame, C1Output
<1>7. UnlockInput => C1Input' = C1Input
  <2>1. UnlockInput => Frame'.j = Frame.j
    BY <1>2, <1>3, <1>5, <1>6 DEF Frame, InFrame
  <2>2. QED
    BY <1>6, <2>1 DEF C1Input
<1>8. /\ SkipInput => UNCHANGED <<inputVars, busVars>>
      /\ UnbindConst => UNCHANGED <<inputVars, busVars>>
      /\ UnbindInput => UNCHANGED <<inputLock, inputLockCount>>
      /\ UnlockInput => UNCHANGED <<c1_inputMatchCount, busVars>>
      /\ UNCHANGED mod
  BY DEF SkipInput, UnbindConst, UnbindInput, UnlockInput, inputVars, busVars
<1>9. UnlockInput => Top'.ins[Frames] = [Frame EXCEPT !.neg = @ + 1]
  BY <1>3, <1>5
<1>10. Top'.ins[Frames].i = C2Input
  BY <1>3, <1>5
<1>11. QED
  BY <1>1, <1>2, <1>3, <1>4, <1>5, <1>6, <1>7, <1>8, <1>9, <1>10

\* Outside the candidate and polarity loops every frame has its input locked and
\* placed.
AllLocking ==
    pc \notin {"input_cand", "neg"} =>
        \A n \in 1..Depth : /\ LockingFrames(n) = DOMAIN stack[n].ins
                            /\ BoundFrames(n) = DOMAIN stack[n].ins
                            /\ \A i : Holds(n, i) <=> i \in Inputs(n)

\* LockingFrames and BoundFrames leave a frame out only in those loops.
LEMMA AllLock == TypeOK => AllLocking
<1> SUFFICES ASSUME pc \notin {"input_cand", "neg"}, NEW n \in 1..Depth
             PROVE  /\ LockingFrames(n) = DOMAIN stack[n].ins
                    /\ BoundFrames(n) = DOMAIN stack[n].ins
                    /\ \A i : Holds(n, i) <=> i \in Inputs(n)
  BY DEF AllLocking
<1>1. LockingFrames(n) = DOMAIN stack[n].ins /\ BoundFrames(n) = DOMAIN stack[n].ins
  BY DEF LockingFrames, BoundFrames
<1>2. QED
  BY <1>1 DEF Holds, Inputs

\* The same in the state after a step.
LEMMA AllLockNext == TypeOK' => AllLocking'
  BY AllLock, PTL

\* match_output picks the next output: a new level with nothing yet.
LEMMA SeeChooseOutput ==
    ASSUME TypeOK, ChooseOutput
    PROVE  /\ Depth \in Nat /\ Depth' = Depth + 1
           /\ \A n \in 1..Depth : /\ n \in 1..Depth' /\ stack'[n] = stack[n]
                                  /\ Inputs(n)' = Inputs(n) /\ Candidate(n)' = Candidate(n)
           /\ stack'[Depth + 1].ins = <<>> /\ stack'[Depth + 1].todo = {}
           /\ stack'[Depth + 1].locked = {} /\ stack'[Depth + 1].out \in C2Out
           /\ 1..Depth' = 1..Depth \cup {Depth + 1}
           /\ CommittedLevels = 1..Depth /\ CommittedLevels' = 1..Depth
           /\ UNCHANGED <<mod, inputVars, outputVars, busVars>>
           /\ pc = "match_output" /\ pc' = "output_cand"
<1>1. /\ Depth \in Nat /\ stack \in Seq(Level) /\ ~findOutputBest
      /\ pc = "match_output" /\ pc' = "output_cand" /\ ~findOutputBest'
      /\ UNCHANGED <<mod, inputVars, outputVars, busVars>>
  BY LenProperties DEF TypeOK, Typed, StackShape, Depth, ChooseOutput
<1>2. PICK o \in C2Out : stack' = Append(stack, AtCandidate(o, 1))
  BY DEF ChooseOutput
<1>3. /\ Depth' = Depth + 1
      /\ \A n \in 1..Depth : stack'[n] = stack[n]
      /\ stack'[Depth + 1] = AtCandidate(o, 1)
  BY <1>1, <1>2, AppendProperties DEF Depth
<1>4. 1..Depth' = 1..Depth \cup {Depth + 1}
  BY <1>1, <1>3
<1>5. CommittedLevels = 1..Depth /\ CommittedLevels' = 1..Depth
  BY <1>1, <1>3 DEF CommittedLevels, Committed
<1>6. \A n \in 1..Depth : Inputs(n)' = Inputs(n) /\ Candidate(n)' = Candidate(n)
  BY <1>3 DEF Inputs, Candidate
<1>7. QED
  BY <1>1, <1>3, <1>4, <1>5, <1>6 DEF AtCandidate

\* match_output has no candidate left and returns: its level had nothing.
LEMMA SeeNoMoreOutputs ==
    ASSUME TypeOK, NoMoreOutputs
    PROVE  /\ Depth \in Nat /\ Depth > 0 /\ Depth' = Depth - 1
           /\ \A n \in 1..(Depth - 1) : /\ n \in 1..Depth /\ stack'[n] = stack[n]
                                        /\ Inputs(n)' = Inputs(n)
                                        /\ Candidate(n)' = Candidate(n)
           /\ stack[Depth].ins = <<>>
           /\ 1..Depth = (1..(Depth - 1)) \cup {Depth}
           /\ CommittedLevels = 1..(Depth - 1) /\ CommittedLevels' = 1..(Depth - 1)
           /\ UNCHANGED <<mod, inputVars, outputVars, busVars>>
           /\ pc = "output_cand" /\ pc' \in {"done", "output_back"}
<1>1. /\ Depth \in Nat /\ Depth > 0 /\ stack \in Seq(Level) /\ ~findOutputBest
      /\ pc = "output_cand" /\ pc' \in {"done", "output_back"} /\ ~findOutputBest'
      /\ pc' = IF Depth = 1 THEN "done" ELSE "output_back"
      /\ UNCHANGED <<mod, inputVars, outputVars, busVars>>
      /\ Top.ins = <<>>
  BY LenProperties DEF TypeOK, Typed, StackShape, Depth, NoMoreOutputs
<1>2. /\ Depth' = Depth - 1
      /\ \A n \in 1..(Depth - 1) : stack'[n] = stack[n]
  BY <1>1, LastDropped DEF NoMoreOutputs, Depth
<1>3. CommittedLevels = 1..(Depth - 1) /\ CommittedLevels' = 1..(Depth - 1)
  BY <1>1, <1>2 DEF CommittedLevels, Committed
<1>4. \A n \in 1..(Depth - 1) : Inputs(n)' = Inputs(n) /\ Candidate(n)' = Candidate(n)
  BY <1>2 DEF Inputs, Candidate
<1>5. QED
  BY <1>1, <1>2, <1>3, <1>4 DEF Top

\* Committing a pair, undoing it, and finding every output matched.
LEMMA SeeCommits ==
    ASSUME TypeOK, MiterAccepts \/ UndoOutput \/ AllMatched
    PROVE  /\ stack' = stack /\ Depth' = Depth /\ Depth \in Nat
           /\ Top' = Top /\ C1Output' = C1Output
           /\ \A n : Inputs(n)' = Inputs(n) /\ Candidate(n)' = Candidate(n)
           /\ pc \notin {"input_cand", "neg"} /\ pc' \notin {"input_cand", "neg"}
           /\ MiterAccepts => /\ Depth > 0 /\ Depth \in 1..Depth
                              /\ CommittedLevels = 1..(Depth - 1) /\ CommittedLevels' = 1..Depth
                              /\ pc = "match_input" /\ Top.todo = {} /\ pc' = "match_output"
           /\ UndoOutput => /\ Depth > 0 /\ Depth \in 1..Depth
                            /\ CommittedLevels = 1..Depth /\ CommittedLevels' = 1..(Depth - 1)
                            /\ pc = "output_back" /\ pc' = "input_back"
           /\ AllMatched => /\ CommittedLevels = 1..Depth /\ CommittedLevels' = 1..Depth
                            /\ pc = "match_output" /\ pc' = "done"
                            /\ UNCHANGED <<inputVars, outputVars, busVars>>
           /\ Depth > 0 => 1..Depth = (1..(Depth - 1)) \cup {Depth}
           /\ UNCHANGED <<mod, inputLock, c1_inputMatchCount>>
<1>1. /\ stack' = stack /\ Depth \in Nat /\ ~findOutputBest
      /\ UNCHANGED <<mod, inputLock, c1_inputMatchCount>>
      /\ MiterAccepts => pc = "match_input" /\ pc' = "match_output" /\ Top.todo = {}
      /\ UndoOutput => pc = "output_back" /\ pc' = "input_back"
      /\ AllMatched => /\ pc = "match_output" /\ pc' = "done" /\ findOutputBest'
                       /\ UNCHANGED <<inputVars, outputVars, busVars>>
      /\ (MiterAccepts \/ UndoOutput) => Depth > 0 /\ ~findOutputBest'
  BY LenProperties DEF TypeOK, Typed, StackShape, Depth, MiterAccepts, UndoOutput, AllMatched,
                       inputVars
<1>2. /\ Depth' = Depth /\ Top' = Top /\ C1Output' = C1Output
      /\ \A n : Inputs(n)' = Inputs(n) /\ Candidate(n)' = Candidate(n)
  BY <1>1 DEF Depth, Top, C1Output, Inputs, Candidate
<1>3. Depth > 0 => 1..Depth = (1..(Depth - 1)) \cup {Depth}
  BY <1>1
<1>4. /\ MiterAccepts => CommittedLevels = 1..(Depth - 1) /\ CommittedLevels' = 1..Depth
      /\ UndoOutput => CommittedLevels = 1..Depth /\ CommittedLevels' = 1..(Depth - 1)
      /\ AllMatched => CommittedLevels = 1..Depth /\ CommittedLevels' = 1..Depth
  BY <1>1, <1>2 DEF CommittedLevels, Committed
<1>5. Depth > 0 => Depth \in 1..Depth
  BY <1>1
<1>6. pc \notin {"input_cand", "neg"} /\ pc' \notin {"input_cand", "neg"}
  BY <1>1
<1>7. MiterAccepts => /\ Depth > 0 /\ Depth \in 1..Depth
                      /\ CommittedLevels = 1..(Depth - 1) /\ CommittedLevels' = 1..Depth
                      /\ pc = "match_input" /\ Top.todo = {} /\ pc' = "match_output"
  BY <1>1, <1>4, <1>5
<1>8. UndoOutput => /\ Depth > 0 /\ Depth \in 1..Depth
                    /\ CommittedLevels = 1..Depth /\ CommittedLevels' = 1..(Depth - 1)
                    /\ pc = "output_back" /\ pc' = "input_back"
  BY <1>1, <1>4, <1>5
<1>9. AllMatched => /\ CommittedLevels = 1..Depth /\ CommittedLevels' = 1..Depth
                    /\ pc = "match_output" /\ pc' = "done"
                    /\ UNCHANGED <<inputVars, outputVars, busVars>>
  BY <1>1, <1>4
<1>10. QED
  BY <1>1, <1>2, <1>3, <1>6, <1>7, <1>8, <1>9

--------------------------------------------------------------------------------
(* The locks on the inputs *)

\* The lock of a held input is not NoLock.
LEMMA HeldLocked ==
    ASSUME TypeOK, InputHolding, NEW n \in 1..Depth, NEW i, Holds(n, i)
    PROVE  i \in C2In /\ inputLock[i].c1 \in C1In \cup {CONST} /\ inputLock[i].c1 # None
<1>1. PICK m \in LockingFrames(n) : stack[n].ins[m].i = i
  BY DEF Holds
<1>2. inputLock[i].c1 = InCand[i][stack[n].ins[m].j]
  <2>1. inputLock[i] = LockOf(stack[n].ins[m])
    BY <1>1 DEF InputHolding, LocksTaken
  <2>2. QED
    BY <1>1, <2>1 DEF LockOf, Choice
<1>3. i \in C2In
  BY <1>1, LevelFacts
<1>4. InCand[i][stack[n].ins[m].j] \in C1In \cup {CONST}
  BY <1>1, LockingSettled
<1>5. QED
  BY <1>2, <1>3, <1>4, PortsAssumption

\* An input is locked exactly while some level holds it.
LEMMA LockedHeld ==
    ASSUME TypeOK, InputHolding, NEW i \in C2In
    PROVE  /\ (inputLock[i].c1 = None) <=> (inputLock[i] = NoLock)
           /\ (inputLock[i] # NoLock) <=> (\E n \in 1..Depth : Holds(n, i))
<1>1. inputLock[i] # NoLock => \E n \in 1..Depth : Holds(n, i)
  BY DEF InputHolding, LocksTaken
<1>2. (\E n \in 1..Depth : Holds(n, i)) => inputLock[i].c1 # None
  BY HeldLocked
<1>3. NoLock.c1 = None
  BY DEF NoLock
<1>4. inputLock[i] = NoLock => inputLock[i].c1 = None
  BY <1>3
<1>5. QED
  BY <1>1, <1>2, <1>4

\* The frames of a level below the top all have their input locked.
LEMMA BelowHolds ==
    ASSUME TypeOK, NEW n \in 1..(Depth - 1)
    PROVE  /\ n \in 1..Depth
           /\ LockingFrames(n) = DOMAIN stack[n].ins
           /\ BoundFrames(n) = DOMAIN stack[n].ins
           /\ \A i : Holds(n, i) <=> i \in Inputs(n)
<1>1. n \in 1..Depth /\ n # Depth
  BY LevelFacts
<1>2. LockingFrames(n) = DOMAIN stack[n].ins /\ BoundFrames(n) = DOMAIN stack[n].ins
  BY <1>1 DEF LockingFrames, BoundFrames
<1>3. QED
  BY <1>1, <1>2 DEF Holds, Inputs

\* The levels that hold an input: the one whose frame took it and the committed
\* ones that recorded its lock.
LEMMA HoldersAre ==
    ASSUME NEW i
    PROVE  /\ LockedBy(i) = {n \in 1..Depth : Holds(n, i)}
                              \cup {n \in CommittedLevels : i \in stack[n].locked}
           /\ LockedBy(i)' = {n \in 1..Depth' : Holds(n, i)'}
                              \cup {n \in CommittedLevels' : i \in stack'[n].locked}
  BY DEF LockedBy, Holds, CommittedLevels

\* Who holds a lock is told by the activations and the records.
LEMMA HoldersSame ==
    ASSUME NEW i,
           {n \in 1..Depth' : Holds(n, i)'} = {n \in 1..Depth : Holds(n, i)},
           {n \in CommittedLevels' : i \in stack'[n].locked}
             = {n \in CommittedLevels : i \in stack[n].locked}
    PROVE  LockedBy(i)' = LockedBy(i)
<1>1. PICK A, B : /\ A = {n \in 1..Depth : Holds(n, i)}
                  /\ B = {n \in CommittedLevels : i \in stack[n].locked}
  OBVIOUS
<1>2. LockedBy(i) = A \cup B
  BY <1>1, HoldersAre, Zenon
<1>3. LockedBy(i)' = A \cup B
  BY <1>1, HoldersAre, Zenon
<1>4. QED
  BY <1>2, <1>3

\* The locks are kept by a step that leaves the locking frames, what the
\* committed levels recorded, and the locks alone.
LEMMA LocksKept ==
    ASSUME LocksTaken, UNCHANGED <<inputLock, inputLockCount>>,
           CommittedLevels' = CommittedLevels,
           \A n \in CommittedLevels : stack'[n].locked = stack[n].locked,
           \A n \in 1..Depth' : \A m \in LockingFrames(n)' :
              n \in 1..Depth /\ m \in LockingFrames(n) /\ stack'[n].ins[m] = stack[n].ins[m],
           \A n \in 1..Depth : \A m \in LockingFrames(n) :
              n \in 1..Depth' /\ m \in LockingFrames(n)' /\ stack'[n].ins[m] = stack[n].ins[m]
    PROVE  LocksTaken'
<1>1. \A i : \A n \in 1..Depth : Holds(n, i) => n \in 1..Depth' /\ Holds(n, i)'
  BY DEF Holds
<1>2. \A i : \A n \in 1..Depth' : Holds(n, i)' => n \in 1..Depth /\ Holds(n, i)
  BY DEF Holds
<1>3. ASSUME NEW i \in C2In
      PROVE  LockedBy(i)' = LockedBy(i)
  <2>1. {n \in 1..Depth' : Holds(n, i)'} = {n \in 1..Depth : Holds(n, i)}
    BY <1>1, <1>2
  <2>2. {n \in CommittedLevels' : i \in stack'[n].locked}
          = {n \in CommittedLevels : i \in stack[n].locked}
    OBVIOUS
  <2>3. QED
    BY <2>1, <2>2, HoldersSame
<1>4. ASSUME NEW n \in 1..Depth', NEW m \in LockingFrames(n)'
      PROVE  inputLock'[stack'[n].ins[m].i] = LockOf(stack'[n].ins[m])
  <2>1. n \in 1..Depth /\ m \in LockingFrames(n) /\ stack'[n].ins[m] = stack[n].ins[m]
    OBVIOUS
  <2>2. QED
    BY <2>1 DEF LocksTaken
<1>5. \A i \in C2In : inputLock'[i] # NoLock => \E n \in 1..Depth' : Holds(n, i)'
  BY <1>1 DEF LocksTaken
<1>6. \A i \in C2In : inputLockCount'[i] = Cardinality(LockedBy(i)')
  BY <1>3 DEF LocksTaken
<1>7. QED
  BY <1>4, <1>5, <1>6 DEF LocksTaken, LockOf, Choice

\* The inputs stay apart when only the top level changes and stays apart from
\* the levels below it.
LEMMA ApartTop ==
    ASSUME FramesApart, Depth \in Nat, Depth > 0, Depth' = Depth,
           \A n \in 1..(Depth - 1) : stack'[n] = stack[n],
           \A a, b \in DOMAIN stack'[Depth].ins :
              stack'[Depth].ins[a].i = stack'[Depth].ins[b].i => a = b,
           Inputs(Depth)' \cap stack'[Depth].todo = {},
           \A k \in 1..(Depth - 1) :
              Inputs(k) \cap (Inputs(Depth)' \cup stack'[Depth].todo) = {},
           \A i \in stack'[Depth].locked : \E k \in 1..(Depth - 1) : i \in Inputs(k)
    PROVE  FramesApart'
<1>1. \A n \in 1..(Depth - 1) : Inputs(n)' = Inputs(n)
  BY DEF Inputs
<1>2. SUFFICES ASSUME NEW n \in 1..Depth
               PROVE  /\ \A a, b \in DOMAIN stack'[n].ins :
                            stack'[n].ins[a].i = stack'[n].ins[b].i => a = b
                      /\ Inputs(n)' \cap stack'[n].todo = {}
                      /\ \A k \in 1..(n - 1) :
                            Inputs(k)' \cap (Inputs(n)' \cup stack'[n].todo) = {}
                      /\ \A i \in stack'[n].locked : \E k \in 1..(n - 1) : i \in Inputs(k)'
  BY DEF FramesApart
<1>3. CASE n = Depth
  <2>1. Inputs(n)' = Inputs(Depth)'
    BY <1>3 DEF Inputs
  <2>2. QED
    BY <1>1, <1>3, <2>1
<1>4. CASE n # Depth
  <2>1. n \in 1..(Depth - 1) /\ \A k \in 1..(n - 1) : k \in 1..(Depth - 1)
    BY <1>4
  <2>2. QED
    BY <1>1, <2>1 DEF FramesApart
<1>5. QED
  BY <1>3, <1>4

\* Steps that lock and unlock nothing: they may forget what the top level had
\* left to do and what it recorded before it was committed.
LEMMA InputsQuiet ==
    ASSUME TypeOK, TypeOK', InputHolding,
           \/ SkipOutput \/ NextOutputCandidate \/ MiterRejects \/ SkipInput
           \/ BindConst \/ BindInput \/ UnbindConst \/ UnbindInput
    PROVE  InputHolding'
<1>1. TopStep /\ Depth \in Nat /\ Depth > 0 /\ Depth' = Depth
  BY TopSteps, TopStepCommits, LevelFacts DEF TopStep
<1>2. /\ CommittedLevels' = CommittedLevels /\ CommittedLevels = 1..(Depth - 1)
      /\ \A n \in 1..(Depth - 1) :
            /\ stack'[n] = stack[n] /\ n \in 1..Depth
            /\ LockingFrames(n)' = LockingFrames(n)
            /\ Inputs(n)' = Inputs(n)
  BY <1>1, TopStepCommits, BelowKept DEF TopStep
<1>3. /\ Frames \in Nat /\ Frames' = Frames
      /\ DOMAIN Top.ins = 1..Frames /\ DOMAIN Top'.ins = 1..Frames
      /\ LockingFrames(Depth)' = LockingFrames(Depth)
      /\ LockingFrames(Depth) \subseteq 1..Frames
      /\ \A m \in 1..Frames : Top'.ins[m].i = Top.ins[m].i
      /\ \A m \in LockingFrames(Depth) : Top'.ins[m] = Top.ins[m]
      /\ Top'.todo \subseteq Top.todo /\ Top'.locked \subseteq Top.locked
      /\ Top = stack[Depth] /\ Top' = stack'[Depth]
      /\ UNCHANGED <<inputLock, inputLockCount>>
  <2>1. TopFrames /\ TopFrames'
    BY FramesAre, FramesAreNext
  <2>2. CASE SkipOutput \/ NextOutputCandidate
    BY <1>1, <2>1, <2>2, SeeNewCandidate DEF TopFrames, Frames, inputVars
  <2>3. CASE MiterRejects
    BY <1>1, <2>1, <2>3, SeeSameStack DEF TopFrames, inputVars
  <2>4. CASE BindConst \/ BindInput
    BY <1>1, <2>1, <2>4, SeeBind DEF TopFrames
  <2>5. CASE SkipInput \/ UnbindConst \/ UnbindInput
    <3>1. Frames > 0 => Top.ins[Frames].i = C2Input
      BY DEF C2Input, Frame
    <3>2. \A m \in 1..Frames : m \in 1..(Frames - 1) \/ m = Frames
      BY <1>1, <2>1 DEF TopFrames
    <3>3. /\ UNCHANGED <<inputLock, inputLockCount>>
          /\ pc \in {"input_cand", "neg"} /\ pc' = "input_cand"
      BY <2>5, SeeLastFrame DEF inputVars
    <3>4. /\ Frames' = Frames /\ Frames > 0
          /\ \A m \in 1..(Frames - 1) : Top'.ins[m] = Top.ins[m]
          /\ Top'.ins[Frames].i = C2Input
          /\ Top'.todo = Top.todo /\ Top'.locked = Top.locked
      BY <2>5, SeeLastFrame
    <3>5. /\ LockingFrames(Depth) = 1..(Frames - 1)
          /\ LockingFrames(Depth)' = 1..(Frames - 1)
      BY <1>1, <2>1, <3>3, <3>4 DEF TopFrames
    <3>6. QED
      BY <1>1, <2>1, <3>1, <3>2, <3>3, <3>4, <3>5 DEF TopFrames
  <2>6. QED
    BY <2>2, <2>3, <2>4, <2>5
<1>4. \A n \in 1..Depth : n \in 1..(Depth - 1) \/ n = Depth
  BY <1>1
<1>5. Inputs(Depth)' = Inputs(Depth)
  BY <1>1, <1>3 DEF Inputs
<1>6. FramesApart'
  BY <1>1, <1>2, <1>3, <1>5, ApartTop DEF InputHolding, FramesApart
<1>7. LocksTaken'
  <2>1. \A n \in 1..Depth : \A m \in LockingFrames(n) :
           /\ n \in 1..Depth' /\ m \in LockingFrames(n)'
           /\ stack'[n].ins[m] = stack[n].ins[m]
    BY <1>1, <1>2, <1>3, <1>4
  <2>2. \A n \in 1..Depth' : LockingFrames(n)' = LockingFrames(n) /\ n \in 1..Depth
    BY <1>1, <1>2, <1>3, <1>4
  <2>3. QED
    BY <1>2, <1>3, <2>1, <2>2, LocksKept DEF InputHolding
<1>8. QED
  BY <1>6, <1>7 DEF InputHolding

\* The locks are kept by a step inside an attempt that leaves the locking frames
\* of the top level alone.
LEMMA TopLocksKept ==
    ASSUME TypeOK, InputHolding, TopStep, UNCHANGED <<inputLock, inputLockCount>>,
           LockingFrames(Depth)' = LockingFrames(Depth),
           \A m \in LockingFrames(Depth) : Top'.ins[m] = Top.ins[m]
    PROVE  LocksTaken'
<1>1. /\ Depth \in Nat /\ Depth > 0 /\ Depth' = Depth
      /\ CommittedLevels' = CommittedLevels /\ CommittedLevels = 1..(Depth - 1)
  BY TopStepCommits, LevelFacts DEF TopStep
<1>2. \A n \in 1..(Depth - 1) :
         stack'[n] = stack[n] /\ n \in 1..Depth /\ LockingFrames(n)' = LockingFrames(n)
  BY <1>1, BelowKept DEF TopStep
<1>3. Top = stack[Depth] /\ Top' = stack'[Depth]
  BY <1>1 DEF Top
<1>4. \A n \in 1..Depth : n \in 1..(Depth - 1) \/ n = Depth
  BY <1>1
<1>5. \A n \in 1..Depth : \A m \in LockingFrames(n) :
         /\ n \in 1..Depth' /\ m \in LockingFrames(n)'
         /\ stack'[n].ins[m] = stack[n].ins[m]
  BY <1>1, <1>2, <1>3, <1>4
<1>6. \A n \in 1..Depth' : LockingFrames(n)' = LockingFrames(n) /\ n \in 1..Depth
  BY <1>1, <1>2, <1>4
<1>7. QED
  BY <1>1, <1>2, <1>5, <1>6, LocksKept DEF InputHolding

\* filtLockedInput leaves to the level what no level below it has taken.
LEMMA InputsEnter ==
    ASSUME TypeOK, TypeOK', InputHolding, EnterOutput
    PROVE  InputHolding'
<1>1. TopStep /\ Depth \in Nat /\ Depth > 0 /\ Depth' = Depth
      /\ \A n \in 1..(Depth - 1) : stack'[n] = stack[n]
  BY TopSteps, TopStepCommits, LevelFacts DEF TopStep
<1>2. /\ Top.ins = <<>> /\ Top'.ins = <<>>
      /\ Top'.todo = {i \in Range(Supp2[Top.out]) :
                         inputLock[i].c1 = None /\ ~Dangling(i, C1Output)}
      /\ Top'.locked = Locked(Top.out)
      /\ Top.out \in C2Out /\ C1Output \in C1Out
      /\ UNCHANGED <<inputLock, inputLockCount>>
  BY SeeEnterOutput DEF inputVars
<1>3. /\ Frames = 0 /\ Frames' = 0
      /\ LockingFrames(Depth) = {} /\ LockingFrames(Depth)' = {}
      /\ DOMAIN stack'[Depth].ins = {} /\ Top' = stack'[Depth] /\ Top = stack[Depth]
  BY <1>1, <1>2, FramesAre, FramesAreNext DEF TopFrames, Frames
<1>4. Inputs(Depth)' = {}
  BY <1>1, <1>3 DEF Inputs
<1>5. Range(Supp2[Top.out]) \subseteq C2In
  BY <1>2, FilterTyped DEF TypeOK
<1>6. ASSUME NEW k \in 1..(Depth - 1)
      PROVE  Inputs(k) \cap stack'[Depth].todo = {}
  <2>1. \A i : i \in Inputs(k) => inputLock[i].c1 # None
    BY BelowHolds, HeldLocked
  <2>2. QED
    BY <1>2, <1>3, <2>1
<1>7. ASSUME NEW i \in stack'[Depth].locked
      PROVE  \E k \in 1..(Depth - 1) : i \in Inputs(k)
  <2>1. i \in C2In /\ inputLock[i].c1 # None
    BY <1>2, <1>3, <1>5 DEF Locked
  <2>2. PICK k \in 1..Depth : Holds(k, i)
    BY <2>1, LockedHeld
  <2>3. k \in 1..(Depth - 1)
    BY <1>1, <1>3, <2>2 DEF Holds
  <2>4. QED
    BY <2>2, <2>3, BelowHolds
<1>8. FramesApart'
  BY <1>1, <1>3, <1>4, <1>6, <1>7, ApartTop DEF InputHolding
<1>9. LocksTaken'
  BY <1>1, <1>2, <1>3, TopLocksKept
<1>10. QED
  BY <1>8, <1>9 DEF InputHolding

\* The next input was left to the level, so nothing has taken it.
LEMMA InputsNext ==
    ASSUME TypeOK, TypeOK', InputHolding, NextInput
    PROVE  InputHolding'
<1>1. TopStep /\ Depth \in Nat /\ Depth > 0 /\ Depth' = Depth
      /\ \A n \in 1..(Depth - 1) : stack'[n] = stack[n]
  BY TopSteps, TopStepCommits, LevelFacts DEF TopStep
<1> DEFINE i == C2Input'
<1>2. /\ Frames' = Frames + 1 /\ i \in Top.todo
      /\ Top'.todo = Top.todo \ {i}
      /\ \A m \in 1..Frames : Top'.ins[m] = Top.ins[m]
      /\ Top'.ins[Frames + 1].i = i
      /\ Top'.locked = Top.locked
      /\ UNCHANGED <<inputLock, inputLockCount>>
      /\ pc = "match_input" /\ pc' = "input_cand"
  BY SeeNextInput DEF inputVars
<1>3. /\ Frames \in Nat /\ DOMAIN Top.ins = 1..Frames /\ DOMAIN Top'.ins = 1..(Frames + 1)
      /\ LockingFrames(Depth) = 1..Frames /\ LockingFrames(Depth)' = 1..Frames
      /\ Top' = stack'[Depth] /\ Top = stack[Depth]
  BY <1>1, <1>2, FramesAre, FramesAreNext DEF TopFrames
<1> HIDE DEF i
<1>4. 1..(Frames + 1) = 1..Frames \cup {Frames + 1}
  BY <1>3
<1>5. Inputs(Depth)' = Inputs(Depth) \cup {i}
  <2>1. \A j : j \in Inputs(Depth)' <=> \E m \in 1..(Frames + 1) : Top'.ins[m].i = j
    BY <1>1, <1>2, InputsAreNext DEF TopInputs
  <2>2. \A j : j \in Inputs(Depth) <=> \E m \in 1..Frames : Top.ins[m].i = j
    BY <1>1, InputsAre DEF TopInputs
  <2>3. QED
    BY <1>2, <1>4, <2>1, <2>2
<1>6. /\ \A a, b \in 1..Frames : Top.ins[a].i = Top.ins[b].i => a = b
      /\ Inputs(Depth) \cap Top.todo = {}
      /\ \A k \in 1..(Depth - 1) : Inputs(k) \cap (Inputs(Depth) \cup Top.todo) = {}
      /\ \A j \in Top.locked : \E k \in 1..(Depth - 1) : j \in Inputs(k)
  BY <1>1, <1>3 DEF InputHolding, FramesApart
<1>7. \A a \in 1..Frames : Top.ins[a].i # i
  BY <1>1, <1>2, <1>6, InputsAre DEF TopInputs
<1>8. \A a, b \in 1..(Frames + 1) : Top'.ins[a].i = Top'.ins[b].i => a = b
  BY <1>2, <1>4, <1>6, <1>7
<1>9. /\ Inputs(Depth)' \cap Top'.todo = {}
      /\ \A k \in 1..(Depth - 1) : Inputs(k) \cap (Inputs(Depth)' \cup Top'.todo) = {}
  BY <1>2, <1>5, <1>6
<1>10. FramesApart'
  BY <1>1, <1>2, <1>3, <1>6, <1>8, <1>9, ApartTop DEF InputHolding
<1>11. LocksTaken'
  BY <1>1, <1>2, <1>3, TopLocksKept
<1>12. QED
  BY <1>10, <1>11 DEF InputHolding

\* The input given back was in no other frame.
LEMMA InputsGivenBack ==
    ASSUME TypeOK, TypeOK', InputHolding, NoMoreInputs
    PROVE  InputHolding'
<1>1. TopStep /\ Depth \in Nat /\ Depth > 0 /\ Depth' = Depth
      /\ \A n \in 1..(Depth - 1) : stack'[n] = stack[n]
  BY TopSteps, TopStepCommits, LevelFacts DEF TopStep
<1>2. /\ Frames > 0 /\ Frames' = Frames - 1
      /\ Top'.todo = Top.todo \cup {C2Input}
      /\ \A m \in 1..(Frames - 1) : Top'.ins[m] = Top.ins[m]
      /\ Top'.locked = Top.locked
      /\ UNCHANGED <<inputLock, inputLockCount>>
      /\ pc = "input_cand" /\ pc' = "input_back"
  BY SeeNoMoreInputs DEF inputVars
<1>3. /\ Frames \in Nat /\ DOMAIN Top.ins = 1..Frames /\ DOMAIN Top'.ins = 1..(Frames - 1)
      /\ LockingFrames(Depth) = 1..(Frames - 1) /\ LockingFrames(Depth)' = 1..(Frames - 1)
      /\ Top' = stack'[Depth] /\ Top = stack[Depth]
      /\ C2Input = Top.ins[Frames].i
  BY <1>1, <1>2, FramesAre, FramesAreNext DEF TopFrames, C2Input, Frame
<1>4. 1..Frames = 1..(Frames - 1) \cup {Frames} /\ Frames \notin 1..(Frames - 1)
  BY <1>2, <1>3
<1>5. Inputs(Depth)' \cup {C2Input} = Inputs(Depth)
  <2>1. \A j : j \in Inputs(Depth)' <=> \E m \in 1..(Frames - 1) : Top'.ins[m].i = j
    BY <1>1, <1>2, InputsAreNext DEF TopInputs
  <2>2. \A j : j \in Inputs(Depth) <=> \E m \in 1..Frames : Top.ins[m].i = j
    BY <1>1, InputsAre DEF TopInputs
  <2>3. QED
    BY <1>2, <1>3, <1>4, <2>1, <2>2
<1>6. /\ \A a, b \in 1..Frames : Top.ins[a].i = Top.ins[b].i => a = b
      /\ Inputs(Depth) \cap Top.todo = {}
      /\ \A k \in 1..(Depth - 1) : Inputs(k) \cap (Inputs(Depth) \cup Top.todo) = {}
      /\ \A j \in Top.locked : \E k \in 1..(Depth - 1) : j \in Inputs(k)
  BY <1>1, <1>3 DEF InputHolding, FramesApart
<1>7. C2Input \notin Inputs(Depth)'
  <2>1. \A a \in 1..(Frames - 1) : Top'.ins[a].i # C2Input
    BY <1>2, <1>3, <1>4, <1>6
  <2>2. QED
    BY <1>1, <1>2, <2>1, InputsAreNext DEF TopInputs
<1>8. \A a, b \in 1..(Frames - 1) : Top'.ins[a].i = Top'.ins[b].i => a = b
  BY <1>2, <1>4, <1>6
<1>9. /\ Inputs(Depth)' \cap Top'.todo = {}
      /\ \A k \in 1..(Depth - 1) : Inputs(k) \cap (Inputs(Depth)' \cup Top'.todo) = {}
  BY <1>2, <1>5, <1>6, <1>7
<1>10. FramesApart'
  BY <1>1, <1>2, <1>3, <1>6, <1>8, <1>9, ApartTop DEF InputHolding
<1>11. LocksTaken'
  BY <1>1, <1>2, <1>3, TopLocksKept
<1>12. QED
  BY <1>10, <1>11 DEF InputHolding

\* Nothing but the last frame of the top level holds its input, or waits for it.
LEMMA LastFrameAlone ==
    ASSUME TypeOK, InputHolding, pc \in {"input_cand", "neg", "input_back"}, Frames > 0
    PROVE  /\ \A n \in 1..(Depth - 1) : ~Holds(n, C2Input)
           /\ \A n \in CommittedLevels : n < Depth => C2Input \notin stack[n].locked
           /\ \A m \in 1..(Frames - 1) : Top.ins[m].i # C2Input
           /\ C2Input \in Inputs(Depth) /\ C2Input \in C2In /\ C2Input \notin Top.locked
<1>1. /\ Depth \in Nat /\ Depth \in 1..Depth /\ Frames \in Nat /\ Top = stack[Depth]
      /\ DOMAIN Top.ins = 1..Frames
      /\ C2Input = Top.ins[Frames].i /\ C2Input \in C2In
  BY InLoop, FramesAre, LevelFacts DEF TopFrames
<1>2. C2Input \in Inputs(Depth)
  BY <1>1 DEF Inputs
<1>3. \A k \in 1..(Depth - 1) : C2Input \notin Inputs(k)
  BY <1>1, <1>2 DEF InputHolding, FramesApart
<1>4. \A n \in 1..(Depth - 1) : ~Holds(n, C2Input)
  BY <1>3, BelowHolds
<1>5. \A n \in 1..Depth : C2Input \notin stack[n].locked
  <2>1. \A n \in 1..Depth : \A k \in 1..(n - 1) : k \in 1..(Depth - 1)
    BY <1>1
  <2>2. QED
    BY <1>3, <2>1 DEF InputHolding, FramesApart
<1>6. \A m \in 1..(Frames - 1) : Top.ins[m].i # C2Input
  <2>1. \A a, b \in 1..Frames : Top.ins[a].i = Top.ins[b].i => a = b
    BY <1>1 DEF InputHolding, FramesApart
  <2>2. \A m \in 1..(Frames - 1) : m \in 1..Frames /\ Frames \in 1..Frames /\ m # Frames
    BY <1>1
  <2>3. QED
    BY <1>1, <2>1, <2>2
<1>7. QED
  BY <1>1, <1>2, <1>4, <1>5, <1>6 DEF CommittedLevels

\* The inputs stay apart while the stack does not change.
LEMMA ApartSame ==
    ASSUME FramesApart, stack' = stack
    PROVE  FramesApart'
<1>1. Depth' = Depth /\ \A n : Inputs(n)' = Inputs(n)
  BY DEF Depth, Inputs
<1>2. QED
  BY <1>1 DEF FramesApart

\* match_input locks an input that nothing holds: it gets the candidate and the
\* polarity of its frame, and a count of one.
LEMMA InputsLock ==
    ASSUME TypeOK, TypeOK', InputHolding, AssignNeg
    PROVE  InputHolding'
<1>1. /\ TopStep /\ Depth \in Nat /\ Depth > 0 /\ Depth' = Depth
      /\ stack' = stack /\ Frames' = Frames /\ Top' = Top
      /\ pc = "neg" /\ pc' = "match_input"
      /\ CommittedLevels = 1..(Depth - 1) /\ CommittedLevels' = 1..(Depth - 1)
  BY TopSteps, TopStepCommits, LevelFacts, SeeSameStack DEF TopStep
<1> PICK x \in C2In : x = C2Input
  BY <1>1, InLoop
<1>2. /\ Frames > 0 /\ Frames \in Nat /\ Top = stack[Depth]
      /\ LockingFrames(Depth) = 1..(Frames - 1) /\ LockingFrames(Depth)' = 1..Frames
      /\ DOMAIN Top.ins = 1..Frames
      /\ x = Top.ins[Frames].i /\ Depth \in 1..Depth
  BY <1>1, FramesAre, FramesAreNext, InLoop DEF TopFrames
<1>3. /\ \A n \in 1..(Depth - 1) : ~Holds(n, x)
      /\ \A n \in 1..(Depth - 1) : x \notin stack[n].locked
      /\ \A m \in 1..(Frames - 1) : Top.ins[m].i # x
  BY <1>1, <1>2, LastFrameAlone
<1>4. \A n \in 1..(Depth - 1) : n \in 1..Depth /\ LockingFrames(n)' = LockingFrames(n)
  BY <1>1, BelowKept
<1>5. \A n \in 1..(Depth - 1) : \A i : Holds(n, i)' <=> Holds(n, i)
  BY <1>1, <1>4 DEF Holds
<1>6. \A i : Holds(Depth, i)' <=> Holds(Depth, i) \/ i = x
  <2>1. \A i : Holds(Depth, i)' <=> \E m \in 1..Frames : Top.ins[m].i = i
    BY <1>1, <1>2 DEF Holds
  <2>2. \A i : Holds(Depth, i) <=> \E m \in 1..(Frames - 1) : Top.ins[m].i = i
    BY <1>2 DEF Holds
  <2>3. 1..Frames = 1..(Frames - 1) \cup {Frames}
    BY <1>2
  <2>4. QED
    BY <1>2, <2>1, <2>2, <2>3
<1>7. 1..Depth = 1..(Depth - 1) \cup {Depth}
  BY <1>1
<1>8. LockedBy(x) = {} /\ LockedBy(x)' = {Depth}
  <2>1. ~Holds(Depth, x)
    BY <1>2, <1>3 DEF Holds
  <2>2. LockedBy(x) = {}
    BY <1>1, <1>3, <1>7, <2>1, HoldersAre
  <2>3. {n \in 1..Depth' : Holds(n, x)'} = {Depth}
    BY <1>1, <1>3, <1>5, <1>6, <1>7
  <2>4. {n \in CommittedLevels' : x \in stack'[n].locked} = {}
    BY <1>1, <1>3
  <2>5. QED
    BY <2>2, <2>3, <2>4, HoldersAre
<1>9. ASSUME NEW i \in C2In, i # x
      PROVE  LockedBy(i)' = LockedBy(i)
  <2>1. {n \in 1..Depth' : Holds(n, i)'} = {n \in 1..Depth : Holds(n, i)}
    BY <1>1, <1>5, <1>6, <1>7, <1>9
  <2>2. {n \in CommittedLevels' : i \in stack'[n].locked}
          = {n \in CommittedLevels : i \in stack[n].locked}
    BY <1>1
  <2>3. QED
    BY <2>1, <2>2, HoldersSame
<1>10. /\ inputLockCount[x] = 0
       /\ inputLockCount' = [inputLockCount EXCEPT ![x] = 1]
       /\ inputLock' = [inputLock EXCEPT ![x] = LockOf(Top.ins[Frames])]
  <2>1. inputLockCount[x] = 0
    BY <1>2, <1>8, FS_EmptySet DEF InputHolding, LocksTaken
  <2>2. inputLockCount' = [inputLockCount EXCEPT ![x] = 1]
    BY <2>1 DEF AssignNeg
  <2>3. [c1 |-> C1Input, neg |-> Frame.neg] = LockOf(Top.ins[Frames])
    BY DEF LockOf, Choice, C1Input, C2Input, Frame
  <2>4. QED
    BY <2>1, <2>2, <2>3 DEF AssignNeg
<1>11. inputLock \in [C2In -> InputLock] /\ inputLockCount \in [C2In -> Int]
  BY DEF TypeOK, Typed
<1>12. \A i \in C2In : inputLockCount'[i] = Cardinality(LockedBy(i)')
  <2>1. inputLockCount'[x] = Cardinality(LockedBy(x)')
    BY <1>2, <1>8, <1>10, <1>11, FS_Singleton
  <2>2. ASSUME NEW i \in C2In, i # x
        PROVE  inputLockCount'[i] = Cardinality(LockedBy(i)')
    BY <1>9, <1>10, <1>11, <2>2 DEF InputHolding, LocksTaken
  <2>3. QED
    BY <2>1, <2>2
<1>13. \A i \in C2In : inputLock'[i] # NoLock => \E n \in 1..Depth' : Holds(n, i)'
  <2>1. ASSUME NEW i \in C2In, i # x, inputLock'[i] # NoLock
        PROVE  \E n \in 1..Depth' : Holds(n, i)'
    <3>1. inputLock[i] # NoLock
      BY <1>10, <1>11, <2>1
    <3>2. PICK n \in 1..Depth : Holds(n, i)
      BY <3>1 DEF InputHolding, LocksTaken
    <3>3. QED
      BY <1>1, <1>5, <1>6, <1>7, <3>2
  <2>2. QED
    BY <1>1, <1>2, <1>6, <2>1
<1>14. ASSUME NEW n \in 1..Depth', NEW m \in LockingFrames(n)'
       PROVE  inputLock'[stack'[n].ins[m].i] = LockOf(stack'[n].ins[m])
  <2>1. CASE n = Depth /\ m = Frames
    BY <1>1, <1>2, <1>10, <1>11, <2>1
  <2>2. CASE ~(n = Depth /\ m = Frames)
    <3>1. n \in 1..Depth /\ m \in LockingFrames(n)
      BY <1>1, <1>2, <1>4, <1>7, <2>2
    <3>2. inputLock[stack[n].ins[m].i] = LockOf(stack[n].ins[m]) /\ Holds(n, stack[n].ins[m].i)
      BY <3>1 DEF InputHolding, LocksTaken, Holds
    <3>3. stack[n].ins[m].i # x
      BY <1>2, <1>3, <1>7, <3>1, <3>2
    <3>4. stack[n].ins[m].i \in C2In
      BY <3>1, LevelFacts
    <3>5. QED
      BY <1>1, <1>10, <1>11, <3>2, <3>3, <3>4
  <2>3. QED
    BY <2>1, <2>2
<1>15. LocksTaken'
  BY <1>12, <1>13, <1>14 DEF LocksTaken, LockOf, Choice
<1>16. FramesApart'
  BY <1>1, ApartSame DEF InputHolding
<1>17. QED
  BY <1>15, <1>16 DEF InputHolding

\* The polarity failed: its frame was the only holder of the lock, so the lock
\* is gone with it.
LEMMA InputsUnlock ==
    ASSUME TypeOK, TypeOK', InputHolding, UnlockInput
    PROVE  InputHolding'
<1>1. /\ TopStep /\ Depth \in Nat /\ Depth > 0 /\ Depth' = Depth
      /\ \A n \in 1..(Depth - 1) : stack'[n] = stack[n]
      /\ pc = "input_back" /\ pc' = "neg" /\ Frames' = Frames /\ Frames > 0
      /\ CommittedLevels = 1..(Depth - 1) /\ CommittedLevels' = 1..(Depth - 1)
  BY TopSteps, TopStepCommits, LevelFacts, SeeLastFrame DEF TopStep
<1> PICK x \in C2In : x = C2Input
  BY <1>1, InLoop
<1>2. /\ Frames \in Nat /\ Top = stack[Depth] /\ Top' = stack'[Depth]
      /\ LockingFrames(Depth) = 1..Frames /\ LockingFrames(Depth)' = 1..(Frames - 1)
      /\ DOMAIN Top.ins = 1..Frames /\ DOMAIN Top'.ins = 1..Frames
      /\ x = Top.ins[Frames].i /\ Depth \in 1..Depth
  BY <1>1, FramesAre, FramesAreNext, InLoop DEF TopFrames
<1>3. /\ \A m \in 1..(Frames - 1) : Top'.ins[m] = Top.ins[m]
      /\ Top'.ins[Frames].i = x
      /\ Top'.todo = Top.todo /\ Top'.locked = Top.locked
  BY SeeLastFrame
<1>4. /\ \A n \in 1..(Depth - 1) : ~Holds(n, x)
      /\ \A n \in 1..(Depth - 1) : x \notin stack[n].locked
      /\ \A m \in 1..(Frames - 1) : Top.ins[m].i # x
  BY <1>1, <1>2, LastFrameAlone
<1>5. \A n \in 1..(Depth - 1) :
         n \in 1..Depth /\ LockingFrames(n)' = LockingFrames(n) /\ Inputs(n)' = Inputs(n)
  BY <1>1, BelowKept
<1>6. \A n \in 1..(Depth - 1) : \A i : Holds(n, i)' <=> Holds(n, i)
  BY <1>1, <1>5 DEF Holds
<1>7. 1..Frames = 1..(Frames - 1) \cup {Frames} /\ 1..Depth = 1..(Depth - 1) \cup {Depth}
  BY <1>1, <1>2
<1>8. \A i : Holds(Depth, i) <=> Holds(Depth, i)' \/ i = x
  <2>1. \A i : Holds(Depth, i)' <=> \E m \in 1..(Frames - 1) : Top.ins[m].i = i
    BY <1>1, <1>2, <1>3 DEF Holds
  <2>2. \A i : Holds(Depth, i) <=> \E m \in 1..Frames : Top.ins[m].i = i
    BY <1>2 DEF Holds
  <2>3. QED
    BY <1>2, <1>7, <2>1, <2>2
<1>9. ~Holds(Depth, x)'
  BY <1>1, <1>2, <1>3, <1>4 DEF Holds
<1>10. LockedBy(x) = {Depth} /\ LockedBy(x)' = {}
  <2>1. {n \in 1..Depth : Holds(n, x)} = {Depth}
    BY <1>4, <1>7, <1>8
  <2>2. {n \in CommittedLevels : x \in stack[n].locked} = {}
    BY <1>1, <1>4
  <2>3. {n \in 1..Depth' : Holds(n, x)'} = {}
    BY <1>1, <1>4, <1>6, <1>7, <1>9
  <2>4. {n \in CommittedLevels' : x \in stack'[n].locked} = {}
    BY <1>1, <1>4
  <2>5. QED
    BY <2>1, <2>2, <2>3, <2>4, HoldersAre
<1>11. ASSUME NEW i \in C2In, i # x
       PROVE  LockedBy(i)' = LockedBy(i)
  <2>1. {n \in 1..Depth' : Holds(n, i)'} = {n \in 1..Depth : Holds(n, i)}
    BY <1>1, <1>6, <1>7, <1>8, <1>11
  <2>2. {n \in CommittedLevels' : i \in stack'[n].locked}
          = {n \in CommittedLevels : i \in stack[n].locked}
    BY <1>1
  <2>3. QED
    BY <2>1, <2>2, HoldersSame
<1>12. /\ inputLockCount' = [inputLockCount EXCEPT ![x] = 0]
       /\ inputLock' = [inputLock EXCEPT ![x] = NoLock]
  <2>1. inputLockCount[x] = 1
    BY <1>10, FS_Singleton DEF InputHolding, LocksTaken
  <2>2. inputLockCount' = [inputLockCount EXCEPT ![x] = 0]
    BY <2>1 DEF UnlockInput
  <2>3. QED
    BY <2>1, <2>2 DEF UnlockInput, LockLeft
<1>13. inputLock \in [C2In -> InputLock] /\ inputLockCount \in [C2In -> Int]
  BY DEF TypeOK, Typed
<1>14. \A i \in C2In : inputLockCount'[i] = Cardinality(LockedBy(i)')
  <2>1. inputLockCount'[x] = Cardinality(LockedBy(x)')
    BY <1>10, <1>12, <1>13, FS_EmptySet
  <2>2. ASSUME NEW i \in C2In, i # x
        PROVE  inputLockCount'[i] = Cardinality(LockedBy(i)')
    BY <1>11, <1>12, <1>13, <2>2 DEF InputHolding, LocksTaken
  <2>3. QED
    BY <2>1, <2>2
<1>15. \A i \in C2In : inputLock'[i] # NoLock => \E n \in 1..Depth' : Holds(n, i)'
  <2>1. SUFFICES ASSUME NEW i \in C2In, inputLock'[i] # NoLock
                 PROVE  \E n \in 1..Depth' : Holds(n, i)'
    OBVIOUS
  <2>2. i # x /\ inputLock[i] # NoLock
    BY <1>12, <1>13, <2>1
  <2>3. PICK n \in 1..Depth : Holds(n, i)
    BY <2>2 DEF InputHolding, LocksTaken
  <2>4. QED
    BY <1>1, <1>6, <1>7, <1>8, <2>2, <2>3
<1>16. ASSUME NEW n \in 1..Depth', NEW m \in LockingFrames(n)'
       PROVE  inputLock'[stack'[n].ins[m].i] = LockOf(stack'[n].ins[m])
  <2>1. /\ n \in 1..Depth /\ m \in LockingFrames(n) /\ stack'[n].ins[m] = stack[n].ins[m]
        /\ n = Depth => m \in 1..(Frames - 1)
    BY <1>1, <1>2, <1>3, <1>5, <1>7
  <2>2. inputLock[stack[n].ins[m].i] = LockOf(stack[n].ins[m]) /\ Holds(n, stack[n].ins[m].i)
    BY <2>1 DEF InputHolding, LocksTaken, Holds
  <2>3. stack[n].ins[m].i # x /\ stack[n].ins[m].i \in C2In
    BY <1>2, <1>4, <1>7, <2>1, <2>2, LevelFacts
  <2>4. QED
    BY <1>12, <1>13, <2>1, <2>2, <2>3
<1>17. LocksTaken'
  BY <1>14, <1>15, <1>16 DEF LocksTaken, LockOf, Choice
<1>18. FramesApart'
  <2>1. \A m \in 1..Frames : Top'.ins[m].i = Top.ins[m].i
    BY <1>2, <1>3, <1>7
  <2>2. Inputs(Depth)' = Inputs(Depth)
    BY <1>1, <1>2, <2>1 DEF Inputs
  <2>3. /\ \A a, b \in 1..Frames : Top.ins[a].i = Top.ins[b].i => a = b
        /\ Inputs(Depth) \cap Top.todo = {}
        /\ \A k \in 1..(Depth - 1) : Inputs(k) \cap (Inputs(Depth) \cup Top.todo) = {}
        /\ \A j \in Top.locked : \E k \in 1..(Depth - 1) : j \in Inputs(k)
    BY <1>1, <1>2 DEF InputHolding, FramesApart
  <2>4. /\ \A a, b \in DOMAIN stack'[Depth].ins :
               stack'[Depth].ins[a].i = stack'[Depth].ins[b].i => a = b
        /\ Inputs(Depth)' \cap stack'[Depth].todo = {}
    BY <1>2, <1>3, <2>1, <2>2, <2>3
  <2>5. /\ \A k \in 1..(Depth - 1) :
               Inputs(k) \cap (Inputs(Depth)' \cup stack'[Depth].todo) = {}
        /\ \A j \in stack'[Depth].locked : \E k \in 1..(Depth - 1) : j \in Inputs(k)
    BY <1>2, <1>3, <2>2, <2>3
  <2>6. QED
    BY <1>1, <2>4, <2>5, ApartTop DEF InputHolding
<1>19. QED
  BY <1>17, <1>18 DEF InputHolding

\* Committing a pair, undoing it, ending the search: the frames are those of
\* before, only the top level begins or ceases to hold what it recorded, which
\* it does not hold with a frame of its own.
LEMMA InputsCommit ==
    ASSUME TypeOK, TypeOK', InputHolding, MiterAccepts \/ UndoOutput \/ AllMatched
    PROVE  InputHolding'
<1>1. /\ stack' = stack /\ Depth' = Depth /\ Depth \in Nat
      /\ UNCHANGED inputLock
      /\ pc \notin {"input_cand", "neg"} /\ pc' \notin {"input_cand", "neg"}
      /\ MiterAccepts => CommittedLevels = 1..(Depth - 1) /\ CommittedLevels' = 1..Depth
      /\ UndoOutput => CommittedLevels = 1..Depth /\ CommittedLevels' = 1..(Depth - 1)
      /\ AllMatched => CommittedLevels' = CommittedLevels /\ UNCHANGED inputLockCount
      /\ (MiterAccepts \/ UndoOutput) => Depth > 0
      /\ Depth > 0 => 1..Depth = (1..(Depth - 1)) \cup {Depth}
  BY SeeCommits DEF inputVars
<1>2. /\ \A n \in 1..Depth : /\ LockingFrames(n)' = LockingFrames(n)
                             /\ LockingFrames(n) = DOMAIN stack[n].ins
      /\ \A n \in 1..Depth : \A i : Holds(n, i) <=> i \in Inputs(n)
      /\ \A n \in 1..Depth : \A i : Holds(n, i)' <=> i \in Inputs(n)
  BY <1>1, AllLock, AllLockNext DEF AllLocking, Inputs
<1>3. FramesApart'
  BY <1>1, ApartSame DEF InputHolding
<1>4. Depth > 0 => \A i : i \in Top.locked => i \notin Inputs(Depth)
  BY <1>1 DEF InputHolding, FramesApart, Top
<1>5. ASSUME NEW i \in C2In
      PROVE  inputLockCount'[i] = Cardinality(LockedBy(i)')
  <2> DEFINE own == {n \in 1..Depth : i \in Inputs(n)}
             below == {n \in 1..(Depth - 1) : i \in stack[n].locked}
  <2>1. /\ LockedBy(i) = own \cup {n \in CommittedLevels : i \in stack[n].locked}
        /\ LockedBy(i)' = own \cup {n \in CommittedLevels' : i \in stack[n].locked}
    <3>1. {n \in 1..Depth : Holds(n, i)} = own /\ {n \in 1..Depth' : Holds(n, i)'} = own
      BY <1>1, <1>2
    <3>2. QED
      BY <1>1, <3>1, HoldersAre
  <2>2. inputLockCount[i] = Cardinality(LockedBy(i))
    BY DEF InputHolding, LocksTaken
  <2>3. inputLockCount \in [C2In -> Int]
    BY DEF TypeOK, Typed
  <2>4. CASE AllMatched
    BY <1>1, <2>1, <2>2, <2>4
  <2>5. CASE MiterAccepts \/ UndoOutput
    <3>1. IsFiniteSet(own \cup below)
      <4>1. IsFiniteSet(1..Depth)
        BY <1>1, FS_Interval
      <4>2. own \cup below \subseteq 1..Depth
        BY <1>1
      <4> HIDE DEF own, below
      <4>3. QED
        BY <4>1, <4>2, FS_Subset
    <3>2. ASSUME i \in Top.locked
          PROVE  /\ Depth \notin own \cup below
                 /\ Cardinality(own \cup below \cup {Depth}) = Cardinality(own \cup below) + 1
      <4>1. Depth \notin own \cup below
        BY <1>1, <1>4, <2>5, <3>2
      <4>2. QED
        BY <3>1, <4>1, FS_AddElement
    <3>3. /\ {n \in 1..Depth : i \in stack[n].locked}
               = IF i \in Top.locked THEN below \cup {Depth} ELSE below
      <4>1. Depth > 0 /\ 1..Depth = (1..(Depth - 1)) \cup {Depth} /\ Top = stack[Depth]
        BY <1>1, <2>5 DEF Top
      <4>2. QED
        BY <4>1
    <3>4. Cardinality(own \cup below) \in Nat
      BY <3>1, FS_CardinalityType
    <3>5. CASE MiterAccepts
      <4>1. inputLockCount'[i] = inputLockCount[i] + IF i \in Top.locked THEN 1 ELSE 0
        BY <3>5 DEF MiterAccepts, RecordLocks
      <4>2. LockedBy(i) = own \cup below
        BY <1>1, <2>1, <3>5
      <4>3. LockedBy(i)' = own \cup IF i \in Top.locked THEN below \cup {Depth} ELSE below
        BY <1>1, <2>1, <3>3, <3>5
      <4> HIDE DEF own, below
      <4>4. CASE i \in Top.locked
        <5>1. LockedBy(i)' = own \cup below \cup {Depth}
          BY <4>3, <4>4
        <5>2. QED
          BY <2>2, <3>2, <3>4, <4>1, <4>2, <4>4, <5>1
      <4>5. CASE i \notin Top.locked
        BY <2>2, <2>3, <3>4, <4>1, <4>2, <4>3, <4>5
      <4>6. QED
        BY <4>4, <4>5
    <3>6. CASE UndoOutput
      <4>1. inputLockCount'[i] = inputLockCount[i] + IF i \in Top.locked THEN -1 ELSE 0
        BY <3>6 DEF UndoOutput, RecordLocks
      <4>2. LockedBy(i)' = own \cup below
        BY <1>1, <2>1, <3>6
      <4>3. LockedBy(i) = own \cup IF i \in Top.locked THEN below \cup {Depth} ELSE below
        BY <1>1, <2>1, <3>3, <3>6
      <4> HIDE DEF own, below
      <4>4. CASE i \in Top.locked
        <5>1. LockedBy(i) = own \cup below \cup {Depth}
          BY <4>3, <4>4
        <5>2. QED
          BY <2>2, <3>2, <3>4, <4>1, <4>2, <4>4, <5>1
      <4>5. CASE i \notin Top.locked
        BY <2>2, <2>3, <3>4, <4>1, <4>2, <4>3, <4>5
      <4>6. QED
        BY <4>4, <4>5
    <3>7. QED
      BY <2>5, <3>5, <3>6
  <2>6. QED
    BY <2>4, <2>5
<1>6. LocksTaken'
  <2>1. \A i \in C2In : inputLock'[i] # NoLock => \E n \in 1..Depth' : Holds(n, i)'
    BY <1>1, <1>2 DEF InputHolding, LocksTaken
  <2>2. \A n \in 1..Depth' : \A m \in LockingFrames(n)' :
           inputLock'[stack'[n].ins[m].i] = LockOf(stack'[n].ins[m])
    BY <1>1, <1>2 DEF InputHolding, LocksTaken
  <2>3. QED
    BY <1>5, <2>1, <2>2 DEF LocksTaken, LockOf, Choice
<1>7. QED
  BY <1>3, <1>6 DEF InputHolding

\* A new level has taken nothing, and a level that returns has given all back.
LEMMA InputsCalls ==
    ASSUME TypeOK, TypeOK', InputHolding, ChooseOutput \/ NoMoreOutputs
    PROVE  InputHolding'
<1>1. CASE ChooseOutput
  <2> PICK d \in Nat : d = Depth + 1
    BY <1>1, SeeChooseOutput
  <2>1. /\ Depth \in Nat /\ Depth' = Depth + 1
        /\ \A n \in 1..Depth : stack'[n] = stack[n] /\ Inputs(n)' = Inputs(n)
        /\ stack'[d].ins = <<>> /\ stack'[d].todo = {}
        /\ stack'[d].locked = {}
        /\ 1..Depth' = 1..Depth \cup {d}
        /\ CommittedLevels = 1..Depth /\ CommittedLevels' = 1..Depth
        /\ UNCHANGED <<inputLock, inputLockCount>>
        /\ pc = "match_output" /\ pc' = "output_cand"
    BY <1>1, SeeChooseOutput DEF inputVars
  <2>2. /\ DOMAIN stack'[d].ins = {} /\ Inputs(d)' = {}
        /\ LockingFrames(d)' = {}
    BY <2>1, AllLockNext DEF Inputs, AllLocking
  <2>3. \A n \in 1..Depth : /\ LockingFrames(n)' = LockingFrames(n)
                            /\ n \in 1..Depth' /\ LockingFrames(n) = DOMAIN stack[n].ins
    BY <2>1, AllLock, AllLockNext DEF AllLocking
  <2>4. LocksTaken'
    <3>1. \A n \in 1..Depth' : \A m \in LockingFrames(n)' :
             n \in 1..Depth /\ m \in LockingFrames(n) /\ stack'[n].ins[m] = stack[n].ins[m]
      BY <2>1, <2>2, <2>3
    <3>2. \A n \in 1..Depth : \A m \in LockingFrames(n) :
             n \in 1..Depth' /\ m \in LockingFrames(n)' /\ stack'[n].ins[m] = stack[n].ins[m]
      BY <2>1, <2>3
    <3>3. QED
      BY <2>1, <3>1, <3>2, LocksKept DEF InputHolding
  <2>5. FramesApart'
    <3>1. SUFFICES ASSUME NEW n \in 1..Depth'
                   PROVE  /\ \A a, b \in DOMAIN stack'[n].ins :
                                stack'[n].ins[a].i = stack'[n].ins[b].i => a = b
                          /\ Inputs(n)' \cap stack'[n].todo = {}
                          /\ \A k \in 1..(n - 1) :
                                Inputs(k)' \cap (Inputs(n)' \cup stack'[n].todo) = {}
                          /\ \A i \in stack'[n].locked : \E k \in 1..(n - 1) : i \in Inputs(k)'
      BY DEF FramesApart
    <3>2. CASE n = d
      BY <2>1, <2>2, <3>2
    <3>3. CASE n \in 1..Depth
      <4>1. \A k \in 1..(n - 1) : k \in 1..Depth
        BY <2>1, <3>3
      <4>2. QED
        BY <2>1, <3>3, <4>1 DEF InputHolding, FramesApart
    <3>4. QED
      BY <2>1, <3>2, <3>3
  <2>6. QED
    BY <2>4, <2>5 DEF InputHolding
<1>2. CASE NoMoreOutputs
  <2>1. /\ Depth \in Nat /\ Depth > 0 /\ Depth' = Depth - 1
        /\ \A n \in 1..(Depth - 1) :
              n \in 1..Depth /\ stack'[n] = stack[n] /\ Inputs(n)' = Inputs(n)
        /\ stack[Depth].ins = <<>>
        /\ 1..Depth = (1..(Depth - 1)) \cup {Depth}
        /\ CommittedLevels = 1..(Depth - 1) /\ CommittedLevels' = 1..(Depth - 1)
        /\ UNCHANGED <<inputLock, inputLockCount>>
        /\ pc = "output_cand" /\ pc' \in {"done", "output_back"}
    BY <1>2, SeeNoMoreOutputs DEF inputVars
  <2>2. DOMAIN stack[Depth].ins = {}
    BY <2>1
  <2>3. LockingFrames(Depth) = {}
    BY <2>1, <2>2 DEF LockingFrames
  <2>4. \A n \in 1..(Depth - 1) : LockingFrames(n)' = LockingFrames(n)
    BY <2>1, AllLock, AllLockNext DEF AllLocking
  <2>5. LocksTaken'
    BY <2>1, <2>3, <2>4, LocksKept DEF InputHolding
  <2>6. FramesApart'
    <3>1. SUFFICES ASSUME NEW n \in 1..(Depth - 1)
                   PROVE  /\ \A a, b \in DOMAIN stack'[n].ins :
                                stack'[n].ins[a].i = stack'[n].ins[b].i => a = b
                          /\ Inputs(n)' \cap stack'[n].todo = {}
                          /\ \A k \in 1..(n - 1) :
                                Inputs(k)' \cap (Inputs(n)' \cup stack'[n].todo) = {}
                          /\ \A i \in stack'[n].locked : \E k \in 1..(n - 1) : i \in Inputs(k)'
      BY <2>1 DEF FramesApart
    <3>2. \A k \in 1..(n - 1) : k \in 1..(Depth - 1)
      BY <2>1
    <3>3. QED
      BY <2>1, <3>2 DEF InputHolding, FramesApart
  <2>7. QED
    BY <2>5, <2>6 DEF InputHolding
<1>3. QED
  BY <1>1, <1>2

\* The search starts with nothing taken.
LEMMA InputsInit == Init => InputHolding
<1> SUFFICES ASSUME Init PROVE InputHolding
  OBVIOUS
<1>1. Depth = 0
  BY DEF Init, Depth
<1>2. FramesApart
  BY <1>1 DEF FramesApart
<1>3. \A i : LockedBy(i) = {}
  BY <1>1 DEF LockedBy
<1>4. LocksTaken
  <2>1. \A i \in C2In : inputLockCount[i] = 0 /\ inputLock[i] = NoLock
    BY DEF Init
  <2>2. 1..Depth = {}
    BY <1>1
  <2>3. QED
    BY <1>3, <2>1, <2>2, FS_EmptySet DEF LocksTaken
<1>5. QED
  BY <1>2, <1>4 DEF InputHolding

\* A step in which nothing of the search changes.
LEMMA InputsStutter ==
    ASSUME InputHolding, UNCHANGED vars
    PROVE  InputHolding'
<1>1. /\ stack' = stack /\ pc' = pc /\ findOutputBest' = findOutputBest
      /\ inputLock' = inputLock /\ inputLockCount' = inputLockCount
  BY DEF vars, inputVars
<1>2. Depth' = Depth /\ CommittedLevels' = CommittedLevels
      /\ \A n : LockingFrames(n)' = LockingFrames(n)
  BY <1>1 DEF Depth, CommittedLevels, Committed, LockingFrames, Frames, Top
<1>3. LocksTaken'
  BY <1>1, <1>2, LocksKept DEF InputHolding
<1>4. QED
  BY <1>1, <1>3, ApartSame DEF InputHolding

\* InputHolding is inductive: every step of the search keeps it.
LEMMA InputsStep == TypeOK /\ InputHolding /\ [Next]_vars => InputHolding'
<1> SUFFICES ASSUME TypeOK, InputHolding, [Next]_vars PROVE InputHolding'
  OBVIOUS
<1>1. TypeOK'
  BY TypeStep
<1>2. CASE MatchOutput
  BY <1>1, <1>2, InputsCommit, InputsCalls, InputsQuiet, InputsEnter DEF MatchOutput
<1>3. CASE MatchInput
  BY <1>1, <1>3, InputsNext, InputsQuiet, InputsCommit, InputsGivenBack, InputsLock, InputsUnlock
     DEF MatchInput
<1>4. CASE Done \/ UNCHANGED vars
  BY <1>4, InputsStutter DEF Done
<1>5. QED
  BY <1>2, <1>3, <1>4 DEF Next

\* Over every path of the backtracking each circuit-2 input is taken by at most
\* one activation of match_input, and inputLock and inputLockCount say which.
THEOREM InputsInvariant == Spec => []InputHolding
<1>1. Init => InputHolding
  BY InputsInit
<1>2. TypeOK /\ InputHolding /\ [Next]_vars => InputHolding'
  BY InputsStep
<1>3. QED
  BY <1>1, <1>2, TypeCorrect, PTL DEF Spec

\* What holds an input is a frame of some level, so a lock without a holder and
\* a holder without a lock are both excluded.
LEMMA HoldingLocks == TypeOK /\ InputHolding => InputLocksHeld
<1> SUFFICES ASSUME TypeOK, InputHolding PROVE InputLocksHeld
  OBVIOUS
<1>1. ASSUME NEW i \in C2In
      PROVE  (inputLock[i] = NoLock) = (LockedBy(i) = {})
  <2>1. (inputLock[i] # NoLock) <=> (\E n \in 1..Depth : Holds(n, i))
    BY LockedHeld
  <2>2. ASSUME NEW n \in CommittedLevels, i \in stack[n].locked
        PROVE  \E k \in 1..Depth : Holds(k, i)
    <3>1. n \in 1..Depth /\ Depth \in Nat
      BY LevelFacts DEF CommittedLevels
    <3>2. PICK k \in 1..(n - 1) : i \in Inputs(k)
      BY <2>2, <3>1 DEF InputHolding, FramesApart
    <3>3. k \in 1..(Depth - 1) /\ k \in 1..Depth
      BY <3>1
    <3>4. QED
      BY <3>2, <3>3, BelowHolds
  <2>3. (LockedBy(i) = {}) <=> ~ \E n \in 1..Depth : Holds(n, i)
    BY <2>2, HoldersAre
  <2>4. QED
    BY <2>1, <2>3
<1>2. ASSUME NEW n \in 1..Depth, NEW m \in LockingFrames(n)
      PROVE  inputLock[stack[n].ins[m].i] =
                [c1 |-> InCand[stack[n].ins[m].i][stack[n].ins[m].j], neg |-> stack[n].ins[m].neg]
  BY DEF InputHolding, LocksTaken, LockOf, Choice
<1>3. QED
  BY <1>1, <1>2 DEF InputLocksHeld, InputHolding, LocksTaken

\* The counters of the input locks balance over every path of the backtracking:
\* an input is locked exactly while a level holds it, to what the frame that
\* took it chose.
THEOREM InputsHeld == Spec => []InputLocksHeld
<1>1. TypeOK /\ InputHolding => InputLocksHeld
  BY HoldingLocks
<1>2. QED
  BY <1>1, TypeCorrect, InputsInvariant, PTL
================================================================================
