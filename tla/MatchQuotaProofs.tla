-------------------------- MODULE MatchQuotaProofs ---------------------------
(***************************************************************************)
(* The circuit-1 inputs in use, and the quota of an attempt: MatchesCounted *)
(* is inductive and gives InputOneToOne; SupportSplit and QuotaKept are    *)
(* inductive and give SupportDriven, for every value of the constants.     *)
(* Then the bus maps: BusHolding is inductive when no circuit-1 input is   *)
(* exempt from the bus test, for every value of the other constants; it    *)
(* gives BusOneToOne, BusesHeld and, with the others, CleanUnwind.         *)
(***************************************************************************)
EXTENDS MatchSearchProofs

--------------------------------------------------------------------------------
(* The circuit-1 inputs that are in use *)

\* What the top level has placed on a circuit-1 input.
TopPlaced ==
    Depth > 0 => \A c, i : i \in Placed(Depth, c) <=>
                    \E m \in BoundFrames(Depth) : Top.ins[m].i = i /\ Choice(Top.ins[m]) = c

\* That is what its bound frames come to.
LEMMA PlacedAre == TypeOK => TopPlaced
<1> SUFFICES ASSUME TypeOK, Depth > 0, NEW c, NEW i
             PROVE  i \in Placed(Depth, c) <=>
                    \E m \in BoundFrames(Depth) : Top.ins[m].i = i /\ Choice(Top.ins[m]) = c
  BY DEF TopPlaced
<1>1. Top = stack[Depth]
  BY DEF Top
<1>2. QED
  BY <1>1 DEF Placed

\* The same in the state after a step.
LEMMA PlacedAreNext == TypeOK' => TopPlaced'
  BY PlacedAre, PTL

\* A level below the top keeps what it placed.
LEMMA PlacedBelow ==
    ASSUME TypeOK, Depth' = Depth, NEW n \in 1..(Depth - 1), stack'[n] = stack[n], NEW c
    PROVE  Placed(n, c)' = Placed(n, c)
<1>1. BoundFrames(n)' = BoundFrames(n)
  BY BelowKept
<1>2. QED
  BY <1>1 DEF Placed, Choice

\* The top level keeps what it placed when the frames it has placed before and
\* after differ only in frames that are at the constant.
LEMMA PlacedTopKept ==
    ASSUME TypeOK, TypeOK', Depth > 0, Depth' = Depth, NEW c \in C1In,
           \A m \in BoundFrames(Depth) :
              \/ m \in BoundFrames(Depth)' /\ Top'.ins[m].i = Top.ins[m].i
                                           /\ Choice(Top'.ins[m]) = Choice(Top.ins[m])
              \/ Choice(Top.ins[m]) = CONST,
           \A m \in BoundFrames(Depth)' :
              \/ m \in BoundFrames(Depth) /\ Top'.ins[m].i = Top.ins[m].i
                                          /\ Choice(Top'.ins[m]) = Choice(Top.ins[m])
              \/ Choice(Top'.ins[m]) = CONST
    PROVE  Placed(Depth, c)' = Placed(Depth, c)
<1>1. \A i : i \in Placed(Depth, c) <=>
         \E m \in BoundFrames(Depth) : Top.ins[m].i = i /\ Choice(Top.ins[m]) = c
  BY PlacedAre DEF TopPlaced
<1>2. \A i : i \in Placed(Depth, c)' <=>
         \E m \in BoundFrames(Depth)' : Top'.ins[m].i = i /\ Choice(Top'.ins[m]) = c
  BY PlacedAreNext DEF TopPlaced, Choice
<1>3. c # CONST
  BY PortsAssumption
<1>4. ASSUME NEW i, i \in Placed(Depth, c)
      PROVE  i \in Placed(Depth, c)'
  <2>1. PICK m \in BoundFrames(Depth) : Top.ins[m].i = i /\ Choice(Top.ins[m]) = c
    BY <1>1, <1>4
  <2>2. m \in BoundFrames(Depth)' /\ Top'.ins[m].i = i /\ Choice(Top'.ins[m]) = c
    BY <1>3, <2>1
  <2>3. QED
    BY <1>2, <2>2
<1>5. ASSUME NEW i, i \in Placed(Depth, c)'
      PROVE  i \in Placed(Depth, c)
  <2>1. PICK m \in BoundFrames(Depth)' : Top'.ins[m].i = i /\ Choice(Top'.ins[m]) = c
    BY <1>2, <1>5
  <2>2. m \in BoundFrames(Depth) /\ Top.ins[m].i = i /\ Choice(Top.ins[m]) = c
    BY <1>3, <2>1
  <2>3. QED
    BY <1>1, <2>2
<1>6. QED
  BY <1>4, <1>5

\* The steps inside an attempt that place nothing on a circuit-1 input.
Placeless ==
    \/ SkipOutput \/ EnterOutput \/ NextOutputCandidate
    \/ NextInput \/ MiterRejects \/ NoMoreInputs \/ SkipInput
    \/ BindConst \/ AssignNeg \/ UnbindConst \/ UnlockInput

\* They leave what the level has placed on a circuit-1 input, and its count, alone.
LEMMA PlacelessTop ==
    ASSUME TypeOK, TypeOK', Placeless, NEW c \in C1In
    PROVE  Placed(Depth, c)' = Placed(Depth, c) /\ UNCHANGED c1_inputMatchCount
<1>1. TopStep /\ Depth \in Nat /\ Depth > 0 /\ Depth' = Depth
  BY TopSteps, TopStepCommits, LevelFacts DEF TopStep, Placeless
<1>2. TopFrames /\ TopFrames'
  BY FramesAre, FramesAreNext
<1> DEFINE B == BoundFrames(Depth)
<1>3. CASE SkipOutput \/ EnterOutput \/ NextOutputCandidate
  <2>1. /\ Top.ins = <<>> /\ Top'.ins = <<>> /\ UNCHANGED c1_inputMatchCount
    BY <1>3, SeeNewCandidate, SeeEnterOutput DEF inputVars
  <2>2. DOMAIN Top.ins = {} /\ DOMAIN Top'.ins = {}
    BY <2>1
  <2>3. Top = stack[Depth] /\ Top' = stack'[Depth]
    BY <1>1, <1>2 DEF TopFrames
  <2>4. BoundFrames(Depth) = {} /\ BoundFrames(Depth)' = {}
    BY <1>1, <2>2, <2>3 DEF BoundFrames
  <2>5. QED
    BY <1>1, <2>1, <2>4, PlacedTopKept
<1>4. CASE MiterRejects \/ AssignNeg
  <2>1. /\ Top' = Top /\ Frames' = Frames /\ UNCHANGED c1_inputMatchCount
        /\ pc # "input_cand" /\ pc' # "input_cand"
    BY <1>4, SeeSameStack
  <2>2. BoundFrames(Depth) = 1..Frames /\ BoundFrames(Depth)' = 1..Frames
    BY <1>1, <1>2, <2>1 DEF TopFrames
  <2>3. QED
    BY <1>1, <2>1, <2>2, PlacedTopKept
<1>5. CASE NextInput
  <2>1. /\ \A m \in 1..Frames : Top'.ins[m] = Top.ins[m] /\ Frames' = Frames + 1
        /\ UNCHANGED c1_inputMatchCount /\ pc = "match_input" /\ pc' = "input_cand"
    BY <1>5, SeeNextInput DEF inputVars
  <2>2. BoundFrames(Depth) = 1..Frames /\ BoundFrames(Depth)' = 1..Frames
    BY <1>1, <1>2, <1>5, <2>1, SeeNextInput DEF TopFrames
  <2>3. QED
    BY <1>1, <2>1, <2>2, PlacedTopKept
<1>6. CASE NoMoreInputs
  <2>1. /\ \A m \in 1..(Frames - 1) : Top'.ins[m] = Top.ins[m]
        /\ Frames' = Frames - 1
        /\ UNCHANGED c1_inputMatchCount /\ pc = "input_cand" /\ pc' = "input_back"
    BY <1>6, SeeNoMoreInputs DEF inputVars
  <2>2. BoundFrames(Depth) = 1..(Frames - 1) /\ BoundFrames(Depth)' = 1..(Frames - 1)
    BY <1>1, <1>2, <2>1 DEF TopFrames
  <2>3. QED
    BY <1>1, <2>1, <2>2, PlacedTopKept
<1>7. CASE SkipInput
  <2>1. /\ \A m \in 1..(Frames - 1) : Top'.ins[m] = Top.ins[m]
        /\ Frames' = Frames
        /\ UNCHANGED c1_inputMatchCount /\ pc = "input_cand" /\ pc' = "input_cand"
    BY <1>7, SeeLastFrame DEF inputVars
  <2>2. BoundFrames(Depth) = 1..(Frames - 1) /\ BoundFrames(Depth)' = 1..(Frames - 1)
    BY <1>1, <1>2, <2>1 DEF TopFrames
  <2>3. QED
    BY <1>1, <2>1, <2>2, PlacedTopKept
<1>8. CASE UnlockInput
  <2>1. /\ \A m \in 1..(Frames - 1) : Top'.ins[m] = Top.ins[m]
        /\ Top'.ins[Frames] = [Frame EXCEPT !.neg = @ + 1]
        /\ Frames' = Frames /\ Frames > 0
        /\ UNCHANGED c1_inputMatchCount /\ pc = "input_back" /\ pc' = "neg"
    BY <1>8, SeeLastFrame
  <2>2. BoundFrames(Depth) = 1..Frames /\ BoundFrames(Depth)' = 1..Frames
    BY <1>1, <1>2, <2>1 DEF TopFrames
  <2>3. /\ Frame \in InFrame /\ Frame = Top.ins[Frames]
        /\ 1..Frames = 1..(Frames - 1) \cup {Frames}
    BY <2>1, InLoop
  <2>4. Top'.ins[Frames].i = Top.ins[Frames].i /\ Choice(Top'.ins[Frames]) = Choice(Top.ins[Frames])
    BY <2>1, <2>3 DEF InFrame, Choice
  <2>5. QED
    BY <1>1, <2>1, <2>2, <2>3, <2>4, PlacedTopKept
<1>9. CASE BindConst
  <2>1. /\ Top'.ins = Top.ins /\ Frames' = Frames /\ Frames > 0
        /\ UNCHANGED c1_inputMatchCount /\ pc = "input_cand" /\ pc' = "neg"
        /\ C1Input = CONST
    BY <1>9, SeeBind
  <2>2. /\ BoundFrames(Depth) = 1..(Frames - 1) /\ BoundFrames(Depth)' = 1..Frames
        /\ 1..Frames = 1..(Frames - 1) \cup {Frames}
    BY <1>1, <1>2, <2>1 DEF TopFrames
  <2>3. Choice(Top.ins[Frames]) = CONST
    BY <2>1 DEF Choice, C1Input, C2Input, Frame
  <2>4. QED
    BY <1>1, <2>1, <2>2, <2>3, PlacedTopKept
<1>10. CASE UnbindConst
  <2>1. /\ \A m \in 1..(Frames - 1) : Top'.ins[m] = Top.ins[m]
        /\ Frames' = Frames /\ Frames > 0
        /\ UNCHANGED c1_inputMatchCount /\ pc = "neg" /\ pc' = "input_cand"
        /\ C1Input = CONST
    BY <1>10, SeeLastFrame DEF inputVars
  <2>2. /\ BoundFrames(Depth) = 1..Frames /\ BoundFrames(Depth)' = 1..(Frames - 1)
        /\ 1..Frames = 1..(Frames - 1) \cup {Frames}
    BY <1>1, <1>2, <2>1 DEF TopFrames
  <2>3. Choice(Top.ins[Frames]) = CONST
    BY <2>1 DEF Choice, C1Input, C2Input, Frame
  <2>4. QED
    BY <1>1, <2>1, <2>2, <2>3, PlacedTopKept
<1>11. QED
  BY <1>3, <1>4, <1>5, <1>6, <1>7, <1>8, <1>9, <1>10 DEF Placeless

\* Giving the last input a circuit-1 input adds it to those on it.
LEMMA PlacedBind ==
    ASSUME TypeOK, TypeOK', BindInput, InputHolding, NEW c \in C1In
    PROVE  /\ C1Input \in C1In /\ C2Input \in C2In
           /\ C2Input \notin Placed(Depth, c)
           /\ Placed(Depth, c)' = Placed(Depth, c) \cup (IF c = C1Input THEN {C2Input} ELSE {})
<1>1. TopStep /\ Depth \in Nat /\ Depth > 0 /\ Depth' = Depth
  BY TopSteps, TopStepCommits, LevelFacts DEF TopStep
<1>2. TopFrames /\ TopFrames' /\ C2Input \in C2In
  BY FramesAre, FramesAreNext, SeeBind, InLoop
<1>3. /\ Top'.ins = Top.ins /\ Frames' = Frames /\ Frames > 0
      /\ pc = "input_cand" /\ pc' = "neg"
      /\ C1Input \in C1In
  BY SeeBind
<1>4. /\ BoundFrames(Depth) = 1..(Frames - 1) /\ BoundFrames(Depth)' = 1..Frames
      /\ 1..Frames = 1..(Frames - 1) \cup {Frames}
  BY <1>1, <1>2, <1>3 DEF TopFrames
<1>5. Choice(Top.ins[Frames]) = C1Input /\ Top.ins[Frames].i = C2Input
  BY DEF Choice, C1Input, C2Input, Frame
<1>6. \A i : i \in Placed(Depth, c) <=>
         \E m \in 1..(Frames - 1) : Top.ins[m].i = i /\ Choice(Top.ins[m]) = c
  BY <1>1, <1>4, PlacedAre DEF TopPlaced
<1>7. \A i : i \in Placed(Depth, c)' <=>
         \E m \in 1..Frames : Top.ins[m].i = i /\ Choice(Top.ins[m]) = c
  BY <1>1, <1>3, <1>4, PlacedAreNext DEF TopPlaced, Choice
<1>8. C2Input \notin Placed(Depth, c)
  BY <1>3, <1>6, LastFrameAlone
<1>9. QED
  BY <1>2, <1>3, <1>4, <1>5, <1>6, <1>7, <1>8

\* Giving it back takes it from them.
LEMMA PlacedUnbind ==
    ASSUME TypeOK, TypeOK', UnbindInput, InputHolding, NEW c \in C1In
    PROVE  /\ C1Input \in C1In /\ C2Input \in C2In
           /\ C2Input \notin Placed(Depth, c)'
           /\ Placed(Depth, c) = Placed(Depth, c)' \cup (IF c = C1Input THEN {C2Input} ELSE {})
<1>1. TopStep /\ Depth \in Nat /\ Depth > 0 /\ Depth' = Depth
  BY TopSteps, TopStepCommits, LevelFacts DEF TopStep
<1>2. TopFrames /\ TopFrames' /\ C2Input \in C2In
  BY FramesAre, FramesAreNext, SeeLastFrame, InLoop
<1>3. /\ \A m \in 1..(Frames - 1) : Top'.ins[m] = Top.ins[m]
      /\ Frames' = Frames /\ Frames > 0
      /\ pc = "neg" /\ pc' = "input_cand"
      /\ C1Input \in C1In
  BY SeeLastFrame, InLoop
<1>4. /\ BoundFrames(Depth) = 1..Frames /\ BoundFrames(Depth)' = 1..(Frames - 1)
      /\ 1..Frames = 1..(Frames - 1) \cup {Frames}
  BY <1>1, <1>2, <1>3 DEF TopFrames
<1>5. Choice(Top.ins[Frames]) = C1Input /\ Top.ins[Frames].i = C2Input
  BY DEF Choice, C1Input, C2Input, Frame
<1>6. \A i : i \in Placed(Depth, c) <=>
         \E m \in 1..Frames : Top.ins[m].i = i /\ Choice(Top.ins[m]) = c
  BY <1>1, <1>4, PlacedAre DEF TopPlaced
<1>7. \A i : i \in Placed(Depth, c)' <=>
         \E m \in 1..(Frames - 1) : Top.ins[m].i = i /\ Choice(Top.ins[m]) = c
  BY <1>1, <1>3, <1>4, PlacedAreNext DEF TopPlaced, Choice
<1>8. C2Input \notin Placed(Depth, c)'
  BY <1>3, <1>7, LastFrameAlone
<1>9. QED
  BY <1>2, <1>3, <1>4, <1>5, <1>6, <1>7, <1>8

--------------------------------------------------------------------------------

\* All the inputs on a circuit-1 input, as a union over the levels.
LEMMA BoundToIs ==
    ASSUME NEW c
    PROVE  /\ \A i : i \in BoundTo(c) <=> \E n \in 1..Depth : i \in Placed(n, c)
           /\ \A i : i \in BoundTo(c)' <=> \E n \in 1..Depth' : i \in Placed(n, c)'
  BY DEF BoundTo

\* They are inputs of circuit 2, and finitely many.
LEMMA BoundFinite ==
    ASSUME TypeOK, NEW c
    PROVE  /\ \A n \in 1..Depth : Placed(n, c) \subseteq Inputs(n)
           /\ \A n \in 1..Depth : Placed(n, c) \subseteq C2In /\ IsFiniteSet(Placed(n, c))
           /\ IsFiniteSet(BoundTo(c)) /\ Cardinality(BoundTo(c)) \in Nat
<1>1. ASSUME NEW n \in 1..Depth
      PROVE  Placed(n, c) \subseteq C2In /\ Placed(n, c) \subseteq Inputs(n)
  <2>1. BoundFrames(n) \subseteq DOMAIN stack[n].ins
        /\ \A m \in DOMAIN stack[n].ins : stack[n].ins[m].i \in C2In
    BY LevelFacts
  <2>2. QED
    BY <2>1 DEF Placed, Inputs
<1>2. BoundTo(c) \subseteq C2In
  BY <1>1, BoundToIs
<1>3. QED
  BY <1>1, <1>2, PortsAssumption, FS_Subset, FS_CardinalityType

\* Every step but the two that place an input and give it back keeps the inputs
\* on every circuit-1 input; level by level while the levels stay.
LEMMA PlacementKept ==
    ASSUME TypeOK, TypeOK', Placeless \/ MatchOutput \/ MiterAccepts \/ UndoOutput,
           NEW c \in C1In
    PROVE  /\ \A n \in 1..Depth : n \in 1..Depth' => Placed(n, c)' = Placed(n, c)
           /\ BoundTo(c)' = BoundTo(c)
           /\ UNCHANGED c1_inputMatchCount
<1>1. CASE Placeless
  <2>1. TopStep /\ Depth \in Nat /\ Depth > 0 /\ Depth' = Depth
    BY <1>1, TopSteps, TopStepCommits, LevelFacts DEF TopStep, Placeless
  <2>2. Placed(Depth, c)' = Placed(Depth, c) /\ UNCHANGED c1_inputMatchCount
    BY <1>1, PlacelessTop
  <2>3. \A n \in 1..(Depth - 1) : Placed(n, c)' = Placed(n, c)
    BY <2>1, PlacedBelow DEF TopStep
  <2>4. \A n \in 1..Depth : Placed(n, c)' = Placed(n, c)
    <3>1. \A n \in 1..Depth : n \in 1..(Depth - 1) \/ n = Depth
      BY <2>1
    <3>2. QED
      BY <2>1, <2>2, <2>3, <3>1
  <2>5. QED
    BY <2>1, <2>2, <2>4, BoundToIs
<1>2. CASE ChooseOutput
  <2> PICK d \in Nat : d = Depth + 1
    BY <1>2, SeeChooseOutput
  <2>1. /\ Depth \in Nat /\ Depth' = d
        /\ \A n \in 1..Depth : stack'[n] = stack[n]
        /\ stack'[d].ins = <<>>
        /\ 1..Depth' = 1..Depth \cup {d}
        /\ UNCHANGED inputVars
        /\ pc = "match_output" /\ pc' = "output_cand"
    BY <1>2, SeeChooseOutput
  <2>2. \A n \in 1..Depth : BoundFrames(n)' = BoundFrames(n)
    BY <2>1, AllLock, AllLockNext DEF AllLocking
  <2>3. \A n \in 1..Depth : Placed(n, c)' = Placed(n, c)
    BY <2>1, <2>2 DEF Placed, Choice
  <2>4. Placed(d, c)' = {}
    <3>1. DOMAIN stack'[d].ins = {}
      BY <2>1
    <3>2. BoundFrames(d)' = {}
      BY <2>1, <3>1, AllLockNext DEF AllLocking
    <3>3. QED
      BY <3>2 DEF Placed
  <2>5. UNCHANGED c1_inputMatchCount
    BY <2>1 DEF inputVars
  <2>6. \A i : i \in BoundTo(c)' <=> i \in BoundTo(c)
    BY <2>1, <2>3, <2>4, BoundToIs
  <2>7. BoundTo(c)' = BoundTo(c)
    BY <2>6
  <2>8. QED
    BY <2>3, <2>5, <2>7
<1>3. CASE NoMoreOutputs
  <2>1. /\ Depth \in Nat /\ Depth > 0 /\ Depth' = Depth - 1
        /\ \A n \in 1..(Depth - 1) : n \in 1..Depth /\ stack'[n] = stack[n]
        /\ stack[Depth].ins = <<>>
        /\ 1..Depth = (1..(Depth - 1)) \cup {Depth}
        /\ UNCHANGED inputVars
        /\ pc = "output_cand" /\ pc' \in {"done", "output_back"}
    BY <1>3, SeeNoMoreOutputs
  <2>2. \A n \in 1..(Depth - 1) : BoundFrames(n)' = BoundFrames(n)
    BY <2>1, AllLock, AllLockNext DEF AllLocking
  <2>3. \A n \in 1..(Depth - 1) : Placed(n, c)' = Placed(n, c)
    BY <2>1, <2>2 DEF Placed, Choice
  <2>4. Placed(Depth, c) = {}
    <3>1. DOMAIN stack[Depth].ins = {}
      BY <2>1
    <3>2. BoundFrames(Depth) = {}
      BY <2>1, <3>1 DEF BoundFrames
    <3>3. QED
      BY <3>2 DEF Placed
  <2>5. UNCHANGED c1_inputMatchCount
    BY <2>1 DEF inputVars
  <2>6. \A i : i \in BoundTo(c)' <=> i \in BoundTo(c)
    BY <2>1, <2>3, <2>4, BoundToIs
  <2>7. BoundTo(c)' = BoundTo(c)
    BY <2>6
  <2>8. \A n \in 1..Depth' : n \in 1..(Depth - 1)
    BY <2>1
  <2>9. QED
    BY <2>3, <2>5, <2>7, <2>8
<1>4. CASE MiterAccepts \/ UndoOutput \/ AllMatched
  <2>1. /\ stack' = stack /\ Depth' = Depth
        /\ pc \notin {"input_cand", "neg"} /\ pc' \notin {"input_cand", "neg"}
        /\ UNCHANGED c1_inputMatchCount
    BY <1>4, SeeCommits
  <2>2. \A n \in 1..Depth : BoundFrames(n)' = BoundFrames(n)
    BY <2>1, AllLock, AllLockNext DEF AllLocking
  <2>3. \A n \in 1..Depth : Placed(n, c)' = Placed(n, c)
    BY <2>1, <2>2 DEF Placed, Choice
  <2>4. \A i : i \in BoundTo(c)' <=> i \in BoundTo(c)
    BY <2>1, <2>3, BoundToIs
  <2>5. BoundTo(c)' = BoundTo(c)
    BY <2>4
  <2>6. QED
    BY <2>1, <2>3, <2>5
<1>5. QED
  BY <1>1, <1>2, <1>3, <1>4 DEF Placeless, MatchOutput

\* BindInput puts its input, which was on nothing, on C1Input alone.
LEMMA BoundBind ==
    ASSUME TypeOK, TypeOK', BindInput, InputHolding, NEW c \in C1In
    PROVE  /\ C2Input \notin BoundTo(c)
           /\ BoundTo(c)' = BoundTo(c) \cup (IF c = C1Input THEN {C2Input} ELSE {})
<1>1. TopStep /\ Depth \in Nat /\ Depth > 0 /\ Depth' = Depth /\ pc = "input_cand" /\ Frames > 0
  BY TopSteps, TopStepCommits, LevelFacts, SeeBind DEF TopStep
<1>2. \A n \in 1..(Depth - 1) : Placed(n, c)' = Placed(n, c) /\ C2Input \notin Placed(n, c)
  <2>1. \A n \in 1..(Depth - 1) : C2Input \notin Inputs(n)
    BY <1>1, LastFrameAlone, BelowHolds
  <2>2. QED
    BY <1>1, <2>1, PlacedBelow, BoundFinite DEF TopStep
<1>3. 1..Depth = 1..(Depth - 1) \cup {Depth}
  BY <1>1
<1>4. /\ C2Input \notin Placed(Depth, c)
      /\ Placed(Depth, c)' = Placed(Depth, c) \cup (IF c = C1Input THEN {C2Input} ELSE {})
  BY PlacedBind
<1>5. QED
  BY <1>1, <1>2, <1>3, <1>4, BoundToIs

\* UnbindInput takes it off again.
LEMMA BoundUnbind ==
    ASSUME TypeOK, TypeOK', UnbindInput, InputHolding, NEW c \in C1In
    PROVE  /\ C2Input \notin BoundTo(c)'
           /\ BoundTo(c) = BoundTo(c)' \cup (IF c = C1Input THEN {C2Input} ELSE {})
<1>1. TopStep /\ Depth \in Nat /\ Depth > 0 /\ Depth' = Depth /\ pc = "neg" /\ Frames > 0
  BY TopSteps, TopStepCommits, LevelFacts, SeeLastFrame DEF TopStep
<1> PICK x \in C2In : x = C2Input
  BY <1>1, InLoop
<1>2. \A n \in 1..(Depth - 1) : Placed(n, c)' = Placed(n, c) /\ x \notin Placed(n, c)
  <2>1. \A n \in 1..(Depth - 1) : x \notin Inputs(n)
    BY <1>1, LastFrameAlone, BelowHolds
  <2>2. QED
    BY <1>1, <2>1, PlacedBelow, BoundFinite DEF TopStep
<1>3. 1..Depth = 1..(Depth - 1) \cup {Depth}
  BY <1>1
<1>4. /\ x \notin Placed(Depth, c)'
      /\ Placed(Depth, c) = Placed(Depth, c)' \cup (IF c = C1Input THEN {x} ELSE {})
  BY PlacedUnbind
<1>5. x \notin BoundTo(c)'
  BY <1>1, <1>2, <1>3, <1>4, BoundToIs
<1>6. QED
  BY <1>1, <1>2, <1>3, <1>4, <1>5, BoundToIs

\* The counts follow the inputs, and with equal sizes only an input that is on
\* nothing is placed.
LEMMA MatchesStep ==
    TypeOK /\ InputHolding /\ MatchesCounted /\ [Next]_vars => MatchesCounted'
<1> SUFFICES ASSUME TypeOK, InputHolding, MatchesCounted, [Next]_vars PROVE MatchesCounted'
  OBVIOUS
<1>1. TypeOK'
  BY TypeStep
<1>2. c1_inputMatchCount \in [C1In -> Int]
  BY DEF TypeOK, Typed
<1>3. CASE Placeless \/ MatchOutput \/ MiterAccepts \/ UndoOutput
  BY <1>1, <1>3, PlacementKept DEF MatchesCounted
<1>4. CASE BindInput
  <2>1. C1Input \in C1In
    BY <1>4, SeeBind
  <2>2. c1_inputMatchCount' = [c1_inputMatchCount EXCEPT ![C1Input] = @ + 1]
    BY <1>4 DEF BindInput
  <2>3. inputSizeEq => c1_inputMatchCount[C1Input] = 0
    BY <1>4, <2>1, PortsAssumption DEF BindInput, InputFits
  <2>4. ASSUME NEW c \in C1In
        PROVE  /\ c1_inputMatchCount'[c] = Cardinality(BoundTo(c)')
               /\ inputSizeEq => Cardinality(BoundTo(c)') <= 1
    <3>1. /\ C2Input \notin BoundTo(c)
          /\ BoundTo(c)' = BoundTo(c) \cup (IF c = C1Input THEN {C2Input} ELSE {})
      BY <1>1, <1>4, BoundBind
    <3>2. IsFiniteSet(BoundTo(c)) /\ Cardinality(BoundTo(c)) \in Nat
      BY BoundFinite
    <3>3. /\ c1_inputMatchCount[c] = Cardinality(BoundTo(c))
          /\ inputSizeEq => Cardinality(BoundTo(c)) <= 1
      BY DEF MatchesCounted
    <3>4. CASE c = C1Input
      <4>1. Cardinality(BoundTo(c)') = Cardinality(BoundTo(c)) + 1
        BY <3>1, <3>2, <3>4, FS_AddElement
      <4>2. QED
        BY <1>2, <2>2, <2>3, <3>2, <3>3, <3>4, <4>1
    <3>5. CASE c # C1Input
      BY <1>2, <2>1, <2>2, <3>1, <3>3, <3>5
    <3>6. QED
      BY <3>4, <3>5
  <2>5. QED
    BY <2>4 DEF MatchesCounted, inputSizeEq
<1>5. CASE UnbindInput
  <2>1. C1Input \in C1In
    BY <1>5, SeeLastFrame, InLoop
  <2>2. c1_inputMatchCount' = [c1_inputMatchCount EXCEPT ![C1Input] = @ - 1]
    BY <1>5 DEF UnbindInput
  <2> PICK x \in C2In : x = C2Input
    BY <1>5, InLoop, SeeLastFrame
  <2>3. ASSUME NEW c \in C1In
        PROVE  /\ c1_inputMatchCount'[c] = Cardinality(BoundTo(c)')
               /\ inputSizeEq => Cardinality(BoundTo(c)') <= 1
    <3>1. /\ x \notin BoundTo(c)'
          /\ BoundTo(c) = BoundTo(c)' \cup (IF c = C1Input THEN {x} ELSE {})
      BY <1>1, <1>5, BoundUnbind
    <3>2. IsFiniteSet(BoundTo(c)') /\ Cardinality(BoundTo(c)') \in Nat
      <4>1. BoundTo(c)' \subseteq BoundTo(c)
        BY <3>1
      <4>2. QED
        BY <4>1, BoundFinite, FS_Subset, FS_CardinalityType
    <3>3. /\ c1_inputMatchCount[c] = Cardinality(BoundTo(c))
          /\ inputSizeEq => Cardinality(BoundTo(c)) <= 1
      BY DEF MatchesCounted
    <3>4. CASE c = C1Input
      <4>1. Cardinality(BoundTo(c)) = Cardinality(BoundTo(c)') + 1
        BY <3>1, <3>2, <3>4, FS_AddElement
      <4>2. QED
        BY <1>2, <2>2, <3>2, <3>3, <3>4, <4>1
    <3>5. CASE c # C1Input
      BY <1>2, <2>1, <2>2, <3>1, <3>3, <3>5
    <3>6. QED
      BY <3>4, <3>5
  <2>4. QED
    BY <2>3 DEF MatchesCounted, inputSizeEq
<1>6. CASE Done \/ UNCHANGED vars
  <2>1. stack' = stack /\ pc' = pc /\ c1_inputMatchCount' = c1_inputMatchCount
    BY <1>6 DEF Done, vars, inputVars
  <2>2. Depth' = Depth /\ \A n : BoundFrames(n)' = BoundFrames(n)
    BY <2>1 DEF Depth, BoundFrames, Frames, Top
  <2>3. \A n, c : Placed(n, c)' = Placed(n, c)
    BY <2>1, <2>2 DEF Placed, Choice
  <2>4. \A c : BoundTo(c)' = BoundTo(c)
    BY <2>2, <2>3, BoundToIs
  <2>5. QED
    BY <2>1, <2>4 DEF MatchesCounted, inputSizeEq
<1>7. QED
  BY <1>3, <1>4, <1>5, <1>6 DEF Next, MatchInput, Placeless

\* c1_inputMatchCount counts the inputs in use over every path of the search.
THEOREM MatchesInvariant == Spec => []MatchesCounted
<1>1. Init => MatchesCounted
  <2> SUFFICES ASSUME Init PROVE MatchesCounted
    OBVIOUS
  <2>1. 1..Depth = {}
    BY DEF Init, Depth
  <2>2. \A c : BoundTo(c) = {}
    BY <2>1, BoundToIs
  <2>3. \A c \in C1In : c1_inputMatchCount[c] = 0
    BY DEF Init
  <2>4. QED
    BY <2>2, <2>3, FS_EmptySet DEF MatchesCounted
<1>2. TypeOK /\ InputHolding /\ MatchesCounted /\ [Next]_vars => MatchesCounted'
  BY MatchesStep
<1>3. QED
  BY <1>1, <1>2, TypeCorrect, InputsInvariant, PTL DEF Spec

\* A locked input is on the circuit-1 input it is locked to.
LEMMA LockedBound ==
    ASSUME TypeOK, InputHolding, NEW k \in C2In, inputLock[k].c1 \in C1In
    PROVE  k \in BoundTo(inputLock[k].c1)
<1>1. inputLock[k] # NoLock
  BY PortsAssumption DEF NoLock
<1>2. PICK n \in 1..Depth : Holds(n, k)
  BY <1>1, LockedHeld
<1>3. PICK m \in LockingFrames(n) : stack[n].ins[m].i = k
  BY <1>2 DEF Holds
<1>4. inputLock[k] = LockOf(stack[n].ins[m])
  BY <1>3 DEF InputHolding, LocksTaken
<1>5. Choice(stack[n].ins[m]) = inputLock[k].c1
  BY <1>4 DEF LockOf
<1>6. m \in BoundFrames(n)
  BY <1>3 DEF LockingFrames, BoundFrames
<1>7. k \in Placed(n, inputLock[k].c1)
  BY <1>3, <1>5, <1>6 DEF Placed
<1>8. QED
  BY <1>7, BoundToIs

\* Two inputs locked to the same circuit-1 input would be counted twice.
LEMMA CountedOneToOne == TypeOK /\ InputHolding /\ MatchesCounted => InputOneToOne
<1> SUFFICES ASSUME TypeOK, InputHolding, MatchesCounted, inputSizeEq,
                    NEW i \in C2In, NEW j \in C2In, i # j, inputLock[i].c1 \in C1In,
                    inputLock[i].c1 = inputLock[j].c1
             PROVE  FALSE
  BY DEF InputOneToOne
<1> DEFINE c == inputLock[i].c1
<1>2. i \in BoundTo(c) /\ j \in BoundTo(c)
  BY LockedBound
<1>3. IsFiniteSet(BoundTo(c)) /\ Cardinality(BoundTo(c)) <= 1
  BY BoundFinite DEF MatchesCounted
<1>4. {i} \cup {j} \subseteq BoundTo(c) /\ Cardinality({i} \cup {j}) = 2
  <2>1. IsFiniteSet({i}) /\ Cardinality({i}) = 1 /\ j \notin {i}
    BY FS_Singleton
  <2>2. Cardinality({i} \cup {j}) = Cardinality({i}) + 1
    BY <2>1, FS_AddElement
  <2>3. QED
    BY <1>2, <2>1, <2>2
<1> HIDE DEF c
<1>5. Cardinality({i} \cup {j}) <= Cardinality(BoundTo(c))
  BY <1>3, <1>4, FS_Subset
<1>6. QED
  BY <1>3, <1>4, <1>5, BoundFinite

\* With as many inputs on both sides no circuit-1 input is locked to two
\* circuit-2 inputs, for circuits of any size and any order of the search.
THEOREM InputsOneToOne == Spec => []InputOneToOne
<1>1. TypeOK /\ InputHolding /\ MatchesCounted => InputOneToOne
  BY CountedOneToOne
<1>2. QED
  BY <1>1, TypeCorrect, InputsInvariant, MatchesInvariant, PTL

--------------------------------------------------------------------------------
(* The quota of an attempt *)

\* What the top level works with and what it has no place for.
TopTaken ==
    Depth > 0 =>
        /\ \A c, i : i \in Taken(Depth, c) <=>
              \/ i \in Top.locked /\ inputLock[i].c1 = c
              \/ i \in Placed(Depth, c)
        /\ \A i : i \in Open(Depth) <=>
              i \in Top.todo \/ (pc = "input_cand" /\ i = C2Input)

\* That is what recorded locks and bound frames come to.
LEMMA TakenAre == TypeOK => TopTaken
<1> SUFFICES ASSUME TypeOK, Depth > 0
             PROVE  /\ \A c, i : i \in Taken(Depth, c) <=>
                          \/ i \in Top.locked /\ inputLock[i].c1 = c
                          \/ i \in Placed(Depth, c)
                    /\ \A i : i \in Open(Depth) <=>
                          i \in Top.todo \/ (pc = "input_cand" /\ i = C2Input)
  BY DEF TopTaken
<1>1. /\ Frames \in Nat /\ Top = stack[Depth] /\ DOMAIN Top.ins = 1..Frames
      /\ BoundFrames(Depth) = IF pc = "input_cand" THEN 1..(Frames - 1) ELSE 1..Frames
      /\ pc = "input_cand" => Frames > 0
  BY FramesAre, InLoop DEF TopFrames
<1>2. \A c, i : i \in Taken(Depth, c) <=>
         \/ i \in Top.locked /\ inputLock[i].c1 = c
         \/ i \in Placed(Depth, c)
  BY <1>1 DEF Taken
<1>3. DOMAIN Top.ins \ BoundFrames(Depth) = IF pc = "input_cand" THEN {Frames} ELSE {}
  BY <1>1
<1>4. \A i : i \in Open(Depth) <=> i \in Top.todo \/ (pc = "input_cand" /\ i = C2Input)
  BY <1>1, <1>3 DEF Open, C2Input, Frame
<1>5. QED
  BY <1>2, <1>4

\* The same in the state after a step.
LEMMA TakenAreNext == TypeOK' => TopTaken'
  BY TakenAre, PTL

\* Whoever recorded a lock, no step changes it: it belongs to a frame of a level
\* below, and only the last frame of the top level locks and unlocks.
LEMMA RecordedLocksKept ==
    ASSUME TypeOK, InputHolding, [Next]_vars, NEW n \in 1..Depth, NEW i \in stack[n].locked
    PROVE  inputLock'[i] = inputLock[i]
<1>1. inputLock \in [C2In -> InputLock] /\ i \in C2In /\ Depth \in Nat
  BY LevelFacts DEF TypeOK, Typed
<1>2. CASE AssignNeg \/ UnlockInput
  <2>1. pc \in {"neg", "input_back"} /\ Frames > 0
    BY <1>2, InLoop DEF AssignNeg, UnlockInput
  <2>2. C2Input \in Inputs(Depth) /\ C2Input \in C2In
    BY <2>1, LastFrameAlone
  <2>3. PICK k \in 1..(n - 1) : i \in Inputs(k)
    BY DEF InputHolding, FramesApart
  <2>4. k \in 1..(Depth - 1) /\ Depth \in 1..Depth
    BY <1>1, <2>3
  <2>5. i # C2Input
    BY <2>2, <2>3, <2>4 DEF InputHolding, FramesApart
  <2>6. QED
    BY <1>1, <1>2, <2>2, <2>5 DEF AssignNeg, UnlockInput
<1>3. CASE ~(AssignNeg \/ UnlockInput)
  <2>1. UNCHANGED inputLock
    BY <1>3 DEF Next, MatchOutput, MatchInput, AllMatched, ChooseOutput, NoMoreOutputs,
                SkipOutput, EnterOutput, NextOutputCandidate, NextInput, MiterRejects,
                MiterAccepts, NoMoreInputs, SkipInput, BindConst, BindInput, UnbindConst,
                UnbindInput, UndoOutput, Done, vars, inputVars
  <2>2. QED
    BY <2>1
<1>4. QED
  BY <1>2, <1>3

\* A level is as the step found it while its record, its placements and its
\* inputs without a place are.
LEMMA QuotaSame ==
    ASSUME TypeOK, InputHolding, [Next]_vars, NEW n \in 1..Depth, QuotaAt(n),
           /\ stack'[n].out = stack[n].out /\ stack'[n].k = stack[n].k
           /\ stack'[n].quota = stack[n].quota /\ stack'[n].used = stack[n].used
           /\ stack'[n].locked = stack[n].locked,
           \A c \in C1In : Placed(n, c)' = Placed(n, c),
           Open(n)' = Open(n)
    PROVE  QuotaAt(n)'
<1>1. \A i \in stack[n].locked : inputLock'[i] = inputLock[i]
  BY RecordedLocksKept
<1>2. \A c \in C1In : Taken(n, c)' = Taken(n, c)
  BY <1>1 DEF Taken
<1>3. Partners(n)' = Partners(n)
  BY <1>2 DEF Partners
<1>4. Candidate(n)' = Candidate(n)
  BY DEF Candidate
<1>5. QED
  BY <1>2, <1>3, <1>4 DEF QuotaAt

\* The sets the quota counts are finite.
LEMMA QuotaFinite ==
    ASSUME TypeOK, NEW n \in 1..Depth
    PROVE  /\ \A c : Taken(n, c) \subseteq C2In /\ IsFiniteSet(Taken(n, c))
                     /\ Cardinality(Taken(n, c)) \in Nat
           /\ Open(n) \subseteq C2In /\ IsFiniteSet(Open(n)) /\ Cardinality(Open(n)) \in Nat
           /\ IsFiniteSet(Partners(n)) /\ Cardinality(Partners(n)) \in Nat
<1>1. /\ stack[n].todo \subseteq C2In /\ stack[n].locked \subseteq C2In
      /\ \A m \in DOMAIN stack[n].ins : stack[n].ins[m].i \in C2In
      /\ \A c : Placed(n, c) \subseteq C2In
  BY LevelFacts, BoundFinite
<1>2. Open(n) \subseteq C2In
  BY <1>1 DEF Open
<1>3. \A c : Taken(n, c) \subseteq C2In
  BY <1>1 DEF Taken
<1>4. Partners(n) \subseteq C1In
  BY DEF Partners
<1>5. \A S \in SUBSET C2In : IsFiniteSet(S) /\ Cardinality(S) \in Nat
  BY PortsAssumption, FS_Subset, FS_CardinalityType
<1>6. \A S \in SUBSET C1In : IsFiniteSet(S) /\ Cardinality(S) \in Nat
  BY PortsAssumption, FS_Subset, FS_CardinalityType
<1>7. QED
  BY <1>2, <1>3, <1>4, <1>5, <1>6

\* A level below the top keeps its quota.
LEMMA QuotaBelow ==
    ASSUME TypeOK, InputHolding, [Next]_vars, Depth' = Depth,
           NEW n \in 1..(Depth - 1), stack'[n] = stack[n], QuotaAt(n)
    PROVE  QuotaAt(n)'
<1>1. n \in 1..Depth /\ BoundFrames(n)' = BoundFrames(n)
  BY BelowKept
<1>2. Open(n)' = Open(n)
  BY <1>1 DEF Open
<1>3. \A c \in C1In : Placed(n, c)' = Placed(n, c)
  BY PlacedBelow
<1>4. QED
  BY <1>1, <1>2, <1>3, QuotaSame

\* Inside an attempt only the top level has to be looked at.
LEMMA QuotaTop ==
    ASSUME TypeOK, InputHolding, QuotaKept, [Next]_vars, TopStep,
           pc' # "output_cand" => QuotaAt(Depth)'
    PROVE  QuotaKept'
<1>1. Depth \in Nat /\ Depth > 0 /\ Depth' = Depth
      /\ \A n \in 1..(Depth - 1) : stack'[n] = stack[n] /\ n \in 1..Depth /\ n # Depth
  BY TopStepCommits, LevelFacts DEF TopStep
<1>2. \A n \in 1..(Depth - 1) : QuotaAt(n)'
  <2>1. \A n \in 1..(Depth - 1) : QuotaAt(n)
    BY <1>1 DEF QuotaKept, Entered
  <2>2. QED
    BY <1>1, <2>1, QuotaBelow
<1>3. \A n \in 1..Depth : n \in 1..(Depth - 1) \/ n = Depth
  BY <1>1
<1>4. SUFFICES ASSUME NEW n \in 1..Depth, Entered(n)'
               PROVE  QuotaAt(n)'
  BY <1>1 DEF QuotaKept
<1>5. CASE n = Depth
  <2>1. pc' # "output_cand"
    BY <1>1, <1>4, <1>5 DEF Entered
  <2>2. QuotaAt(Depth)'
    BY <2>1
  <2>3. QED
    BY <1>1, <1>5, <2>2
<1>6. QED
  BY <1>2, <1>3, <1>5

\* Steps that give nothing a place and take none away: the input a frame is
\* opened for, or closed for, was and stays without one.
LEMMA QuotaQuiet ==
    ASSUME TypeOK, TypeOK', InputHolding, QuotaKept, [Next]_vars,
           \/ NextInput \/ MiterRejects \/ NoMoreInputs \/ SkipInput \/ AssignNeg \/ UnlockInput
    PROVE  QuotaAt(Depth)'
<1>1. TopStep /\ Depth \in Nat /\ Depth > 0 /\ Depth' = Depth /\ Depth \in 1..Depth
  BY TopSteps, TopStepCommits, LevelFacts DEF TopStep
<1>2. \A c \in C1In : Placed(Depth, c)' = Placed(Depth, c)
  BY PlacelessTop DEF Placeless
<1>3. /\ Top'.out = Top.out /\ Top'.k = Top.k /\ Top'.locked = Top.locked
      /\ Top'.quota = Top.quota /\ Top'.used = Top.used
      /\ pc # "output_cand"
  BY SeeNextInput, SeeSameStack, SeeNoMoreInputs, SeeLastFrame
<1>4. Top = stack[Depth] /\ Top' = stack'[Depth]
  BY <1>1 DEF Top
<1>5. QuotaAt(Depth)
  BY <1>1, <1>3 DEF QuotaKept, Entered
<1>6. \A i : i \in Open(Depth)' <=> i \in Open(Depth)
  <2>1. \A i : i \in Open(Depth) <=> i \in Top.todo \/ (pc = "input_cand" /\ i = C2Input)
    BY <1>1, TakenAre DEF TopTaken
  <2>2. \A i : i \in Open(Depth)' <=> i \in Top'.todo \/ (pc' = "input_cand" /\ i = C2Input')
    BY <1>1, TakenAreNext DEF TopTaken
  <2>3. CASE NextInput
    BY <2>1, <2>2, <2>3, SeeNextInput
  <2>4. CASE NoMoreInputs
    BY <2>1, <2>2, <2>4, SeeNoMoreInputs
  <2>5. CASE MiterRejects \/ AssignNeg
    BY <2>1, <2>2, <2>5, SeeSameStack
  <2>6. CASE SkipInput \/ UnlockInput
    BY <2>1, <2>2, <2>6, SeeLastFrame
  <2>7. QED
    BY <2>3, <2>4, <2>5, <2>6
<1>7. Open(Depth)' = Open(Depth)
  BY <1>6
<1> PICK d \in 1..Depth : d = Depth
  BY <1>1
<1>8. /\ \A c \in C1In : Placed(d, c)' = Placed(d, c)
      /\ Open(d)' = Open(d) /\ QuotaAt(d)
  BY <1>1, <1>2, <1>5, <1>7
<1>9. QuotaAt(d)'
  BY <1>3, <1>4, <1>8, QuotaSame
<1>10. QED
  BY <1>1, <1>9

\* What an input costs: it has no place before and one afterwards.
LEMMA OpenBind ==
    ASSUME TypeOK, TypeOK', InputHolding, BindConst \/ BindInput
    PROVE  /\ Cardinality(Open(Depth)) = Cardinality(Open(Depth)') + 1
           /\ Cardinality(Open(Depth)') \in Nat
<1>1. /\ Depth > 0 /\ Depth' = Depth /\ Depth \in 1..Depth
      /\ Top'.todo = Top.todo /\ Frames > 0 /\ pc = "input_cand" /\ pc' = "neg"
  <2>1. TopStep
    BY TopSteps
  <2>2. QED
    BY <2>1, TopStepCommits, LevelFacts, SeeBind DEF TopStep
<1> PICK x \in C2In : x = C2Input
  BY <1>1, InLoop
<1>2. Top = stack[Depth] /\ x \notin Top.todo
  BY <1>1, LastFrameAlone DEF InputHolding, FramesApart, Top
<1>3. \A i : i \in Open(Depth) <=> i \in Top.todo \/ i = x
  BY <1>1, TakenAre DEF TopTaken
<1>4. \A i : i \in Open(Depth)' <=> i \in Top.todo
  BY <1>1, TakenAreNext DEF TopTaken
<1>5. Open(Depth) = Top.todo \cup {x} /\ Open(Depth)' = Top.todo
  BY <1>3, <1>4
<1>6. IsFiniteSet(Top.todo)
  BY <1>1, <1>2, LevelFacts, PortsAssumption, FS_Subset
<1>7. /\ Cardinality(Top.todo) \in Nat
      /\ Cardinality(Top.todo \cup {x}) = Cardinality(Top.todo) + 1
  BY <1>2, <1>6, FS_AddElement, FS_CardinalityType
<1>8. QED
  BY <1>5, <1>7

\* And what giving it back returns.
LEMMA OpenUnbind ==
    ASSUME TypeOK, TypeOK', InputHolding, UnbindConst \/ UnbindInput
    PROVE  /\ Cardinality(Open(Depth)') = Cardinality(Open(Depth)) + 1
           /\ Cardinality(Open(Depth)) \in Nat
<1>1. /\ Depth > 0 /\ Depth' = Depth /\ Depth \in 1..Depth
      /\ Top'.todo = Top.todo /\ Frames > 0 /\ pc = "neg" /\ pc' = "input_cand"
      /\ C2Input' = C2Input
  <2>1. TopStep
    BY TopSteps
  <2>2. QED
    BY <2>1, TopStepCommits, LevelFacts, SeeLastFrame DEF TopStep
<1> PICK x \in C2In : x = C2Input
  BY <1>1, InLoop
<1>2. Top = stack[Depth] /\ x \notin Top.todo
  BY <1>1, LastFrameAlone DEF InputHolding, FramesApart, Top
<1>3. \A i : i \in Open(Depth) <=> i \in Top.todo
  BY <1>1, TakenAre DEF TopTaken
<1>4. \A i : i \in Open(Depth)' <=> i \in Top.todo \/ i = x
  BY <1>1, TakenAreNext DEF TopTaken
<1>5. Open(Depth) = Top.todo /\ Open(Depth)' = Top.todo \cup {x}
  BY <1>3, <1>4
<1>6. IsFiniteSet(Top.todo)
  BY <1>1, <1>2, LevelFacts, PortsAssumption, FS_Subset
<1>7. /\ Cardinality(Top.todo) \in Nat
      /\ Cardinality(Top.todo \cup {x}) = Cardinality(Top.todo) + 1
  BY <1>2, <1>6, FS_AddElement, FS_CardinalityType
<1>8. QED
  BY <1>5, <1>7

\* The quota of the top level is an integer, and its candidate has a support.
LEMMA QuotaNumbers ==
    ASSUME TypeOK, pc \in {"match_input", "input_cand", "neg", "input_back"}
    PROVE  /\ Top.quota \in Int /\ Cardinality(Partners(Depth)) \in Nat
           /\ Cardinality(Supp1[Candidate(Depth)]) \in Nat
           /\ Top.used \in [C1In -> Int]
<1>1. Top \in Level /\ Depth \in 1..Depth /\ Candidate(Depth) \in C1Out
  BY InLoop
<1>2. Supp1[Candidate(Depth)] \subseteq C1In
  BY <1>1, CandidateAssumption
<1>3. Cardinality(Supp1[Candidate(Depth)]) \in Nat
  BY <1>2, PortsAssumption, FS_Subset, FS_CardinalityType
<1>4. QED
  BY <1>1, <1>3, QuotaFinite DEF Level

\* A constant for an input uses up one of the inputs there are more.
LEMMA QuotaConst ==
    ASSUME TypeOK, TypeOK', InputHolding, QuotaKept, [Next]_vars,
           BindConst \/ UnbindConst
    PROVE  QuotaAt(Depth)'
<1>1. TopStep /\ Depth \in Nat /\ Depth > 0 /\ Depth' = Depth /\ Depth \in 1..Depth
  <2>1. TopStep
    BY TopSteps
  <2>2. QED
    BY <2>1, TopStepCommits, LevelFacts DEF TopStep
<1>2. \A c \in C1In : Placed(Depth, c)' = Placed(Depth, c)
  BY PlacelessTop DEF Placeless
<1>3. /\ Top'.out = Top.out /\ Top'.k = Top.k /\ Top'.locked = Top.locked
      /\ Top'.used = Top.used /\ Top'.todo = Top.todo /\ C1Output' = C1Output
      /\ C2Input' = C2Input /\ Frames > 0 /\ Top = stack[Depth] /\ Top' = stack'[Depth]
      /\ BindConst => Top'.quota = Top.quota - 1 /\ pc = "input_cand" /\ pc' = "neg"
      /\ UnbindConst => Top'.quota = Top.quota + 1 /\ pc = "neg" /\ pc' = "input_cand"
      /\ BindConst => Top.quota # 0
  <2>1. BindConst => Top.quota # 0
    BY DEF BindConst, InputFits
  <2>2. CASE BindConst
    BY <1>1, <2>1, <2>2, SeeBind DEF UnbindConst, Top
  <2>3. CASE UnbindConst
    BY <1>1, <2>3, SeeLastFrame DEF BindConst, Top
  <2>4. QED
    BY <2>2, <2>3
<1>4. QuotaAt(Depth)
  BY <1>1, <1>3 DEF QuotaKept, Entered
<1>5. \A c \in C1In : Taken(Depth, c)' = Taken(Depth, c)
  <2>1. \A i \in stack[Depth].locked : inputLock'[i] = inputLock[i]
    BY <1>1, RecordedLocksKept
  <2>2. ASSUME NEW c \in C1In
        PROVE  Taken(Depth, c)' = Taken(Depth, c)
    <3>1. stack'[Depth].locked = stack[Depth].locked
      BY <1>3
    <3>2. QED
      BY <1>1, <1>2, <2>1, <3>1 DEF Taken
  <2>3. QED
    BY <2>2
<1>6. Partners(Depth)' = Partners(Depth) /\ Candidate(Depth)' = Candidate(Depth)
  BY <1>1, <1>3, <1>5 DEF Partners, Candidate
<1>7. Top.quota \in Int /\ Cardinality(Partners(Depth)) \in Nat
       /\ Cardinality(Supp1[Candidate(Depth)]) \in Nat
  BY <1>3, QuotaNumbers
<1>8. \A c \in C1In : stack'[Depth].used[c] = Cardinality(Taken(Depth, c)')
  BY <1>3, <1>4, <1>5 DEF QuotaAt
<1>9. /\ Top.quota >= 0
       /\ Top.quota = Cardinality(Open(Depth)) + Cardinality(Partners(Depth))
                        - Cardinality(Supp1[Candidate(Depth)])
       /\ Partners(Depth) \subseteq Supp1[Candidate(Depth)]
  BY <1>3, <1>4 DEF QuotaAt
<1>10. /\ Top'.quota >= 0
       /\ Top'.quota = Cardinality(Open(Depth)') + Cardinality(Partners(Depth))
                        - Cardinality(Supp1[Candidate(Depth)])
  <2>1. CASE BindConst
    <3>1. Cardinality(Open(Depth)) = Cardinality(Open(Depth)') + 1
          /\ Cardinality(Open(Depth)') \in Nat
      BY <2>1, OpenBind
    <3>2. Top'.quota = Top.quota - 1 /\ Top.quota # 0
      BY <1>3, <2>1
    <3>3. QED
      BY <1>7, <1>9, <3>1, <3>2
  <2>2. CASE UnbindConst
    <3>1. Cardinality(Open(Depth)') = Cardinality(Open(Depth)) + 1
          /\ Cardinality(Open(Depth)) \in Nat
      BY <2>2, OpenUnbind
    <3>2. Top'.quota = Top.quota + 1
      BY <1>3, <2>2
    <3>3. QED
      BY <1>7, <1>9, <3>1, <3>2
  <2>3. QED
    BY <2>1, <2>2
<1>11. /\ Partners(Depth)' \subseteq Supp1[Candidate(Depth)']
       /\ stack'[Depth].quota >= 0
       /\ stack'[Depth].quota = Cardinality(Open(Depth)') + Cardinality(Partners(Depth)')
                        - Cardinality(Supp1[Candidate(Depth)'])
  BY <1>3, <1>6, <1>9, <1>10
<1>12. QED
  BY <1>1, <1>8, <1>11 DEF QuotaAt

\* One more circuit-1 input among the partners, or none when it is one already.
LEMMA OneMorePartner ==
    ASSUME NEW P, IsFiniteSet(P), NEW c
    PROVE  /\ c \in P => Cardinality(P \cup {c}) = Cardinality(P)
           /\ c \notin P => Cardinality(P \cup {c}) = Cardinality(P) + 1
           /\ Cardinality(P) \in Nat
<1>1. c \in P => P \cup {c} = P
  OBVIOUS
<1>2. c \notin P => Cardinality(P \cup {c}) = Cardinality(P) + 1
  BY FS_AddElement
<1>3. QED
  BY <1>1, <1>2, FS_CardinalityType

\* Placing an input on a circuit-1 input uses up a further one only when there
\* was a first.
LEMMA QuotaInput ==
    ASSUME TypeOK, TypeOK', InputHolding, QuotaKept, [Next]_vars, BindInput
    PROVE  QuotaAt(Depth)'
<1>1. Depth \in Nat /\ Depth > 0 /\ Depth' = Depth /\ Depth \in 1..Depth
  <2>1. TopStep
    BY TopSteps
  <2>2. QED
    BY <2>1, TopStepCommits, LevelFacts DEF TopStep
<1>2. /\ Top'.locked = Top.locked /\ C1Output' = C1Output
      /\ Frames > 0 /\ Top = stack[Depth] /\ Top' = stack'[Depth]
      /\ Top'.quota = Top.quota - (IF Top.used[C1Input] # 0 THEN 1 ELSE 0)
      /\ Top'.used = [Top.used EXCEPT ![C1Input] = @ + 1]
      /\ pc = "input_cand" /\ pc' = "neg"
      /\ C1Input \in C1In
  BY <1>1, SeeBind DEF Top
<1> PICK x \in C2In : x = C2Input
  BY <1>2, InLoop
<1> PICK y \in C1In : y = C1Input
  BY <1>2
<1>3. y \in Supp1[C1Output] /\ ~(Top.used[y] # 0 /\ Top.quota = 0)
  BY PortsAssumption DEF BindInput, InputFits
<1>4. C1Output = Candidate(Depth) /\ C1Output' = Candidate(Depth)'
  BY DEF C1Output, Candidate, Top
<1>5. QuotaAt(Depth)
  BY <1>1, <1>2 DEF QuotaKept, Entered
<1>6. /\ Top.quota \in Int /\ Cardinality(Partners(Depth)) \in Nat
      /\ Cardinality(Supp1[Candidate(Depth)]) \in Nat
      /\ Top.used \in [C1In -> Int]
  BY <1>2, QuotaNumbers
<1>7. ASSUME NEW c \in C1In
      PROVE  /\ x \notin Taken(Depth, c)
             /\ Taken(Depth, c)' = Taken(Depth, c) \cup (IF c = y THEN {x} ELSE {})
  <2>1. UNCHANGED inputLock
    BY SeeBind
  <2>2. x \notin Top.locked
    BY <1>2, LastFrameAlone
  <2>3. \A i : i \in Taken(Depth, c) <=>
           (i \in Top.locked /\ inputLock[i].c1 = c) \/ i \in Placed(Depth, c)
    BY <1>1, TakenAre DEF TopTaken
  <2>4. \A i : i \in Taken(Depth, c)' <=>
           (i \in Top.locked /\ inputLock[i].c1 = c) \/ i \in Placed(Depth, c)'
    BY <1>1, <1>2, <2>1, TakenAreNext DEF TopTaken
  <2>5. /\ x \notin Placed(Depth, c)
        /\ Placed(Depth, c)' = Placed(Depth, c) \cup (IF c = y THEN {x} ELSE {})
    BY PlacedBind
  <2>6. QED
    BY <2>2, <2>3, <2>4, <2>5
<1>8. ASSUME NEW c \in C1In
      PROVE  stack'[Depth].used[c] = Cardinality(Taken(Depth, c)')
  <2>1. stack[Depth].used[c] = Cardinality(Taken(Depth, c))
    BY <1>5 DEF QuotaAt
  <2>2. IsFiniteSet(Taken(Depth, c))
    BY <1>1, QuotaFinite
  <2>3. CASE c = y
    <3>1. Cardinality(Taken(Depth, c)') = Cardinality(Taken(Depth, c)) + 1
      BY <1>7, <2>2, <2>3, FS_AddElement
    <3>2. QED
      BY <1>2, <1>6, <2>1, <2>3, <3>1
  <2>4. CASE c # y
    BY <1>2, <1>6, <1>7, <2>1, <2>4
  <2>5. QED
    BY <2>3, <2>4
<1>9. Partners(Depth)' = Partners(Depth) \cup {y}
  <2>1. \A c : c \in Partners(Depth)' <=> c \in C1In /\ Taken(Depth, c)' # {}
    BY DEF Partners
  <2>2. \A c : c \in Partners(Depth) <=> c \in C1In /\ Taken(Depth, c) # {}
    BY DEF Partners
  <2>3. \A c : c \in Partners(Depth)' <=> c \in Partners(Depth) \/ c = y
    BY <1>7, <2>1, <2>2
  <2>4. QED
    BY <2>3
<1>10. (y \in Partners(Depth)) <=> (Top.used[y] # 0)
  <2>1. IsFiniteSet(Taken(Depth, y)) /\ Top.used[y] = Cardinality(Taken(Depth, y))
    BY <1>1, <1>2, <1>5, QuotaFinite DEF QuotaAt
  <2>2. (Cardinality(Taken(Depth, y)) = 0) <=> (Taken(Depth, y) = {})
    BY <2>1, FS_EmptySet
  <2>3. QED
    BY <2>1, <2>2 DEF Partners
<1>11. /\ Top.quota >= 0
       /\ Top.quota = Cardinality(Open(Depth)) + Cardinality(Partners(Depth))
                        - Cardinality(Supp1[Candidate(Depth)])
       /\ Partners(Depth) \subseteq Supp1[Candidate(Depth)]
  BY <1>2, <1>5 DEF QuotaAt
<1>12. Cardinality(Open(Depth)) = Cardinality(Open(Depth)') + 1 /\ Cardinality(Open(Depth)') \in Nat
  BY OpenBind
<1>13. /\ y \in Partners(Depth) => Cardinality(Partners(Depth)') = Cardinality(Partners(Depth))
       /\ y \notin Partners(Depth) =>
             Cardinality(Partners(Depth)') = Cardinality(Partners(Depth)) + 1
  BY <1>1, <1>9, QuotaFinite, OneMorePartner
<1>14. /\ Top'.quota >= 0
       /\ Top'.quota = Cardinality(Open(Depth)') + Cardinality(Partners(Depth)')
                        - Cardinality(Supp1[Candidate(Depth)])
  <2>1. CASE Top.used[y] # 0
    <3>1. Top'.quota = Top.quota - 1 /\ Top.quota # 0
      BY <1>2, <1>3, <2>1
    <3>2. Cardinality(Partners(Depth)') = Cardinality(Partners(Depth))
      BY <1>10, <1>13, <2>1
    <3>3. QED
      BY <1>6, <1>11, <1>12, <3>1, <3>2
  <2>2. CASE Top.used[y] = 0
    <3>1. Top'.quota = Top.quota
      BY <1>2, <1>6, <2>2
    <3>2. Cardinality(Partners(Depth)') = Cardinality(Partners(Depth)) + 1
      BY <1>10, <1>13, <2>2
    <3>3. QED
      BY <1>6, <1>11, <1>12, <3>1, <3>2
  <2>3. QED
    BY <2>1, <2>2
<1>15. /\ Partners(Depth)' \subseteq Supp1[Candidate(Depth)']
       /\ stack'[Depth].quota >= 0
       /\ stack'[Depth].quota = Cardinality(Open(Depth)') + Cardinality(Partners(Depth)')
                        - Cardinality(Supp1[Candidate(Depth)'])
  BY <1>2, <1>3, <1>4, <1>9, <1>11, <1>14
<1>16. QED
  BY <1>1, <1>8, <1>15 DEF QuotaAt

\* Taking it back returns a further one only when another is left.
LEMMA QuotaInputBack ==
    ASSUME TypeOK, TypeOK', InputHolding, QuotaKept, [Next]_vars, UnbindInput
    PROVE  QuotaAt(Depth)'
<1>1. Depth \in Nat /\ Depth > 0 /\ Depth' = Depth /\ Depth \in 1..Depth
  <2>1. TopStep
    BY TopSteps
  <2>2. QED
    BY <2>1, TopStepCommits, LevelFacts DEF TopStep
<1>2. /\ Top'.locked = Top.locked /\ C1Output' = C1Output
      /\ Frames > 0 /\ Top = stack[Depth] /\ Top' = stack'[Depth]
      /\ Top'.quota = Top.quota + (IF Top.used[C1Input] > 1 THEN 1 ELSE 0)
      /\ Top'.used = [Top.used EXCEPT ![C1Input] = @ - 1]
      /\ pc = "neg" /\ pc' = "input_cand"
      /\ C1Input \in C1In
  BY <1>1, SeeLastFrame, InLoop DEF Top
<1> PICK x \in C2In : x = C2Input
  BY <1>2, InLoop
<1> PICK y \in C1In : y = C1Input
  BY <1>2
<1>3. C1Output = Candidate(Depth) /\ C1Output' = Candidate(Depth)'
  BY DEF C1Output, Candidate, Top
<1>4. QuotaAt(Depth)
  BY <1>1, <1>2 DEF QuotaKept, Entered
<1>5. /\ Top.quota \in Int
      /\ Cardinality(Supp1[Candidate(Depth)]) \in Nat
      /\ Top.used \in [C1In -> Int]
  BY <1>2, QuotaNumbers
<1>6. ASSUME NEW c \in C1In
      PROVE  /\ x \notin Taken(Depth, c)'
             /\ Taken(Depth, c) = Taken(Depth, c)' \cup (IF c = y THEN {x} ELSE {})
  <2>1. UNCHANGED inputLock
    BY SeeLastFrame
  <2>2. x \notin Top.locked
    BY <1>2, LastFrameAlone
  <2>3. \A i : i \in Taken(Depth, c) <=>
           (i \in Top.locked /\ inputLock[i].c1 = c) \/ i \in Placed(Depth, c)
    BY <1>1, TakenAre DEF TopTaken
  <2>4. \A i : i \in Taken(Depth, c)' <=>
           (i \in Top.locked /\ inputLock[i].c1 = c) \/ i \in Placed(Depth, c)'
    BY <1>1, <1>2, <2>1, TakenAreNext DEF TopTaken
  <2>5. /\ x \notin Placed(Depth, c)'
        /\ Placed(Depth, c) = Placed(Depth, c)' \cup (IF c = y THEN {x} ELSE {})
    BY PlacedUnbind
  <2>6. QED
    BY <2>2, <2>3, <2>4, <2>5
<1>7. ASSUME NEW c \in C1In
      PROVE  /\ stack'[Depth].used[c] = Cardinality(Taken(Depth, c)')
             /\ IsFiniteSet(Taken(Depth, c)') /\ Cardinality(Taken(Depth, c)') \in Nat
  <2>1. stack[Depth].used[c] = Cardinality(Taken(Depth, c))
    BY <1>4 DEF QuotaAt
  <2>2. IsFiniteSet(Taken(Depth, c)') /\ Cardinality(Taken(Depth, c)') \in Nat
    <3>1. Taken(Depth, c)' \subseteq Taken(Depth, c)
      BY <1>6
    <3>2. QED
      BY <1>1, <3>1, QuotaFinite, FS_Subset, FS_CardinalityType
  <2>3. CASE c = y
    <3>1. Cardinality(Taken(Depth, c)) = Cardinality(Taken(Depth, c)') + 1
      BY <1>6, <2>2, <2>3, FS_AddElement
    <3>2. QED
      BY <1>2, <1>5, <2>1, <2>2, <2>3, <3>1
  <2>4. CASE c # y
    BY <1>2, <1>5, <1>6, <2>1, <2>2, <2>4
  <2>5. QED
    BY <2>3, <2>4
<1>8. Partners(Depth) = Partners(Depth)' \cup {y}
  <2>1. \A c : c \in Partners(Depth)' <=> c \in C1In /\ Taken(Depth, c)' # {}
    BY DEF Partners
  <2>2. \A c : c \in Partners(Depth) <=> c \in C1In /\ Taken(Depth, c) # {}
    BY DEF Partners
  <2>3. \A c : c \in Partners(Depth) <=> c \in Partners(Depth)' \/ c = y
    BY <1>6, <2>1, <2>2
  <2>4. QED
    BY <2>3
<1>9. (y \in Partners(Depth)') <=> (Top.used[y] > 1)
  <2>1. /\ IsFiniteSet(Taken(Depth, y)') /\ Cardinality(Taken(Depth, y)') \in Nat
        /\ Top.used[y] - 1 = Cardinality(Taken(Depth, y)')
    BY <1>2, <1>5, <1>7
  <2>2. (Cardinality(Taken(Depth, y)') = 0) <=> (Taken(Depth, y)' = {})
    BY <2>1, FS_EmptySet
  <2>3. (y \in Partners(Depth)') <=> (Taken(Depth, y)' # {})
    BY DEF Partners
  <2>4. QED
    BY <1>5, <2>1, <2>2, <2>3
<1>10. /\ Top.quota >= 0
       /\ Top.quota = Cardinality(Open(Depth)) + Cardinality(Partners(Depth))
                        - Cardinality(Supp1[Candidate(Depth)])
       /\ Partners(Depth) \subseteq Supp1[Candidate(Depth)]
  BY <1>2, <1>4 DEF QuotaAt
<1>11. Cardinality(Open(Depth)') = Cardinality(Open(Depth)) + 1 /\ Cardinality(Open(Depth)) \in Nat
  BY OpenUnbind
<1>12. /\ y \in Partners(Depth)' => Cardinality(Partners(Depth)') = Cardinality(Partners(Depth))
       /\ y \notin Partners(Depth)' =>
             Cardinality(Partners(Depth)) = Cardinality(Partners(Depth)') + 1
       /\ Cardinality(Partners(Depth)') \in Nat
  <2>1. Partners(Depth)' \subseteq Partners(Depth)
    BY <1>8
  <2>2. IsFiniteSet(Partners(Depth)')
    BY <1>1, <2>1, QuotaFinite, FS_Subset
  <2>3. QED
    BY <1>8, <2>2, OneMorePartner
<1>13. /\ Top'.quota >= 0
       /\ Top'.quota = Cardinality(Open(Depth)') + Cardinality(Partners(Depth)')
                        - Cardinality(Supp1[Candidate(Depth)])
  <2>1. CASE Top.used[y] > 1
    <3>1. Top'.quota = Top.quota + 1
      BY <1>2, <2>1
    <3>2. Cardinality(Partners(Depth)') = Cardinality(Partners(Depth))
      BY <1>9, <1>12, <2>1
    <3>3. QED
      BY <1>5, <1>10, <1>11, <1>12, <3>1, <3>2
  <2>2. CASE ~(Top.used[y] > 1)
    <3>1. Top'.quota = Top.quota
      BY <1>2, <1>5, <2>2
    <3>2. Cardinality(Partners(Depth)) = Cardinality(Partners(Depth)') + 1
      BY <1>9, <1>12, <2>2
    <3>3. QED
      BY <1>5, <1>10, <1>11, <1>12, <3>1, <3>2
  <2>3. QED
    BY <2>1, <2>2
<1>14. /\ Partners(Depth)' \subseteq Supp1[Candidate(Depth)']
       /\ stack'[Depth].quota >= 0
       /\ stack'[Depth].quota = Cardinality(Open(Depth)') + Cardinality(Partners(Depth)')
                        - Cardinality(Supp1[Candidate(Depth)'])
  BY <1>2, <1>3, <1>8, <1>10, <1>13
<1>15. QED
  BY <1>1, <1>7, <1>14 DEF QuotaAt

\* A support that lists every input once is as long as it has inputs.
LEMMA DistinctRange ==
    ASSUME NEW S, NEW s \in Seq(S), IsInjective(s)
    PROVE  IsFiniteSet(Range(s)) /\ Cardinality(Range(s)) = Len(s)
<1>1. Len(s) \in Nat /\ DOMAIN s = 1..Len(s) /\ s \in [1..Len(s) -> Range(s)]
  BY LenProperties DEF Range
<1>2. IsFiniteSet(1..Len(s)) /\ Cardinality(1..Len(s)) = Len(s)
  BY <1>1, FS_Interval
<1>3. s \in Bijection(1..Len(s), Range(s))
  BY <1>1 DEF Bijection, Injection, Surjection, Range
<1>4. ExistsBijection(1..Len(s), Range(s))
  BY <1>3 DEF ExistsBijection
<1>5. QED
  BY <1>2, <1>4, FS_Bijection

\* Four sets apart from each other are together as large as they are.
LEMMA FourParts ==
    ASSUME NEW A, NEW B, NEW C, NEW D,
           IsFiniteSet(A), IsFiniteSet(B), IsFiniteSet(C), IsFiniteSet(D),
           A \cap B = {}, (A \cup B) \cap C = {}, (A \cup B \cup C) \cap D = {}
    PROVE  Cardinality(A \cup B \cup C \cup D) =
              Cardinality(A) + Cardinality(B) + Cardinality(C) + Cardinality(D)
<1>1. \A S, T : IsFiniteSet(S) /\ IsFiniteSet(T) /\ S \cap T = {} =>
         IsFiniteSet(S \cup T) /\ Cardinality(S \cup T) = Cardinality(S) + Cardinality(T)
  <2>1. ASSUME NEW S, NEW T, IsFiniteSet(S), IsFiniteSet(T), S \cap T = {}
        PROVE  IsFiniteSet(S \cup T) /\ Cardinality(S \cup T) = Cardinality(S) + Cardinality(T)
    <3>1. Cardinality(S \cap T) = 0 /\ Cardinality(S) \in Nat /\ Cardinality(T) \in Nat
      BY <2>1, FS_EmptySet, FS_CardinalityType
    <3>2. /\ IsFiniteSet(S \cup T)
          /\ Cardinality(S \cup T) = Cardinality(S) + Cardinality(T) - Cardinality(S \cap T)
      BY <2>1, FS_Union
    <3>3. QED
      BY <3>1, <3>2
  <2>2. QED
    BY <2>1
<1>2. IsFiniteSet(A \cup B) /\ Cardinality(A \cup B) = Cardinality(A) + Cardinality(B)
  BY <1>1
<1>3. /\ IsFiniteSet(A \cup B \cup C)
      /\ Cardinality(A \cup B \cup C) = Cardinality(A) + Cardinality(B) + Cardinality(C)
  BY <1>1, <1>2
<1>4. QED
  BY <1>1, <1>3

\* The sum that filtLockedInput computes.
LEMMA QuotaSum ==
    ASSUME NEW l \in Nat, NEW s \in Nat, NEW c \in Nat, NEW p \in Nat, NEW q \in Nat,
           NEW d \in Nat, NEW t \in Nat, l = c + p + d + t
    PROVE  l - s - c - (p - q) - d = t + q - s
  OBVIOUS

\* filtLockedInput computes the quota: what the support has more than the
\* candidate's, less the constants, the dangling and the doubled inputs.
LEMMA QuotaEnter ==
    ASSUME TypeOK, TypeOK', InputHolding, EnterOutput
    PROVE  QuotaAt(Depth)'
<1>1. Depth \in Nat /\ Depth > 0 /\ Depth' = Depth /\ Depth \in 1..Depth
  <2>1. TopStep
    BY TopSteps
  <2>2. QED
    BY <2>1, TopStepCommits, LevelFacts DEF TopStep
<1> PICK o2 \in C2Out : o2 = Top.out
  BY SeeEnterOutput
<1> PICK o1 \in C1Out : o1 = C1Output
  BY SeeEnterOutput
<1> DEFINE supp == Range(Supp2[o2])
           const == LockedConst(o2)
           paired == Locked(o2) \ LockedConst(o2)
           partners == {inputLock[i].c1 : i \in paired}
           dangling == {i \in supp : Dangling(i, o1)}
           todo == {i \in supp : inputLock[i].c1 = None /\ ~Dangling(i, o1)}
<1>2. /\ Top'.ins = <<>> /\ Top'.quota = QuotaLeft(o2, o1)
      /\ Top'.used = [c \in C1In |-> Cardinality(LockedTo(o2, c))]
      /\ Top'.todo = todo /\ Top'.locked = Locked(o2)
      /\ C1Output' = o1 /\ UNCHANGED inputLock
      /\ LocksInSupport(o2, o1) /\ QuotaLeft(o2, o1) >= 0
      /\ pc' = "match_input"
  BY SeeEnterOutput DEF OutputFits, inputVars
<1>3. supp \subseteq C2In /\ inputLock \in [C2In -> InputLock]
  BY FilterTyped DEF TypeOK, Typed
<1>4. (\A c : Placed(Depth, c)' = {}) /\ Open(Depth)' = todo /\ Top' = stack'[Depth]
      /\ Candidate(Depth)' = o1
  <2>1. Top' = stack'[Depth]
    BY <1>1 DEF Top
  <2>2. BoundFrames(Depth)' = {} /\ DOMAIN stack'[Depth].ins = {}
    <3>1. DOMAIN stack'[Depth].ins = {}
      BY <1>2, <2>1
    <3>2. PICK d \in 1..Depth' : d = Depth /\ d = Depth'
      BY <1>1
    <3>3. BoundFrames(d)' = DOMAIN stack'[d].ins
      BY <1>2, AllLockNext DEF AllLocking
    <3>4. QED
      BY <3>1, <3>2, <3>3
  <2>3. QED
    BY <1>1, <1>2, <2>1, <2>2 DEF Placed, Open, Candidate, C1Output
<1>5. \A c : Taken(Depth, c)' = LockedTo(o2, c)
  BY <1>1, <1>2, <1>4 DEF Taken, LockedTo
<1>6. /\ supp = const \cup paired \cup dangling \cup todo
      /\ const \cap paired = {} /\ (const \cup paired) \cap dangling = {}
      /\ (const \cup paired \cup dangling) \cap todo = {}
  BY DEF Locked, LockedConst, Dangling
<1>7. /\ IsFiniteSet(supp) /\ Cardinality(supp) = Len(Supp2[o2])
      /\ IsFiniteSet(const) /\ IsFiniteSet(paired) /\ IsFiniteSet(dangling) /\ IsFiniteSet(todo)
  <2>1. IsFiniteSet(supp) /\ Cardinality(supp) = Len(Supp2[o2])
    BY CandidateAssumption, DistinctRange
  <2>2. const \subseteq supp /\ paired \subseteq supp /\ dangling \subseteq supp /\ todo \subseteq supp
    BY <1>6
  <2> HIDE DEF supp, const, paired, dangling, todo
  <2>3. QED
    BY <2>1, <2>2, FS_Subset
<1>8. Partners(Depth)' = partners
  <2>1. \A c : c \in Partners(Depth)' <=> c \in C1In /\ LockedTo(o2, c) # {}
    BY <1>5 DEF Partners
  <2>2. \A i \in paired : inputLock[i].c1 \in C1In
    BY <1>3 DEF Locked, LockedConst, InputLock
  <2>3. \A c \in C1In : LockedTo(o2, c) # {} <=> \E i \in paired : inputLock[i].c1 = c
    BY PortsAssumption DEF LockedTo, LockedConst
  <2>4. QED
    BY <2>1, <2>2, <2>3
<1>9. partners \subseteq Supp1[o1]
  BY <1>2 DEF LocksInSupport
<1>10. Cardinality(supp) = Cardinality(const) + Cardinality(paired) + Cardinality(dangling)
                             + Cardinality(todo)
  <2> HIDE DEF supp, const, paired, dangling, todo
  <2>1. QED
    BY <1>6, <1>7, FourParts
<1>11. QuotaLeft(o2, o1) = Len(Supp2[o2]) - Cardinality(Supp1[o1]) - Cardinality(const)
          - (Cardinality(paired) - Cardinality(partners)) - Cardinality(dangling)
  BY DEF QuotaLeft
<1>12. /\ Cardinality(const) \in Nat /\ Cardinality(paired) \in Nat
       /\ Cardinality(dangling) \in Nat /\ Cardinality(todo) \in Nat
       /\ Cardinality(partners) \in Nat /\ Cardinality(Supp1[o1]) \in Nat
       /\ Cardinality(supp) \in Nat
  <2>1. Supp1[o1] \subseteq C1In /\ partners \subseteq C1In
    BY <1>9, CandidateAssumption
  <2> HIDE DEF supp, const, paired, dangling, todo, partners
  <2>2. \A S \in SUBSET C1In : Cardinality(S) \in Nat
    BY PortsAssumption, FS_Subset, FS_CardinalityType
  <2>3. QED
    BY <1>7, <2>1, <2>2, FS_CardinalityType
<1>13. QuotaLeft(o2, o1) = Cardinality(todo) + Cardinality(partners) - Cardinality(Supp1[o1])
  <2> HIDE DEF supp, const, paired, dangling, todo, partners
  <2>1. /\ Len(Supp2[o2]) \in Nat
        /\ Len(Supp2[o2]) = Cardinality(const) + Cardinality(paired) + Cardinality(dangling)
                             + Cardinality(todo)
    BY <1>7, <1>10, <1>12
  <2>2. Len(Supp2[o2]) - Cardinality(Supp1[o1]) - Cardinality(const)
          - (Cardinality(paired) - Cardinality(partners)) - Cardinality(dangling)
           = Cardinality(todo) + Cardinality(partners) - Cardinality(Supp1[o1])
    <3>1. PICK l \in Nat, s \in Nat, c \in Nat, p \in Nat, q \in Nat, d \in Nat, t \in Nat :
             /\ l = Len(Supp2[o2]) /\ s = Cardinality(Supp1[o1])
             /\ c = Cardinality(const) /\ p = Cardinality(paired)
             /\ q = Cardinality(partners) /\ d = Cardinality(dangling)
             /\ t = Cardinality(todo)
      BY <1>12, <2>1
    <3>2. l = c + p + d + t
      BY <2>1, <3>1
    <3>3. l - s - c - (p - q) - d = t + q - s
      BY <3>2, QuotaSum
    <3>4. QED
      BY <3>1, <3>3
  <2>3. QED
    BY <1>11, <2>2
<1>14. /\ \A c \in C1In : stack'[Depth].used[c] = Cardinality(Taken(Depth, c)')
       /\ Partners(Depth)' \subseteq Supp1[Candidate(Depth)']
       /\ stack'[Depth].quota >= 0
       /\ stack'[Depth].quota = Cardinality(Open(Depth)') + Cardinality(Partners(Depth)')
                        - Cardinality(Supp1[Candidate(Depth)'])
  <2> HIDE DEF supp, const, paired, dangling, todo, partners
  <2>1. \A c \in C1In : stack'[Depth].used[c] = Cardinality(Taken(Depth, c)')
    BY <1>2, <1>4, <1>5
  <2>2. QED
    BY <1>2, <1>4, <1>8, <1>9, <1>13, <2>1
<1>15. QED
  BY <1>1, <1>14 DEF QuotaAt

\* Calls, returns and commits leave every level they keep as it is; the new
\* level has no candidate entered yet.
LEMMA QuotaCalls ==
    ASSUME TypeOK, TypeOK', InputHolding, QuotaKept, [Next]_vars,
           ChooseOutput \/ NoMoreOutputs \/ MiterAccepts \/ UndoOutput \/ AllMatched
    PROVE  QuotaKept'
<1>1. ASSUME NEW n \in 1..Depth, n \in 1..Depth', QuotaAt(n), stack'[n] = stack[n],
             BoundFrames(n)' = BoundFrames(n)
      PROVE  QuotaAt(n)'
  <2>1. Open(n)' = Open(n)
    BY <1>1 DEF Open
  <2>2. \A c \in C1In : Placed(n, c)' = Placed(n, c)
    BY <1>1 DEF Placed, Choice
  <2>3. QED
    BY <1>1, <2>1, <2>2, QuotaSame
<1>2. CASE ChooseOutput
  <2>1. /\ 1..Depth' = 1..Depth \cup {Depth + 1} /\ Depth' = Depth + 1
        /\ \A n \in 1..Depth : stack'[n] = stack[n] /\ n \in 1..Depth'
        /\ pc = "match_output" /\ pc' = "output_cand"
    BY <1>2, SeeChooseOutput
  <2>2. \A n \in 1..Depth : BoundFrames(n)' = BoundFrames(n)
    BY <2>1, AllLock, AllLockNext DEF AllLocking
  <2>3. \A n \in 1..Depth : QuotaAt(n)
    BY <2>1 DEF QuotaKept, Entered
  <2>4. \A n \in 1..Depth' : Entered(n)' => n \in 1..Depth
    BY <2>1 DEF Entered
  <2>5. QED
    BY <1>1, <2>1, <2>2, <2>3, <2>4 DEF QuotaKept
<1>3. CASE NoMoreOutputs
  <2>1. /\ Depth' = Depth - 1 /\ Depth \in Nat
        /\ \A n \in 1..(Depth - 1) : stack'[n] = stack[n] /\ n \in 1..Depth
        /\ pc = "output_cand" /\ pc' \in {"done", "output_back"}
    BY <1>3, SeeNoMoreOutputs
  <2>2. \A n \in 1..(Depth - 1) : BoundFrames(n)' = BoundFrames(n)
    BY <2>1, BelowHolds, AllLockNext DEF AllLocking
  <2>3. \A n \in 1..(Depth - 1) : QuotaAt(n)
    BY <2>1 DEF QuotaKept, Entered
  <2>4. QED
    BY <1>1, <2>1, <2>2, <2>3 DEF QuotaKept
<1>4. CASE MiterAccepts \/ UndoOutput \/ AllMatched
  <2>1. /\ stack' = stack /\ Depth' = Depth
        /\ pc \notin {"input_cand", "neg"} /\ pc' \notin {"input_cand", "neg"}
        /\ pc # "output_cand"
    BY <1>4, SeeCommits
  <2>2. \A n \in 1..Depth : BoundFrames(n)' = BoundFrames(n)
    BY <2>1, AllLock, AllLockNext DEF AllLocking
  <2>3. \A n \in 1..Depth : QuotaAt(n)
    BY <2>1 DEF QuotaKept, Entered
  <2>4. QED
    BY <1>1, <2>1, <2>2, <2>3 DEF QuotaKept
<1>5. QED
  BY <1>2, <1>3, <1>4

\* Every step of the search keeps the quota of every level exact.
LEMMA QuotaStep == TypeOK /\ InputHolding /\ QuotaKept /\ [Next]_vars => QuotaKept'
<1> SUFFICES ASSUME TypeOK, InputHolding, QuotaKept, [Next]_vars PROVE QuotaKept'
  OBVIOUS
<1>1. TypeOK'
  BY TypeStep
<1>2. CASE \/ NextInput \/ MiterRejects \/ NoMoreInputs \/ SkipInput \/ AssignNeg \/ UnlockInput
  BY <1>1, <1>2, TopSteps, QuotaQuiet, QuotaTop
<1>3. CASE BindConst \/ UnbindConst
  BY <1>1, <1>3, TopSteps, QuotaConst, QuotaTop
<1>4. CASE BindInput
  BY <1>1, <1>4, TopSteps, QuotaInput, QuotaTop
<1>5. CASE UnbindInput
  BY <1>1, <1>5, TopSteps, QuotaInputBack, QuotaTop
<1>6. CASE EnterOutput
  BY <1>1, <1>6, TopSteps, QuotaEnter, QuotaTop
<1>7. CASE SkipOutput \/ NextOutputCandidate
  <2>1. TopStep /\ pc' = "output_cand"
    BY <1>7, TopSteps, SeeNewCandidate
  <2>2. QED
    BY <2>1, QuotaTop
<1>8. CASE ChooseOutput \/ NoMoreOutputs \/ MiterAccepts \/ UndoOutput \/ AllMatched
  BY <1>1, <1>8, QuotaCalls
<1>9. CASE Done \/ UNCHANGED vars
  <2>1. stack' = stack /\ pc' = pc /\ inputLock' = inputLock
    BY <1>9 DEF Done, vars, inputVars
  <2>2. Depth' = Depth /\ \A n : BoundFrames(n)' = BoundFrames(n)
    BY <2>1 DEF Depth, BoundFrames, Frames, Top
  <2>3. \A n : Entered(n)' <=> Entered(n)
    BY <2>1, <2>2 DEF Entered
  <2>4. \A n, c : Placed(n, c)' = Placed(n, c)
    BY <2>1, <2>2 DEF Placed, Choice
  <2>5. \A n : Open(n)' = Open(n)
    BY <2>1, <2>2 DEF Open
  <2>6. ASSUME NEW n \in 1..Depth, QuotaAt(n) PROVE QuotaAt(n)'
    BY <2>1, <2>4, <2>5, <2>6, QuotaSame
  <2>7. QED
    BY <2>2, <2>3, <2>6 DEF QuotaKept
<1>10. QED
  BY <1>2, <1>3, <1>4, <1>5, <1>6, <1>7, <1>8, <1>9 DEF Next, MatchOutput, MatchInput

\* At every step of every attempt the quota is what the inputs without a place
\* are more than the circuit-1 inputs without a partner, and it never runs out.
THEOREM QuotaInvariant == Spec => []QuotaKept
<1>1. Init => QuotaKept
  <2>1. Init => Depth = 0
    BY DEF Init, Depth
  <2>2. QED
    BY <2>1 DEF QuotaKept
<1>2. TypeOK /\ InputHolding /\ QuotaKept /\ [Next]_vars => QuotaKept'
  BY QuotaStep
<1>3. QED
  BY <1>1, <1>2, TypeCorrect, InputsInvariant, PTL DEF Spec

--------------------------------------------------------------------------------

\* A level's support is split as it was while its record and its own inputs
\* with those left to it are, and the levels below keep theirs.
LEMMA SplitSame ==
    ASSUME NEW n, SplitAt(n), stack'[n].out = stack[n].out, stack'[n].locked = stack[n].locked,
           \A i : (i \in stack'[n].todo \/ i \in Inputs(n)')
                     <=> (i \in stack[n].todo \/ i \in Inputs(n)),
           \A k \in 1..(n - 1) : Inputs(k)' = Inputs(k)
    PROVE  SplitAt(n)'
<1>1. stack'[n].todo \cup Inputs(n)' = stack[n].todo \cup Inputs(n)
  OBVIOUS
<1>2. QED
  BY <1>1 DEF SplitAt

\* filtLockedInput splits the support of the output it lets through.
LEMMA SplitEnter ==
    ASSUME TypeOK, TypeOK', InputHolding, EnterOutput
    PROVE  SplitAt(Depth)'
<1>1. Depth \in Nat /\ Depth > 0 /\ Depth' = Depth
      /\ \A n \in 1..(Depth - 1) : stack'[n] = stack[n]
  <2>1. TopStep
    BY TopSteps
  <2>2. QED
    BY <2>1, TopStepCommits, LevelFacts DEF TopStep
<1> PICK o2 \in C2Out : o2 = Top.out
  BY SeeEnterOutput
<1>2. /\ Top'.ins = <<>> /\ Top'.out = o2 /\ Top.ins = <<>>
      /\ Top'.todo = {i \in Range(Supp2[o2]) : inputLock[i].c1 = None /\ ~Dangling(i, C1Output)}
      /\ Top'.locked = Locked(o2)
  BY SeeEnterOutput
<1>3. Range(Supp2[o2]) \subseteq C2In
  BY FilterTyped, SeeEnterOutput DEF TypeOK
<1>4. Top' = stack'[Depth] /\ Inputs(Depth)' = {}
  <2>1. Top' = stack'[Depth]
    BY <1>1 DEF Top
  <2>2. DOMAIN stack'[Depth].ins = {}
    BY <1>2, <2>1
  <2>3. QED
    BY <1>1, <2>1, <2>2 DEF Inputs
<1>5. \A k \in 1..(Depth - 1) : Inputs(k)' = Inputs(k)
  BY <1>1 DEF Inputs
<1>6. ASSUME NEW i \in C2In
      PROVE  inputLock[i].c1 # None <=> \E k \in 1..(Depth - 1) : i \in Inputs(k)
  <2>1. inputLock[i].c1 # None <=> \E k \in 1..Depth : Holds(k, i)
    BY LockedHeld
  <2>2. ~Holds(Depth, i)
    <3>1. DOMAIN stack[Depth].ins = {}
      BY <1>2 DEF Top
    <3>2. LockingFrames(Depth) = {}
      BY <3>1 DEF LockingFrames
    <3>3. QED
      BY <3>2 DEF Holds
  <2>3. 1..Depth = 1..(Depth - 1) \cup {Depth}
    BY <1>1
  <2>4. QED
    BY <2>1, <2>2, <2>3, BelowHolds
<1>7. Locked(o2) = {i \in Range(Supp2[o2]) : \E k \in 1..(Depth - 1) : i \in Inputs(k)}
  BY <1>3, <1>6 DEF Locked
<1>8. \A i \in Range(Supp2[o2]) : i \notin Top'.todo /\ i \notin Locked(o2) => InitIn[i] # None
  BY <1>2 DEF Locked, Dangling
<1>9. /\ stack'[Depth].todo \cup Inputs(Depth)' \subseteq Range(Supp2[stack'[Depth].out])
      /\ stack'[Depth].locked = {i \in Range(Supp2[stack'[Depth].out]) :
                                    \E k \in 1..(Depth - 1) : i \in Inputs(k)'}
      /\ \A i \in Range(Supp2[stack'[Depth].out])
                  \ (stack'[Depth].todo \cup Inputs(Depth)' \cup stack'[Depth].locked) :
            InitIn[i] # None
  BY <1>2, <1>4, <1>5, <1>7, <1>8
<1>10. QED
  BY <1>1, <1>9 DEF SplitAt

\* An input opened or given back moves between todo and the frames of the top
\* level; no other step of the loop touches them.
LEMMA SplitLoop ==
    ASSUME TypeOK, TypeOK',
           \/ NextInput \/ MiterRejects \/ NoMoreInputs \/ SkipInput \/ BindConst \/ BindInput
           \/ AssignNeg \/ UnbindConst \/ UnbindInput \/ UnlockInput
    PROVE  /\ \A i : (i \in Top'.todo \/ i \in Inputs(Depth)')
                        <=> (i \in Top.todo \/ i \in Inputs(Depth))
           /\ Top'.out = Top.out /\ Top'.locked = Top.locked
<1>1. Depth > 0 /\ Depth' = Depth
  <2>1. TopStep
    BY TopSteps
  <2>2. QED
    BY <2>1, TopStepCommits DEF TopStep
<1>2. /\ \A i : i \in Inputs(Depth) <=> \E m \in 1..Frames : Top.ins[m].i = i
      /\ Frames \in Nat
  BY <1>1, InputsAre, FramesAre DEF TopInputs, TopFrames
<1>3. \A i : i \in Inputs(Depth)' <=> \E m \in 1..Frames' : Top'.ins[m].i = i
  BY <1>1, InputsAreNext DEF TopInputs
<1>4. CASE NextInput
  <2>1. /\ Frames' = Frames + 1 /\ C2Input' \in Top.todo /\ Top'.todo = Top.todo \ {C2Input'}
        /\ \A m \in 1..Frames : Top'.ins[m] = Top.ins[m]
        /\ Top'.ins[Frames + 1].i = C2Input'
        /\ Top'.out = Top.out /\ Top'.locked = Top.locked
    BY <1>4, SeeNextInput
  <2>2. 1..(Frames + 1) = 1..Frames \cup {Frames + 1}
    BY <1>2
  <2>3. \A i : i \in Inputs(Depth)' <=> i \in Inputs(Depth) \/ i = C2Input'
    BY <1>2, <1>3, <2>1, <2>2
  <2>4. QED
    BY <2>1, <2>3
<1>5. CASE NoMoreInputs
  <2>1. /\ Frames > 0 /\ Frames' = Frames - 1 /\ Top'.todo = Top.todo \cup {C2Input}
        /\ \A m \in 1..(Frames - 1) : Top'.ins[m] = Top.ins[m]
        /\ Top'.out = Top.out /\ Top'.locked = Top.locked
    BY <1>5, SeeNoMoreInputs
  <2>2. C2Input = Top.ins[Frames].i
    BY DEF C2Input, Frame
  <2>3. 1..Frames = 1..(Frames - 1) \cup {Frames}
    BY <1>2, <2>1
  <2>4. \A i : i \in Inputs(Depth) <=> i \in Inputs(Depth)' \/ i = C2Input
    BY <1>2, <1>3, <2>1, <2>2, <2>3
  <2>5. QED
    BY <2>1, <2>4
<1>6. CASE MiterRejects \/ AssignNeg
  <2>1. stack' = stack /\ Top' = Top
    BY <1>6, SeeSameStack
  <2>2. QED
    BY <1>1, <2>1 DEF Inputs
<1>7. CASE BindConst \/ BindInput
  <2>1. /\ Frames' = Frames /\ Top'.ins = Top.ins /\ Top'.todo = Top.todo
        /\ Top'.out = Top.out /\ Top'.locked = Top.locked
    BY <1>7, SeeBind
  <2>2. QED
    BY <1>2, <1>3, <2>1
<1>8. CASE SkipInput \/ UnbindConst \/ UnbindInput \/ UnlockInput
  <2>1. /\ Frames > 0 /\ Frames' = Frames /\ Top'.todo = Top.todo
        /\ \A m \in 1..(Frames - 1) : Top'.ins[m] = Top.ins[m]
        /\ Top'.ins[Frames].i = C2Input
        /\ Top'.out = Top.out /\ Top'.locked = Top.locked
    BY <1>8, SeeLastFrame
  <2>2. C2Input = Top.ins[Frames].i
    BY DEF C2Input, Frame
  <2>3. 1..Frames = 1..(Frames - 1) \cup {Frames}
    BY <1>2, <2>1
  <2>4. \A i : i \in Inputs(Depth) <=> i \in Inputs(Depth)'
    BY <1>2, <1>3, <2>1, <2>2, <2>3
  <2>5. QED
    BY <2>1, <2>4
<1>9. QED
  BY <1>4, <1>5, <1>6, <1>7, <1>8

\* Every step of the search keeps the split of every support.
LEMMA SplitStep == TypeOK /\ InputHolding /\ SupportSplit /\ [Next]_vars => SupportSplit'
<1> SUFFICES ASSUME TypeOK, InputHolding, SupportSplit, [Next]_vars PROVE SupportSplit'
  OBVIOUS
<1>1. TypeOK'
  BY TypeStep
<1>2. ASSUME TopStep, pc' # "output_cand" => SplitAt(Depth)'
      PROVE  SupportSplit'
  <2>1. Depth \in Nat /\ Depth > 0 /\ Depth' = Depth
        /\ \A n \in 1..(Depth - 1) : stack'[n] = stack[n] /\ n \in 1..Depth /\ n # Depth
    BY <1>2, TopStepCommits, LevelFacts DEF TopStep
  <2>2. \A n \in 1..(Depth - 1) : Inputs(n)' = Inputs(n)
    BY <2>1, BelowKept
  <2>3. ASSUME NEW n \in 1..(Depth - 1) PROVE SplitAt(n)'
    <3>1. \A k \in 1..(n - 1) : k \in 1..(Depth - 1)
      BY <2>1
    <3>2. SplitAt(n)
      BY <2>1 DEF SupportSplit, Entered
    <3>3. QED
      BY <2>1, <2>2, <3>1, <3>2, SplitSame
  <2>4. ASSUME NEW n \in 1..Depth, Entered(n)' PROVE SplitAt(n)'
    <3>1. CASE n = Depth
      <4>1. pc' # "output_cand"
        BY <2>1, <2>4, <3>1 DEF Entered
      <4>2. SplitAt(Depth)'
        BY <1>2, <4>1
      <4>3. QED
        BY <2>1, <3>1, <4>2
    <3>2. CASE n # Depth
      <4>1. n \in 1..(Depth - 1)
        BY <2>1, <3>2
      <4>2. QED
        BY <2>3, <4>1
    <3>3. QED
      BY <3>1, <3>2
  <2>5. QED
    BY <2>1, <2>4 DEF SupportSplit
<1>3. ASSUME NEW n \in 1..Depth, SplitAt(n), stack'[n] = stack[n],
             \A k \in 1..n : Inputs(k)' = Inputs(k)
      PROVE  SplitAt(n)'
  <2>1. Depth \in Nat
    BY LevelFacts
  <2>2. Inputs(n)' = Inputs(n) /\ \A k \in 1..(n - 1) : Inputs(k)' = Inputs(k)
    BY <1>3, <2>1
  <2>3. QED
    BY <1>3, <2>2, SplitSame
<1>4. CASE \/ NextInput \/ MiterRejects \/ NoMoreInputs \/ SkipInput \/ BindConst \/ BindInput
           \/ AssignNeg \/ UnbindConst \/ UnbindInput \/ UnlockInput
  <2>1. TopStep
    BY <1>4, TopSteps
  <2>2. /\ Depth \in Nat /\ Depth > 0 /\ Depth' = Depth /\ Depth \in 1..Depth
        /\ \A n \in 1..(Depth - 1) : stack'[n] = stack[n]
    BY <2>1, TopStepCommits, LevelFacts DEF TopStep
  <2>3. pc # "output_cand"
    BY <1>4 DEF NextInput, MiterRejects, NoMoreInputs, SkipInput, BindConst, BindInput,
                AssignNeg, UnbindConst, UnbindInput, UnlockInput
  <2>4. SplitAt(Depth) /\ Top = stack[Depth] /\ Top' = stack'[Depth]
    BY <2>2, <2>3 DEF SupportSplit, Entered, Top
  <2>5. \A n \in 1..(Depth - 1) : Inputs(n)' = Inputs(n)
    BY <2>2, BelowKept
  <2> PICK d \in 1..Depth : d = Depth
    BY <2>2
  <2>6. /\ \A i : (i \in stack'[d].todo \/ i \in Inputs(d)')
                     <=> (i \in stack[d].todo \/ i \in Inputs(d))
        /\ stack'[d].out = stack[d].out /\ stack'[d].locked = stack[d].locked
    BY <1>1, <1>4, <2>2, <2>4, SplitLoop
  <2>7. SplitAt(d)'
    BY <2>4, <2>5, <2>6, SplitSame
  <2>8. SplitAt(Depth)'
    BY <2>2, <2>7
  <2>9. QED
    BY <1>2, <2>1, <2>8
<1>5. CASE EnterOutput
  BY <1>1, <1>2, <1>5, TopSteps, SplitEnter
<1>6. CASE SkipOutput \/ NextOutputCandidate
  <2>1. TopStep /\ pc' = "output_cand"
    BY <1>6, TopSteps, SeeNewCandidate
  <2>2. QED
    BY <1>2, <2>1
<1>7. CASE ChooseOutput
  <2>1. /\ 1..Depth' = 1..Depth \cup {Depth + 1} /\ Depth' = Depth + 1 /\ Depth \in Nat
        /\ \A n \in 1..Depth : stack'[n] = stack[n] /\ Inputs(n)' = Inputs(n)
        /\ pc = "match_output" /\ pc' = "output_cand"
    BY <1>7, SeeChooseOutput
  <2>2. \A n \in 1..Depth' : Entered(n)' => n \in 1..Depth
    BY <2>1 DEF Entered
  <2>3. ASSUME NEW n \in 1..Depth PROVE SplitAt(n)'
    <3>1. SplitAt(n) /\ \A k \in 1..n : k \in 1..Depth
      BY <2>1 DEF SupportSplit, Entered
    <3>2. QED
      BY <1>3, <2>1, <3>1
  <2>4. QED
    BY <2>2, <2>3 DEF SupportSplit
<1>8. CASE NoMoreOutputs
  <2>1. /\ Depth' = Depth - 1 /\ Depth \in Nat
        /\ \A n \in 1..(Depth - 1) : stack'[n] = stack[n] /\ n \in 1..Depth
                                     /\ Inputs(n)' = Inputs(n)
    BY <1>8, SeeNoMoreOutputs
  <2>2. ASSUME NEW n \in 1..(Depth - 1) PROVE SplitAt(n)'
    <3>1. n \in 1..Depth /\ n # Depth /\ \A k \in 1..n : k \in 1..(Depth - 1)
      BY <2>1
    <3>2. SplitAt(n)
      BY <3>1 DEF SupportSplit, Entered
    <3>3. QED
      BY <1>3, <2>1, <3>1, <3>2
  <2>3. QED
    BY <2>1, <2>2 DEF SupportSplit
<1>9. CASE MiterAccepts \/ UndoOutput \/ AllMatched \/ Done \/ UNCHANGED vars
  <2>1. stack' = stack /\ (pc # "output_cand" \/ pc' = pc)
    <3>1. CASE MiterAccepts \/ UndoOutput \/ AllMatched
      BY <3>1, SeeCommits DEF MiterAccepts, UndoOutput, AllMatched
    <3>2. CASE Done \/ UNCHANGED vars
      BY <3>2 DEF Done, vars
    <3>3. QED
      BY <1>9, <3>1, <3>2
  <2>2. Depth' = Depth /\ \A n : Inputs(n)' = Inputs(n)
    BY <2>1 DEF Depth, Inputs
  <2>3. \A n \in 1..Depth : Entered(n)' => Entered(n)
    BY <2>1, <2>2 DEF Entered
  <2>4. QED
    BY <1>3, <2>1, <2>2, <2>3 DEF SupportSplit
<1>10. QED
  BY <1>4, <1>5, <1>6, <1>7, <1>8, <1>9 DEF Next, MatchOutput, MatchInput

\* Of the support of an output being matched every input was taken by a level
\* below, belongs to this level, or was left out as dangling.
THEOREM SplitInvariant == Spec => []SupportSplit
<1>1. Init => SupportSplit
  <2>1. Init => Depth = 0
    BY DEF Init, Depth
  <2>2. QED
    BY <2>1 DEF SupportSplit
<1>2. TypeOK /\ InputHolding /\ SupportSplit /\ [Next]_vars => SupportSplit'
  BY SplitStep
<1>3. QED
  BY <1>1, <1>2, TypeCorrect, InputsInvariant, PTL DEF Spec

\* The circuit-1 inputs that the locks drive are the partners of the level.
LEMMA DrivenPartners ==
    ASSUME TypeOK, InputHolding, SupportSplit, pc = "match_input"
    PROVE  Driven(Top.out, inputLock) = Partners(Depth)
<1>1. /\ Depth \in Nat /\ Depth > 0 /\ Depth \in 1..Depth /\ Top = stack[Depth]
      /\ DOMAIN Top.ins = 1..Frames
  BY InLoop, LevelFacts DEF Top
<1>2. /\ LockingFrames(Depth) = DOMAIN stack[Depth].ins
      /\ BoundFrames(Depth) = DOMAIN stack[Depth].ins
  BY <1>1, AllLock DEF AllLocking
<1>3. SplitAt(Depth)
  BY <1>1 DEF SupportSplit, Entered
<1>4. Range(Supp2[Top.out]) \subseteq C2In /\ inputLock \in [C2In -> InputLock]
  <2>1. Top.out \in C2Out /\ C1Output \in C1Out
    BY InLoop
  <2>2. Range(Supp2[Top.out]) \subseteq C2In
    BY <2>1, FilterTyped DEF TypeOK
  <2>3. QED
    BY <2>2 DEF TypeOK, Typed
<1>5. \A m \in DOMAIN stack[Depth].ins :
         inputLock[stack[Depth].ins[m].i].c1 = Choice(stack[Depth].ins[m])
  <2>1. \A m \in LockingFrames(Depth) :
           inputLock[stack[Depth].ins[m].i] = LockOf(stack[Depth].ins[m])
    BY <1>1 DEF InputHolding, LocksTaken
  <2>2. \A f : LockOf(f).c1 = Choice(f)
    BY DEF LockOf
  <2>3. QED
    BY <1>2, <2>1, <2>2
<1>6. ASSUME NEW c \in C1In, NEW i \in Range(Supp2[Top.out]), inputLock[i].c1 = c
      PROVE  i \in Taken(Depth, c)
  <2>1. inputLock[i].c1 # None
    BY <1>6, PortsAssumption
  <2>2. PICK k \in 1..Depth : Holds(k, i)
    BY <1>4, <2>1, LockedHeld
  <2>3. CASE k = Depth
    BY <1>2, <1>5, <1>6, <2>2, <2>3 DEF Holds, Taken, Placed
  <2>4. CASE k # Depth
    <3>1. k \in 1..(Depth - 1) /\ i \in Inputs(k)
      BY <1>1, <2>2, <2>4, BelowHolds
    <3>2. i \in stack[Depth].locked
      BY <1>1, <1>3, <3>1 DEF SplitAt
    <3>3. QED
      BY <1>6, <3>2 DEF Taken
  <2>5. QED
    BY <2>3, <2>4
<1>7. ASSUME NEW c \in C1In, NEW i \in Taken(Depth, c)
      PROVE  i \in Range(Supp2[Top.out]) /\ inputLock[i].c1 = c
  <2>1. CASE i \in stack[Depth].locked /\ inputLock[i].c1 = c
    BY <1>1, <1>3, <2>1 DEF SplitAt
  <2>2. CASE i \in Placed(Depth, c)
    <3>1. i \in Inputs(Depth) /\ inputLock[i].c1 = c
      BY <1>2, <1>5, <2>2 DEF Placed, Inputs
    <3>2. QED
      BY <1>1, <1>3, <3>1 DEF SplitAt
  <2>3. QED
    BY <1>7, <2>1, <2>2 DEF Taken
<1>8. \A c : c \in Driven(Top.out, inputLock) <=>
         c \in C1In /\ \E i \in Range(Supp2[Top.out]) : inputLock[i].c1 = c
  BY <1>4, PortsAssumption DEF Driven, InputLock
<1>9. \A c : c \in Partners(Depth) <=> c \in C1In /\ \E i : i \in Taken(Depth, c)
  BY DEF Partners
<1>10. \A c : c \in Driven(Top.out, inputLock) <=> c \in Partners(Depth)
  BY <1>6, <1>7, <1>8, <1>9
<1>11. QED
  BY <1>10

\* When every input has a place the quota is used up, and every circuit-1 input
\* of the support has a partner: the partners are as many as the support, and
\* never outside it.
LEMMA QuotaDrives ==
    TypeOK /\ InputHolding /\ QuotaKept /\ SupportSplit => SupportDriven
<1> SUFFICES ASSUME TypeOK, InputHolding, QuotaKept, SupportSplit,
                    pc = "match_input", Top.todo = {}
             PROVE  Top.quota = 0 /\ Driven(Top.out, inputLock) = Supp1[C1Output]
  BY DEF SupportDriven
<1>1. /\ Depth \in Nat /\ Depth > 0 /\ Depth \in 1..Depth /\ Top = stack[Depth]
      /\ C1Output = Candidate(Depth) /\ C1Output \in C1Out
  BY InLoop, LevelFacts DEF Top
<1>2. QuotaAt(Depth)
  BY <1>1 DEF QuotaKept, Entered
<1>3. Cardinality(Open(Depth)) = 0
  <2>1. \A i : i \notin Open(Depth)
    BY <1>1, TakenAre DEF TopTaken
  <2>2. Open(Depth) = {}
    BY <2>1
  <2>3. QED
    BY <2>2, FS_EmptySet
<1>4. /\ Top.quota \in Int /\ Cardinality(Partners(Depth)) \in Nat
      /\ Cardinality(Supp1[C1Output]) \in Nat /\ IsFiniteSet(Supp1[C1Output])
  <2>1. IsFiniteSet(Supp1[C1Output])
    BY <1>1, CandidateAssumption, PortsAssumption, FS_Subset
  <2>2. QED
    BY <1>1, <2>1, QuotaNumbers
<1>5. Partners(Depth) \subseteq Supp1[C1Output]
  BY <1>1, <1>2 DEF QuotaAt
<1>6. /\ Cardinality(Partners(Depth)) <= Cardinality(Supp1[C1Output])
      /\ Cardinality(Partners(Depth)) = Cardinality(Supp1[C1Output])
            => Partners(Depth) = Supp1[C1Output]
  BY <1>4, <1>5, FS_Subset
<1>7. /\ Top.quota >= 0
      /\ Top.quota = Cardinality(Open(Depth)) + Cardinality(Partners(Depth))
                        - Cardinality(Supp1[C1Output])
  BY <1>1, <1>2 DEF QuotaAt
<1>8. Top.quota = 0 /\ Cardinality(Partners(Depth)) = Cardinality(Supp1[C1Output])
  BY <1>3, <1>4, <1>6, <1>7
<1>9. QED
  BY <1>6, <1>8, DrivenPartners

\* Whenever the miter is asked, the quota is used up and the locks drive exactly
\* the circuit-1 inputs the candidate depends on.
THEOREM MiterSeesSupport == Spec => []SupportDriven
  BY QuotaDrives, TypeCorrect, InputsInvariant, QuotaInvariant, SplitInvariant, PTL

--------------------------------------------------------------------------------
(* The bus maps *)

\* The pairs of buses that LinkBuses and ReleaseBuses are called with tie every
\* bus to one bus of the other circuit.
Tied(P) ==
    /\ P \subseteq Bus2 \X Bus1
    /\ \A p, r \in P : (p[1] = r[1]) <=> (p[2] = r[2])

\* Binding pairs of buses that are free or bound to each other keeps the maps
\* inverse, binds the pairs, and leaves what was bound.
LEMMA BusesLink ==
    ASSUME Typed, BusOneToOne, NEW P, Tied(P),
           \A p \in P : Unbound(p[1], p[2]) \/ Bound(p[1], p[2]),
           LinkBuses(P)
    PROVE  /\ BusOneToOne'
           /\ \A p \in P : bus_2_to_1'[p[1]] = p[2] /\ bus_1_to_2'[p[2]] = p[1]
           /\ \A b \in Bus2 : bus_2_to_1[b] # None => bus_2_to_1'[b] = bus_2_to_1[b]
           /\ \A b \in Bus2 : (\A p \in P : p[1] # b) => bus_2_to_1'[b] = bus_2_to_1[b]
           /\ \A b \in Bus1 : (\A p \in P : p[2] # b) => bus_1_to_2'[b] = bus_1_to_2[b]
<1> DEFINE free == {p \in P : Unbound(p[1], p[2])}
<1>1. /\ bus_2_to_1 \in [Bus2 -> Bus1 \cup {None}] /\ bus_1_to_2 \in [Bus1 -> Bus2 \cup {None}]
      /\ None \notin Bus1 /\ None \notin Bus2
  BY BusAssumption DEF Typed
<1>2. \A p \in P : p[1] \in Bus2 /\ p[2] \in Bus1
  BY DEF Tied
<1>3. /\ bus_2_to_1' = [b \in Bus2 |-> IF \E p \in free : p[1] = b
                                       THEN (CHOOSE p \in free : p[1] = b)[2] ELSE bus_2_to_1[b]]
      /\ bus_1_to_2' = [b \in Bus1 |-> IF \E p \in free : p[2] = b
                                       THEN (CHOOSE p \in free : p[2] = b)[1] ELSE bus_1_to_2[b]]
  BY DEF LinkBuses
<1>4. \A p \in free : p \in P /\ Unbound(p[1], p[2])
  OBVIOUS
<1>5. \A p \in P : p \in free \/ Bound(p[1], p[2])
  OBVIOUS
<1> HIDE DEF free
<1>6. ASSUME NEW p \in free
      PROVE  bus_2_to_1'[p[1]] = p[2] /\ bus_1_to_2'[p[2]] = p[1]
  <2>1. p \in P /\ p[1] \in Bus2 /\ p[2] \in Bus1
    BY <1>2, <1>4
  <2>2. /\ (CHOOSE r \in free : r[1] = p[1]) \in free /\ (CHOOSE r \in free : r[1] = p[1])[1] = p[1]
        /\ (CHOOSE r \in free : r[2] = p[2]) \in free /\ (CHOOSE r \in free : r[2] = p[2])[2] = p[2]
    OBVIOUS
  <2>3. /\ (CHOOSE r \in free : r[1] = p[1])[2] = p[2]
        /\ (CHOOSE r \in free : r[2] = p[2])[1] = p[1]
    BY <1>4, <2>1, <2>2 DEF Tied
  <2>4. QED
    BY <1>3, <2>1, <2>3
<1>7. /\ \A b \in Bus2 : (\A p \in free : p[1] # b) => bus_2_to_1'[b] = bus_2_to_1[b]
      /\ \A b \in Bus1 : (\A p \in free : p[2] # b) => bus_1_to_2'[b] = bus_1_to_2[b]
  BY <1>3
<1>8. /\ \A b \in Bus2 : bus_2_to_1[b] # None => bus_2_to_1'[b] = bus_2_to_1[b]
      /\ \A b \in Bus1 : bus_1_to_2[b] # None => bus_1_to_2'[b] = bus_1_to_2[b]
  <2>1. \A p \in free : bus_2_to_1[p[1]] = None /\ bus_1_to_2[p[2]] = None
    BY <1>4 DEF Unbound
  <2>2. QED
    BY <1>7, <2>1
<1>9. \A p \in P : bus_2_to_1'[p[1]] = p[2] /\ bus_1_to_2'[p[2]] = p[1]
  <2>1. ASSUME NEW p \in P, Bound(p[1], p[2])
        PROVE  bus_2_to_1'[p[1]] = p[2] /\ bus_1_to_2'[p[2]] = p[1]
    BY <1>1, <1>2, <1>8, <2>1 DEF Bound
  <2>2. QED
    BY <1>5, <1>6, <2>1
<1>10. \A b \in Bus2 : bus_2_to_1'[b] # None => bus_1_to_2'[bus_2_to_1'[b]] = b
  <2>1. SUFFICES ASSUME NEW b \in Bus2, bus_2_to_1'[b] # None
                 PROVE  bus_1_to_2'[bus_2_to_1'[b]] = b
    OBVIOUS
  <2>2. CASE \E p \in free : p[1] = b
    BY <1>6, <2>2
  <2>3. CASE \A p \in free : p[1] # b
    <3>1. bus_2_to_1'[b] = bus_2_to_1[b] /\ bus_1_to_2[bus_2_to_1[b]] = b
      BY <1>7, <2>1, <2>3 DEF BusOneToOne
    <3>2. bus_2_to_1[b] \in Bus1 /\ b # None
      BY <1>1, <2>1, <3>1
    <3>3. QED
      BY <1>8, <3>1, <3>2
  <2>4. QED
    BY <2>2, <2>3
<1>11. \A b \in Bus1 : bus_1_to_2'[b] # None => bus_2_to_1'[bus_1_to_2'[b]] = b
  <2>1. SUFFICES ASSUME NEW b \in Bus1, bus_1_to_2'[b] # None
                 PROVE  bus_2_to_1'[bus_1_to_2'[b]] = b
    OBVIOUS
  <2>2. CASE \E p \in free : p[2] = b
    BY <1>6, <2>2
  <2>3. CASE \A p \in free : p[2] # b
    <3>1. bus_1_to_2'[b] = bus_1_to_2[b] /\ bus_2_to_1[bus_1_to_2[b]] = b
      BY <1>7, <2>1, <2>3 DEF BusOneToOne
    <3>2. bus_1_to_2[b] \in Bus2 /\ b # None
      BY <1>1, <2>1, <3>1
    <3>3. QED
      BY <1>8, <3>1, <3>2
  <2>4. QED
    BY <2>2, <2>3
<1>12. /\ \A b \in Bus2 : (\A p \in P : p[1] # b) => bus_2_to_1'[b] = bus_2_to_1[b]
       /\ \A b \in Bus1 : (\A p \in P : p[2] # b) => bus_1_to_2'[b] = bus_1_to_2[b]
  BY <1>4, <1>7
<1>13. QED
  BY <1>8, <1>9, <1>10, <1>11, <1>12 DEF BusOneToOne

\* Releasing bound pairs, those with nothing counting on them, keeps the maps
\* inverse and frees both buses of a pair.
LEMMA BusesRelease ==
    ASSUME Typed, BusOneToOne, NEW P, Tied(P), NEW count,
           \A p \in P : bus_2_to_1[p[1]] = p[2],
           ReleaseBuses(P, count)
    PROVE  /\ BusOneToOne' /\ bus_2_to_1_count' = count
           /\ \A p \in P : IF count[p[1]] = 0
                           THEN bus_2_to_1'[p[1]] = None /\ bus_1_to_2'[p[2]] = None
                           ELSE bus_2_to_1'[p[1]] = p[2] /\ bus_1_to_2'[p[2]] = p[1]
           /\ \A b \in Bus2 : (count[b] # 0 \/ \A p \in P : p[1] # b) =>
                                 bus_2_to_1'[b] = bus_2_to_1[b]
           /\ \A b \in Bus1 : (\A p \in P : p[2] # b) => bus_1_to_2'[b] = bus_1_to_2[b]
<1> DEFINE gone == {p \in P : count[p[1]] = 0}
<1>1. /\ bus_2_to_1 \in [Bus2 -> Bus1 \cup {None}] /\ bus_1_to_2 \in [Bus1 -> Bus2 \cup {None}]
      /\ None \notin Bus1 /\ None \notin Bus2
  BY BusAssumption DEF Typed
<1>2. \A p \in P : p[1] \in Bus2 /\ p[2] \in Bus1
  BY DEF Tied
<1>3. \A p \in P : bus_2_to_1[p[1]] = p[2] /\ bus_1_to_2[p[2]] = p[1]
  BY <1>1, <1>2 DEF BusOneToOne
<1>4. /\ bus_2_to_1' = [b \in Bus2 |-> IF \E p \in gone : p[1] = b THEN None ELSE bus_2_to_1[b]]
      /\ bus_1_to_2' = [b \in Bus1 |-> IF \E p \in gone : p[2] = b THEN None ELSE bus_1_to_2[b]]
      /\ bus_2_to_1_count' = count
  BY DEF ReleaseBuses
<1>5. \A p \in P : count[p[1]] = 0 <=> p \in gone
  OBVIOUS
<1>6. \A p \in gone : p \in P /\ count[p[1]] = 0
  OBVIOUS
<1> HIDE DEF gone
<1>7. \A p \in gone : bus_2_to_1'[p[1]] = None /\ bus_1_to_2'[p[2]] = None
  BY <1>2, <1>4, <1>6
<1>8. /\ \A b \in Bus2 : (\A p \in gone : p[1] # b) => bus_2_to_1'[b] = bus_2_to_1[b]
      /\ \A b \in Bus1 : (\A p \in gone : p[2] # b) => bus_1_to_2'[b] = bus_1_to_2[b]
  BY <1>4
<1>9. ASSUME NEW p \in P, count[p[1]] # 0
      PROVE  bus_2_to_1'[p[1]] = p[2] /\ bus_1_to_2'[p[2]] = p[1]
  <2>1. \A r \in gone : r[1] # p[1]
    BY <1>6, <1>9
  <2>2. \A r \in gone : r[2] # p[2]
    BY <1>6, <2>1 DEF Tied
  <2>3. QED
    BY <1>2, <1>3, <1>8, <2>1, <2>2
<1>10. \A b \in Bus2 : bus_2_to_1'[b] # None => bus_1_to_2'[bus_2_to_1'[b]] = b
  <2>1. SUFFICES ASSUME NEW b \in Bus2, bus_2_to_1'[b] # None
                 PROVE  bus_1_to_2'[bus_2_to_1'[b]] = b
    OBVIOUS
  <2>2. \A p \in gone : p[1] # b
    BY <1>7, <2>1
  <2>3. bus_2_to_1'[b] = bus_2_to_1[b] /\ bus_1_to_2[bus_2_to_1[b]] = b
        /\ bus_2_to_1[b] \in Bus1
    BY <1>1, <1>8, <2>1, <2>2 DEF BusOneToOne
  <2>4. \A p \in gone : p[2] # bus_2_to_1[b]
    BY <1>3, <1>6, <2>2, <2>3
  <2>5. QED
    BY <1>8, <2>3, <2>4
<1>11. \A b \in Bus1 : bus_1_to_2'[b] # None => bus_2_to_1'[bus_1_to_2'[b]] = b
  <2>1. SUFFICES ASSUME NEW b \in Bus1, bus_1_to_2'[b] # None
                 PROVE  bus_2_to_1'[bus_1_to_2'[b]] = b
    OBVIOUS
  <2>2. \A p \in gone : p[2] # b
    BY <1>7, <2>1
  <2>3. bus_1_to_2'[b] = bus_1_to_2[b] /\ bus_2_to_1[bus_1_to_2[b]] = b
        /\ bus_1_to_2[b] \in Bus2
    BY <1>1, <1>8, <2>1, <2>2 DEF BusOneToOne
  <2>4. \A p \in gone : p[1] # bus_1_to_2[b]
    BY <1>3, <1>6, <2>2, <2>3
  <2>5. QED
    BY <1>8, <2>3, <2>4
<1>12. /\ \A b \in Bus2 : (count[b] # 0 \/ \A p \in P : p[1] # b) =>
                             bus_2_to_1'[b] = bus_2_to_1[b]
       /\ \A b \in Bus1 : (\A p \in P : p[2] # b) => bus_1_to_2'[b] = bus_1_to_2[b]
  BY <1>6, <1>8
<1>13. QED
  BY <1>4, <1>5, <1>7, <1>9, <1>10, <1>11, <1>12 DEF BusOneToOne

\* The buses of an input and those of a candidate of it are tied pairwise; the
\* bus the input lies on is among them and no bus of an output is.
LEMMA InputPairs ==
    ASSUME NEW i \in C2In, NEW c \in C1In, c \in Range(InCand[i])
    PROVE  /\ Tied(BusPairs(i, c))
           /\ \E p \in BusPairs(i, c) : p[1] = BusIdx2[i]
           /\ \A p \in BusPairs(i, c) : \A o \in C2Out : p[1] # BusIdx2[o]
           /\ \A p \in BusPairs(i, c) : \A o \in C1Out : p[2] # BusIdx1[o]
<1> DEFINE s == BusIndices2[i]
           t == BusIndices1[c]
<1>1. /\ s \in Seq(Bus2) /\ t \in Seq(Bus1)
      /\ BusIdx2[i] \in Bus2 /\ BusIdx1[c] \in Bus1
      /\ Len(s) > 1 => Len(t) >= Len(s)
  BY BusAssumption, CandidateAssumption
<1>2. /\ IsInjective(s) /\ IsInjective(t)
      /\ BusIdx2[i] \in Range(s) /\ BusIdx1[c] \in Range(t)
      /\ \A o \in C1Out : BusIdx1[o] \notin Range(t)
      /\ \A o \in C2Out : BusIdx2[o] \notin Range(s)
  BY BusListAssumption
<1>3. /\ Len(s) \in Nat /\ DOMAIN s = 1..Len(s) /\ \A m \in DOMAIN s : s[m] \in Bus2
      /\ Len(t) \in Nat /\ DOMAIN t = 1..Len(t) /\ \A m \in DOMAIN t : t[m] \in Bus1
  BY <1>1, LenProperties, ElementOfSeq
<1>4. /\ \A m, k \in DOMAIN s : s[m] = s[k] => m = k
      /\ \A m, k \in DOMAIN t : t[m] = t[k] => m = k
      /\ \A m \in DOMAIN s : s[m] \in Range(s)
      /\ \A m \in DOMAIN t : t[m] \in Range(t)
      /\ \E m \in DOMAIN s : s[m] = BusIdx2[i]
  BY <1>2 DEF IsInjective, Range
<1>5. CASE Len(s) > 1
  <2>1. BusPairs(i, c) = {<<s[m], t[m]>> : m \in DOMAIN s}
    BY <1>5 DEF BusPairs
  <2>2. \A m \in DOMAIN s : m \in DOMAIN t
    BY <1>1, <1>3, <1>5
  <2> HIDE DEF s, t
  <2>3. \A p \in BusPairs(i, c) : \E m \in DOMAIN s : p = <<s[m], t[m]>>
    BY <2>1
  <2>4. \A m \in DOMAIN s : <<s[m], t[m]>> \in BusPairs(i, c)
    BY <2>1
  <2>5. BusPairs(i, c) \subseteq Bus2 \X Bus1
    BY <1>3, <2>2, <2>3
  <2>6. ASSUME NEW p \in BusPairs(i, c), NEW r \in BusPairs(i, c)
        PROVE  (p[1] = r[1]) <=> (p[2] = r[2])
    <3>1. PICK m \in DOMAIN s : p = <<s[m], t[m]>>
      BY <2>3
    <3>2. PICK k \in DOMAIN s : r = <<s[k], t[k]>>
      BY <2>3
    <3>3. p[1] = s[m] /\ p[2] = t[m] /\ r[1] = s[k] /\ r[2] = t[k]
      BY <3>1, <3>2
    <3>4. QED
      BY <1>4, <2>2, <3>3
  <2>7. \E p \in BusPairs(i, c) : p[1] = BusIdx2[i]
    <3>1. PICK m \in DOMAIN s : s[m] = BusIdx2[i]
      BY <1>4
    <3>2. <<s[m], t[m]>> \in BusPairs(i, c) /\ <<s[m], t[m]>>[1] = BusIdx2[i]
      BY <2>4, <3>1
    <3>3. QED
      BY <3>2
  <2>8. \A p \in BusPairs(i, c) : p[1] \in Range(s) /\ p[2] \in Range(t)
    BY <1>4, <2>2, <2>3
  <2>9. QED
    BY <1>2, <2>5, <2>6, <2>7, <2>8 DEF Tied
<1>6. CASE ~(Len(s) > 1)
  <2>1. BusPairs(i, c) = {<<BusIdx2[i], BusIdx1[c]>>}
    BY <1>6 DEF BusPairs
  <2> HIDE DEF s, t
  <2>2. \A p \in BusPairs(i, c) : p[1] = BusIdx2[i] /\ p[2] = BusIdx1[c]
    BY <2>1
  <2>3. BusPairs(i, c) \subseteq Bus2 \X Bus1
    BY <1>1, <2>1
  <2>4. \E p \in BusPairs(i, c) : p[1] = BusIdx2[i]
    BY <2>1, <2>2
  <2>5. QED
    BY <1>2, <2>2, <2>3, <2>4 DEF Tied
<1>7. QED
  BY <1>5, <1>6

\* What a frame has placed is a candidate of its input.
LEMMA BoundCandidate ==
    ASSUME TypeOK, NEW c \in C1In, NEW i \in BoundTo(c)
    PROVE  i \in C2In /\ c \in Range(InCand[i])
<1>1. PICK n \in 1..Depth : i \in Placed(n, c)
  BY BoundToIs
<1>2. PICK m \in BoundFrames(n) : stack[n].ins[m].i = i /\ Choice(stack[n].ins[m]) = c
  BY <1>1 DEF Placed
<1>3. /\ Depth \in Nat /\ m \in DOMAIN stack[n].ins /\ i \in C2In
      /\ stack[n].ins[m] \in InFrame
      /\ DOMAIN stack[n].ins = 1..Len(stack[n].ins)
  BY <1>2, LevelFacts
<1>4. stack[n].ins[m].j <= Len(InCand[i])
  <2>1. CASE m \in LockingFrames(n)
    <3>1. FrameSettled(stack[n].ins[m])
      BY <2>1, LockingSettled
    <3>2. QED
      BY <1>2, <3>1 DEF FrameSettled
  <2>2. CASE m \notin LockingFrames(n)
    <3>1. n = Depth /\ pc \in {"input_cand", "neg"} /\ m = Frames
      BY <1>3, <2>2 DEF LockingFrames
    <3>2. pc = "neg"
      BY <1>2, <3>1 DEF BoundFrames
    <3>3. Frame.j <= Len(InCand[C2Input]) /\ Frame = stack[n].ins[m] /\ C2Input = i
      BY <1>2, <3>1, <3>2 DEF TypeOK, StackShape, Frame, C2Input, Top
    <3>4. QED
      BY <3>3
  <2>3. QED
    BY <2>1, <2>2
<1>5. InCand[i] \in Seq(C1In \cup {CONST}) /\ stack[n].ins[m].j \in Nat \ {0}
  BY <1>3, CandidateAssumption DEF InFrame
<1>6. stack[n].ins[m].j \in DOMAIN InCand[i]
  BY <1>4, <1>5, LenProperties
<1>7. c = InCand[i][stack[n].ins[m].j]
  BY <1>2 DEF Choice
<1>8. QED
  BY <1>3, <1>6, <1>7 DEF Range

\* Only as many things count on a bus as there are, and none exactly when
\* nothing is placed, committed or recorded on it.
LEMMA BusNumbers ==
    ASSUME TypeOK, NEW b
    PROVE  /\ IsFiniteSet(PlacedOn(b)) /\ Cardinality(PlacedOn(b)) \in Nat
           /\ IsFiniteSet(CommittedOn(b)) /\ Cardinality(CommittedOn(b)) \in Nat
           /\ IsFiniteSet(RecordedFor(b)) /\ Cardinality(RecordedFor(b)) \in Nat
           /\ Cardinality(PlacedOn(b)) + Cardinality(CommittedOn(b))
                + Cardinality(RecordedFor(b)) = 0
                 <=> PlacedOn(b) = {} /\ CommittedOn(b) = {} /\ RecordedFor(b) = {}
<1>1. IsFiniteSet(PlacedOn(b))
  <2>1. PlacedOn(b) \subseteq C2In
    BY DEF PlacedOn
  <2>2. QED
    BY <2>1, PortsAssumption, FS_Subset
<1>2. IsFiniteSet(CommittedLevels)
  <2>1. IsFiniteSet(1..Depth) /\ CommittedLevels \subseteq 1..Depth
    BY LevelFacts, FS_Interval DEF CommittedLevels
  <2>2. QED
    BY <2>1, FS_Subset
<1>3. IsFiniteSet(CommittedOn(b))
  <2>1. CommittedOn(b) \subseteq CommittedLevels
    BY DEF CommittedOn
  <2>2. QED
    BY <1>2, <2>1, FS_Subset
<1>4. IsFiniteSet(RecordedFor(b))
  <2>1. RecordedFor(b) \subseteq CommittedLevels \X C2In
    BY DEF RecordedFor
  <2>2. IsFiniteSet(CommittedLevels \X C2In)
    BY <1>2, PortsAssumption, FS_Product
  <2>3. QED
    BY <2>1, <2>2, FS_Subset
<1>5. \A S : IsFiniteSet(S) => Cardinality(S) \in Nat /\ (Cardinality(S) = 0 <=> S = {})
  BY FS_CardinalityType, FS_EmptySet
<1>6. \A p, q, r \in Nat : (p + q + r = 0) <=> (p = 0 /\ q = 0 /\ r = 0)
  OBVIOUS
<1>7. /\ Cardinality(PlacedOn(b)) \in Nat /\ (Cardinality(PlacedOn(b)) = 0 <=> PlacedOn(b) = {})
      /\ Cardinality(CommittedOn(b)) \in Nat
      /\ Cardinality(CommittedOn(b)) = 0 <=> CommittedOn(b) = {}
      /\ Cardinality(RecordedFor(b)) \in Nat
      /\ Cardinality(RecordedFor(b)) = 0 <=> RecordedFor(b) = {}
  BY <1>1, <1>3, <1>4, <1>5
<1>8. QED
  BY <1>1, <1>3, <1>4, <1>6, <1>7

\* A lock a level recorded is the place of a frame below: what it was counted
\* for on its bus the frame counts on too.
LEMMA RecordedPlaced ==
    ASSUME TypeOK, InputHolding, NEW n \in 1..Depth, NEW i \in stack[n].locked,
           inputLock[i].c1 # CONST
    PROVE  /\ i \in C2In /\ inputLock[i].c1 \in C1In
           /\ i \in BoundTo(inputLock[i].c1)
           /\ i \in PlacedOn(BusIdx2[i])
<1>1. PICK k \in 1..(n - 1) : i \in Inputs(k)
  BY DEF InputHolding, FramesApart
<1>2. Depth \in Nat /\ k \in 1..(Depth - 1) /\ k \in 1..Depth /\ k # Depth
  BY <1>1, LevelFacts
<1>3. /\ LockingFrames(k) = DOMAIN stack[k].ins /\ BoundFrames(k) = DOMAIN stack[k].ins
      /\ Holds(k, i)
  BY <1>1, <1>2, BelowHolds
<1>4. i \in C2In /\ inputLock[i].c1 \in C1In
  BY <1>2, <1>3, HeldLocked
<1>5. PICK m \in LockingFrames(k) : stack[k].ins[m].i = i
  BY <1>3 DEF Holds
<1>6. inputLock[i] = LockOf(stack[k].ins[m])
  BY <1>2, <1>5 DEF InputHolding, LocksTaken
<1>7. Choice(stack[k].ins[m]) = inputLock[i].c1
  BY <1>6 DEF LockOf
<1>8. i \in Placed(k, inputLock[i].c1)
  BY <1>3, <1>5, <1>7 DEF Placed
<1>9. i \in BoundTo(inputLock[i].c1)
  BY <1>2, <1>8, BoundToIs
<1>10. \E p \in BusPairs(i, inputLock[i].c1) : p[1] = BusIdx2[i]
  BY <1>4, <1>9, BoundCandidate, InputPairs
<1>11. QED
  BY <1>4, <1>9, <1>10 DEF PlacedOn

\* The levels that are committed before and after a step keep their pair.
LEMMA CommittedKept ==
    ASSUME TypeOK, [Next]_vars
    PROVE  /\ \A n \in CommittedLevels \cup CommittedLevels' :
                 n \in 1..Depth /\ stack'[n] = stack[n] /\ Candidate(n)' = Candidate(n)
           /\ ~(MiterAccepts \/ UndoOutput) => CommittedLevels' = CommittedLevels
<1>1. \A n \in 1..Depth : stack'[n] = stack[n] => Candidate(n)' = Candidate(n)
  BY DEF Candidate
<1>2. CASE TopStep
  <2>1. /\ CommittedLevels = 1..(Depth - 1) /\ CommittedLevels' = 1..(Depth - 1)
        /\ \A n \in 1..(Depth - 1) : stack'[n] = stack[n] /\ n \in 1..Depth
    BY <1>2, TopStepCommits, LevelFacts DEF TopStep
  <2>2. QED
    BY <1>1, <2>1
<1>3. CASE ChooseOutput
  <2>1. /\ CommittedLevels = 1..Depth /\ CommittedLevels' = 1..Depth
        /\ \A n \in 1..Depth : stack'[n] = stack[n]
    BY <1>3, SeeChooseOutput
  <2>2. QED
    BY <1>1, <2>1
<1>4. CASE NoMoreOutputs
  <2>1. /\ CommittedLevels = 1..(Depth - 1) /\ CommittedLevels' = 1..(Depth - 1)
        /\ \A n \in 1..(Depth - 1) : stack'[n] = stack[n] /\ n \in 1..Depth
    BY <1>4, SeeNoMoreOutputs
  <2>2. QED
    BY <1>1, <2>1
<1>5. CASE MiterAccepts \/ UndoOutput \/ AllMatched
  <2>1. /\ stack' = stack /\ Depth' = Depth
        /\ AllMatched => CommittedLevels = 1..Depth /\ CommittedLevels' = 1..Depth
    BY <1>5, SeeCommits
  <2>2. \A n \in CommittedLevels \cup CommittedLevels' : n \in 1..Depth
    BY <2>1 DEF CommittedLevels
  <2>3. QED
    BY <1>1, <1>5, <2>1, <2>2
<1>6. CASE Done \/ UNCHANGED vars
  <2>1. stack' = stack /\ pc' = pc /\ findOutputBest' = findOutputBest
    BY <1>6 DEF Done, vars
  <2>2. CommittedLevels' = CommittedLevels
    BY <2>1 DEF CommittedLevels, Committed, Depth
  <2>3. \A n \in CommittedLevels \cup CommittedLevels' : n \in 1..Depth
    BY <2>2 DEF CommittedLevels
  <2>4. QED
    BY <1>1, <2>1, <2>2, <2>3
<1>7. QED
  BY <1>2, <1>3, <1>4, <1>5, <1>6, TopSteps DEF Next, MatchOutput, MatchInput

\* While the same levels are committed the same pairs and recorded locks count.
LEMMA CommitsCount ==
    ASSUME TypeOK, InputHolding, [Next]_vars, CommittedLevels' = CommittedLevels, NEW b
    PROVE  CommittedOn(b)' = CommittedOn(b) /\ RecordedFor(b)' = RecordedFor(b)
<1>1. \A n \in CommittedLevels : n \in 1..Depth /\ stack'[n] = stack[n]
  BY CommittedKept
<1>2. \A n \in CommittedLevels : \A i \in stack[n].locked : inputLock'[i] = inputLock[i]
  BY <1>1, RecordedLocksKept
<1>3. CommittedOn(b)' = CommittedOn(b)
  BY <1>1 DEF CommittedOn
<1>4. \A n \in CommittedLevels, i \in C2In :
         <<n, i>> \in RecordedFor(b)' <=> <<n, i>> \in RecordedFor(b)
  BY <1>1, <1>2 DEF RecordedFor
<1>5. /\ RecordedFor(b) \subseteq CommittedLevels \X C2In
      /\ RecordedFor(b)' \subseteq CommittedLevels \X C2In
  BY DEF RecordedFor
<1>6. RecordedFor(b)' = RecordedFor(b)
  BY <1>4, <1>5
<1>7. QED
  BY <1>3, <1>6

\* The pair the search is at while it is in the loops of match_input.
BusesFit ==
    pc \in {"match_input", "input_cand", "neg", "input_back"} =>
        \/ Unbound(BusIdx2[Top.out], BusIdx1[C1Output])
        \/ Bound(BusIdx2[Top.out], BusIdx1[C1Output])

\* A step between two points of those loops is at the same pair.
LEMMA SamePair ==
    ASSUME TypeOK, [Next]_vars, pc \in {"match_input", "input_cand", "neg", "input_back"},
           pc' \in {"match_input", "input_cand", "neg", "input_back"}
    PROVE  Top'.out = Top.out /\ C1Output' = C1Output
<1>1. CASE NextInput
  BY <1>1, SeeNextInput
<1>2. CASE NoMoreInputs
  BY <1>2, SeeNoMoreInputs
<1>3. CASE MiterRejects \/ AssignNeg
  BY <1>3, SeeSameStack
<1>4. CASE BindConst \/ BindInput
  BY <1>4, SeeBind
<1>5. CASE SkipInput \/ UnbindConst \/ UnbindInput \/ UnlockInput
  BY <1>5, SeeLastFrame
<1>6. CASE UNCHANGED vars
  BY <1>6 DEF vars, Top, Depth, C1Output
<1>7. QED
  BY <1>1, <1>2, <1>3, <1>4, <1>5, <1>6
     DEF Next, MatchOutput, MatchInput, AllMatched, ChooseOutput, NoMoreOutputs, SkipOutput,
         EnterOutput, NextOutputCandidate, MiterAccepts, UndoOutput, Done

\* Steps that place nothing and commit nothing.
LEMMA BusesQuiet ==
    ASSUME TypeOK, TypeOK', InputHolding, BusHolding, [Next]_vars,
           Placeless \/ MatchOutput \/ UNCHANGED vars
    PROVE  BusHolding'
<1>1. UNCHANGED busVars
  BY DEF Placeless, MatchOutput, AllMatched, ChooseOutput, NoMoreOutputs, SkipOutput, EnterOutput,
         NextOutputCandidate, NextInput, MiterRejects, NoMoreInputs, SkipInput, BindConst,
         AssignNeg, UnbindConst, UnlockInput, vars
<1>2. \A c \in C1In : BoundTo(c)' = BoundTo(c)
  <2>1. CASE Placeless \/ MatchOutput
    BY <2>1, PlacementKept
  <2>2. CASE UNCHANGED vars
    BY <2>2 DEF vars, BoundTo, Placed, BoundFrames, Choice, Depth, Frames, Top
  <2>3. QED
    BY <2>1, <2>2
<1>3. CommittedLevels' = CommittedLevels
  <2>1. CASE Placeless \/ MatchOutput
    BY <2>1, CommittedKept DEF Placeless, MatchOutput, AllMatched, ChooseOutput, NoMoreOutputs,
         SkipOutput, EnterOutput,
         NextOutputCandidate, NextInput, MiterRejects, NoMoreInputs, SkipInput, BindConst,
         AssignNeg, UnbindConst, UnlockInput, MiterAccepts, UndoOutput
  <2>2. CASE UNCHANGED vars
    BY <2>2 DEF vars, CommittedLevels, Committed, Depth
  <2>3. QED
    BY <2>1, <2>2
<1>4. ASSUME NEW b
      PROVE  /\ PlacedOn(b)' = PlacedOn(b)
             /\ CommittedOn(b)' = CommittedOn(b) /\ RecordedFor(b)' = RecordedFor(b)
  BY <1>2, <1>3, CommitsCount DEF PlacedOn
<1>5. BusOneToOne' /\ BusesCounted'
  BY <1>1, <1>4 DEF BusHolding, BusOneToOne, BusesCounted, busVars
<1>6. BusesFit'
  <2>1. SUFFICES ASSUME pc' \in {"match_input", "input_cand", "neg", "input_back"}
                 PROVE  (Unbound(BusIdx2[Top.out], BusIdx1[C1Output])
                           \/ Bound(BusIdx2[Top.out], BusIdx1[C1Output]))'
    BY DEF BusesFit
  <2>2. CASE pc \in {"match_input", "input_cand", "neg", "input_back"}
    <3>1. Top'.out = Top.out /\ C1Output' = C1Output
      BY <2>1, <2>2, SamePair
    <3>2. QED
      BY <1>1, <2>2, <3>1 DEF BusHolding, BusesBound, Unbound, Bound, busVars
  <2>3. CASE EnterOutput
    BY <1>1, <2>3, SeeEnterOutput DEF OutputFits, Unbound, Bound, busVars
  <2>4. QED
    BY <2>1, <2>2, <2>3
       DEF Placeless, MatchOutput, AllMatched, ChooseOutput, NoMoreOutputs, SkipOutput,
           EnterOutput, NextOutputCandidate, NextInput, MiterRejects, NoMoreInputs, SkipInput,
           BindConst, AssignNeg, UnbindConst, UnlockInput, vars
<1>7. \A n \in CommittedLevels' :
         bus_2_to_1'[BusIdx2[stack'[n].out]] = BusIdx1[Candidate(n)']
  <2>1. \A n \in CommittedLevels : stack'[n] = stack[n] /\ Candidate(n)' = Candidate(n)
    BY CommittedKept
  <2>2. QED
    BY <1>1, <1>3, <2>1 DEF BusHolding, BusesBound, busVars
<1>8. BusesBound'
  BY <1>1, <1>2, <1>6, <1>7 DEF BusHolding, BusesBound, BusesFit, busVars, BusPairs
<1>9. QED
  BY <1>5, <1>8 DEF BusHolding

\* What a binding counts on: the buses of the pairs, once each.
Touched(P) == {p[1] : p \in P}

\* Placing an input on a circuit-1 input counts it on every bus of the pairs.
LEMMA BusesBind ==
    ASSUME Unpaired = {}, TypeOK, TypeOK', InputHolding, BusHolding, [Next]_vars, BindInput
    PROVE  BusHolding'
<1>1. /\ pc = "input_cand" /\ pc' = "neg" /\ Frames > 0 /\ C1Input \in C1In
      /\ InputFits(C2Input, C1Input) /\ C1Input \in Range(InCand[C2Input])
  <2>1. /\ pc = "input_cand" /\ pc' = "neg" /\ Frames > 0 /\ C1Input \in C1In
        /\ InputFits(C2Input, C1Input)
    BY SeeBind
  <2>2. Frame \in InFrame /\ C2Input \in C2In /\ Frame.j <= Len(InCand[C2Input])
    BY <2>1, InLoop DEF BindInput
  <2>3. InCand[C2Input] \in Seq(C1In \cup {CONST}) /\ Frame.j \in Nat \ {0}
    BY <2>2, CandidateAssumption DEF InFrame
  <2>4. Frame.j \in DOMAIN InCand[C2Input]
    BY <2>2, <2>3, LenProperties
  <2>5. QED
    BY <2>1, <2>4 DEF C1Input, Range
<1> PICK x \in C2In : x = C2Input
  BY <1>1, InLoop
<1> PICK y \in C1In : y = C1Input
  BY <1>1
<1> DEFINE P == BusPairs(x, y)
           T == Touched(P)
<1>2. /\ Tied(P)
      /\ \A p \in P : \A o \in C2Out : p[1] # BusIdx2[o]
      /\ \A p \in P : \A o \in C1Out : p[2] # BusIdx1[o]
  BY <1>1, InputPairs
<1>3. \A p \in P : Unbound(p[1], p[2]) \/ Bound(p[1], p[2])
  BY <1>1, PortsAssumption DEF InputFits, BusFits
<1>4. /\ LinkBuses(P)
      /\ bus_2_to_1_count' = [b \in Bus2 |->
            bus_2_to_1_count[b] + IF \E p \in P : p[1] = b THEN 1 ELSE 0]
  BY DEF BindInput
<1>5. \A b : b \in T <=> \E p \in P : p[1] = b
  BY DEF Touched
<1>6. \A b : (\E p \in BusPairs(x, y) : p[1] = b) <=> b \in T
  BY <1>5
<1> HIDE DEF P, T
<1>7. BusOneToOne /\ BusesCounted /\ BusesBound /\ Typed
  BY DEF BusHolding, TypeOK
<1>8. /\ BusOneToOne'
      /\ \A p \in P : bus_2_to_1'[p[1]] = p[2] /\ bus_1_to_2'[p[2]] = p[1]
      /\ \A b \in Bus2 : bus_2_to_1[b] # None => bus_2_to_1'[b] = bus_2_to_1[b]
      /\ \A b \in Bus2 : (\A p \in P : p[1] # b) => bus_2_to_1'[b] = bus_2_to_1[b]
      /\ \A b \in Bus1 : (\A p \in P : p[2] # b) => bus_1_to_2'[b] = bus_1_to_2[b]
  BY <1>2, <1>3, <1>4, <1>7, BusesLink
<1>9. CommittedLevels' = CommittedLevels
  <2>1. ~(MiterAccepts \/ UndoOutput)
    BY <1>1 DEF MiterAccepts, UndoOutput
  <2>2. QED
    BY <2>1, CommittedKept
<1>10. ASSUME NEW c \in C1In
       PROVE  /\ x \notin BoundTo(c)
              /\ BoundTo(c)' = BoundTo(c) \cup (IF c = y THEN {x} ELSE {})
  BY BoundBind
<1>11. ASSUME NEW b \in Bus2
       PROVE  /\ x \notin PlacedOn(b)
              /\ PlacedOn(b)' = PlacedOn(b) \cup (IF b \in T THEN {x} ELSE {})
  <2>1. x \notin PlacedOn(b)
    BY <1>10 DEF PlacedOn
  <2>2. \A i : i \in PlacedOn(b)' <=> i \in PlacedOn(b) \/ (i = x /\ b \in T)
    <3>1. \A i : i \in PlacedOn(b)' <=> /\ i \in C2In
                                        /\ \E c \in C1In : /\ i \in BoundTo(c) \/ (c = y /\ i = x)
                                                           /\ \E p \in BusPairs(i, c) : p[1] = b
      BY <1>10 DEF PlacedOn, BusPairs
    <3>2. \A i : i \in PlacedOn(b) <=> /\ i \in C2In
                                       /\ \E c \in C1In : /\ i \in BoundTo(c)
                                                          /\ \E p \in BusPairs(i, c) : p[1] = b
      BY DEF PlacedOn
    <3>3. QED
      BY <1>6, <3>1, <3>2
  <2>3. QED
    BY <2>1, <2>2
<1>12. \A b \in Bus2 : bus_2_to_1_count'[b] = bus_2_to_1_count[b] + IF b \in T THEN 1 ELSE 0
  BY <1>4, <1>5
<1>13. ASSUME NEW b \in Bus2
       PROVE  /\ Cardinality(PlacedOn(b)') = Cardinality(PlacedOn(b)) + IF b \in T THEN 1 ELSE 0
              /\ CommittedOn(b)' = CommittedOn(b) /\ RecordedFor(b)' = RecordedFor(b)
              /\ bus_2_to_1_count[b] \in Nat
              /\ bus_2_to_1_count'[b] = Cardinality(PlacedOn(b)') + Cardinality(CommittedOn(b)')
                                          + Cardinality(RecordedFor(b)')
  <2>1. CommittedOn(b)' = CommittedOn(b) /\ RecordedFor(b)' = RecordedFor(b)
    BY <1>9, CommitsCount
  <2>2. /\ IsFiniteSet(PlacedOn(b)) /\ Cardinality(PlacedOn(b)) \in Nat
        /\ Cardinality(CommittedOn(b)) \in Nat /\ Cardinality(RecordedFor(b)) \in Nat
    BY BusNumbers
  <2>3. bus_2_to_1_count[b] = Cardinality(PlacedOn(b)) + Cardinality(CommittedOn(b))
                                + Cardinality(RecordedFor(b))
    BY <1>7 DEF BusesCounted
  <2>4. Cardinality(PlacedOn(b)') = Cardinality(PlacedOn(b)) + IF b \in T THEN 1 ELSE 0
    <3>1. CASE b \in T
      <4>1. PlacedOn(b)' = PlacedOn(b) \cup {x} /\ x \notin PlacedOn(b)
        BY <1>11, <3>1
      <4>2. Cardinality(PlacedOn(b) \cup {x}) = Cardinality(PlacedOn(b)) + 1
        BY <2>2, <4>1, FS_AddElement
      <4>3. QED
        BY <3>1, <4>1, <4>2
    <3>2. CASE b \notin T
      <4>1. PlacedOn(b)' = PlacedOn(b)
        BY <1>11, <3>2
      <4>2. QED
        BY <2>2, <3>2, <4>1
    <3>3. QED
      BY <3>1, <3>2
  <2>5. QED
    BY <1>12, <2>1, <2>2, <2>3, <2>4
<1>14. BusesCounted'
  BY <1>13 DEF BusesCounted
<1>15. \A b \in Bus2 : (bus_2_to_1_count'[b] = 0) <=> (bus_2_to_1'[b] = None)
  <2>1. ASSUME NEW b \in Bus2, b \in T
        PROVE  bus_2_to_1_count'[b] # 0 /\ bus_2_to_1'[b] # None
    <3>1. bus_2_to_1_count'[b] # 0
      BY <1>12, <1>13, <2>1
    <3>2. PICK p \in P : p[1] = b
      BY <1>5, <2>1
    <3>3. bus_2_to_1'[b] = p[2] /\ p[2] \in Bus1
      BY <1>2, <1>8, <3>2 DEF Tied
    <3>4. QED
      BY <3>1, <3>3, BusAssumption
  <2>2. ASSUME NEW b \in Bus2, b \notin T
        PROVE  (bus_2_to_1_count'[b] = 0) <=> (bus_2_to_1'[b] = None)
    <3>1. bus_2_to_1_count'[b] = bus_2_to_1_count[b]
      BY <1>12, <1>13, <2>2
    <3>2. bus_2_to_1'[b] = bus_2_to_1[b]
      BY <1>5, <1>8, <2>2
    <3>3. QED
      BY <1>7, <3>1, <3>2 DEF BusesBound
  <2>3. QED
    BY <2>1, <2>2
<1>16. ASSUME NEW c \in C1In, NEW i \in BoundTo(c)', NEW p \in BusPairs(i, c)
       PROVE  bus_2_to_1'[p[1]] = p[2]
  <2>1. CASE i \in BoundTo(c)
    <3>1. bus_2_to_1[p[1]] = p[2]
      BY <1>7, <2>1 DEF BusesBound
    <3>2. p[1] \in Bus2 /\ p[2] \in Bus1
      BY <2>1, BoundCandidate, InputPairs DEF Tied
    <3>3. QED
      BY <1>8, <3>1, <3>2, BusAssumption
  <2>2. CASE i \notin BoundTo(c)
    BY <1>8, <1>10, <2>2 DEF P
  <2>3. QED
    BY <2>1, <2>2
<1>17. ASSUME NEW n \in CommittedLevels'
       PROVE  bus_2_to_1'[BusIdx2[stack'[n].out]] = BusIdx1[Candidate(n)']
  <2>1. /\ n \in CommittedLevels /\ stack'[n] = stack[n] /\ Candidate(n)' = Candidate(n)
        /\ n \in 1..Depth
    BY <1>9, CommittedKept
  <2>2. bus_2_to_1[BusIdx2[stack[n].out]] = BusIdx1[Candidate(n)]
    BY <1>7, <2>1 DEF BusesBound
  <2>3. stack[n].out \in C2Out
    BY <2>1, LevelFacts DEF Level
  <2>4. BusIdx2[stack[n].out] \in Bus2
    BY <2>3, BusAssumption
  <2>5. \A p \in P : p[1] # BusIdx2[stack[n].out]
    BY <1>2, <2>3
  <2>6. QED
    BY <1>8, <2>1, <2>2, <2>4, <2>5
<1>18. BusesFit'
  <2>1. pc' = "neg" /\ Top'.out = Top.out /\ C1Output' = C1Output
    BY <1>1, SeeBind
  <2>2. Top.out \in C2Out /\ C1Output \in C1Out
    BY <1>1, InLoop
  <2>3. BusIdx2[Top.out] \in Bus2 /\ BusIdx1[C1Output] \in Bus1
    BY <2>2, BusAssumption
  <2>4. /\ bus_2_to_1'[BusIdx2[Top.out]] = bus_2_to_1[BusIdx2[Top.out]]
        /\ bus_1_to_2'[BusIdx1[C1Output]] = bus_1_to_2[BusIdx1[C1Output]]
    BY <1>2, <1>8, <2>2, <2>3
  <2>5. \/ Unbound(BusIdx2[Top.out], BusIdx1[C1Output])
        \/ Bound(BusIdx2[Top.out], BusIdx1[C1Output])
    BY <1>1, <1>7 DEF BusesBound
  <2>6. QED
    BY <2>1, <2>4, <2>5 DEF BusesFit, Unbound, Bound
<1>19. BusesBound'
  BY <1>15, <1>16, <1>17, <1>18 DEF BusesBound, BusesFit, BusPairs
<1>20. QED
  BY <1>8, <1>14, <1>19 DEF BusHolding

\* Taking the place back counts it off again and frees the buses nothing else
\* counts on.
LEMMA BusesUnbind ==
    ASSUME TypeOK, TypeOK', InputHolding, BusHolding, [Next]_vars, UnbindInput
    PROVE  BusHolding'
<1>1. /\ pc = "neg" /\ pc' = "input_cand" /\ Frames > 0 /\ C1Input \in C1In
      /\ Top'.out = Top.out /\ C1Output' = C1Output
  BY SeeLastFrame, InLoop
<1> PICK x \in C2In : x = C2Input
  BY <1>1, InLoop
<1> PICK y \in C1In : y = C1Input
  BY <1>1
<1> DEFINE P == BusPairs(x, y)
           T == Touched(P)
           count == [b \in Bus2 |-> bus_2_to_1_count[b] - IF \E p \in P : p[1] = b THEN 1 ELSE 0]
<1>2. ReleaseBuses(P, count)
  BY DEF UnbindInput
<1>3. \A b : b \in T <=> \E p \in P : p[1] = b
  BY DEF Touched
<1>4. \A b : (\E p \in BusPairs(x, y) : p[1] = b) <=> b \in T
  BY <1>3
<1>5. \A b \in Bus2 : count[b] = bus_2_to_1_count[b] - IF b \in T THEN 1 ELSE 0
  BY <1>3
<1>6. ASSUME NEW c \in C1In
      PROVE  /\ x \notin BoundTo(c)'
             /\ BoundTo(c) = BoundTo(c)' \cup (IF c = y THEN {x} ELSE {})
  BY BoundUnbind
<1>7. x \in BoundTo(y)
  BY <1>6
<1>8. /\ Tied(P)
      /\ \A p \in P : \A o \in C2Out : p[1] # BusIdx2[o]
      /\ \A p \in P : \A o \in C1Out : p[2] # BusIdx1[o]
  BY <1>7, BoundCandidate, InputPairs
<1>9. BusOneToOne /\ BusesCounted /\ BusesBound /\ Typed
  BY DEF BusHolding, TypeOK
<1>10. \A p \in P : bus_2_to_1[p[1]] = p[2]
  BY <1>7, <1>9 DEF BusesBound
<1> HIDE DEF P, T, count
<1>11. /\ BusOneToOne' /\ bus_2_to_1_count' = count
       /\ \A p \in P : IF count[p[1]] = 0
                       THEN bus_2_to_1'[p[1]] = None /\ bus_1_to_2'[p[2]] = None
                       ELSE bus_2_to_1'[p[1]] = p[2] /\ bus_1_to_2'[p[2]] = p[1]
       /\ \A b \in Bus2 : (count[b] # 0 \/ \A p \in P : p[1] # b) =>
                             bus_2_to_1'[b] = bus_2_to_1[b]
       /\ \A b \in Bus1 : (\A p \in P : p[2] # b) => bus_1_to_2'[b] = bus_1_to_2[b]
  BY <1>2, <1>8, <1>9, <1>10, BusesRelease
<1>12. CommittedLevels' = CommittedLevels
  <2>1. ~(MiterAccepts \/ UndoOutput)
    BY <1>1 DEF MiterAccepts, UndoOutput
  <2>2. QED
    BY <2>1, CommittedKept
<1>13. ASSUME NEW b \in Bus2
       PROVE  /\ x \notin PlacedOn(b)'
              /\ PlacedOn(b) = PlacedOn(b)' \cup (IF b \in T THEN {x} ELSE {})
  <2>1. x \notin PlacedOn(b)'
    BY <1>6 DEF PlacedOn
  <2>2. \A i : i \in PlacedOn(b) <=> i \in PlacedOn(b)' \/ (i = x /\ b \in T)
    <3>1. \A i : i \in PlacedOn(b) <=> /\ i \in C2In
                                       /\ \E c \in C1In : /\ i \in BoundTo(c)' \/ (c = y /\ i = x)
                                                          /\ \E p \in BusPairs(i, c) : p[1] = b
      BY <1>6 DEF PlacedOn
    <3>2. \A i : i \in PlacedOn(b)' <=> /\ i \in C2In
                                        /\ \E c \in C1In : /\ i \in BoundTo(c)'
                                                           /\ \E p \in BusPairs(i, c) : p[1] = b
      BY DEF PlacedOn, BusPairs
    <3>3. QED
      BY <1>4, <3>1, <3>2
  <2>3. QED
    BY <2>1, <2>2
<1>14. ASSUME NEW b \in Bus2
       PROVE  /\ Cardinality(PlacedOn(b)') \in Nat
              /\ Cardinality(PlacedOn(b)) = Cardinality(PlacedOn(b)') + IF b \in T THEN 1 ELSE 0
  <2>1. IsFiniteSet(PlacedOn(b)) /\ Cardinality(PlacedOn(b)) \in Nat
    BY BusNumbers
  <2>2. PlacedOn(b)' \subseteq PlacedOn(b)
    BY <1>13
  <2>3. IsFiniteSet(PlacedOn(b)') /\ Cardinality(PlacedOn(b)') \in Nat
    BY <2>1, <2>2, FS_Subset, FS_CardinalityType
  <2>4. CASE b \in T
    <3>1. PlacedOn(b) = PlacedOn(b)' \cup {x} /\ x \notin PlacedOn(b)'
      BY <1>13, <2>4
    <3>2. Cardinality(PlacedOn(b)' \cup {x}) = Cardinality(PlacedOn(b)') + 1
      BY <2>3, <3>1, FS_AddElement
    <3>3. QED
      BY <2>3, <2>4, <3>1, <3>2
  <2>5. CASE b \notin T
    <3>1. PlacedOn(b) = PlacedOn(b)'
      BY <1>13, <2>5
    <3>2. QED
      BY <2>3, <2>5, <3>1
  <2>6. QED
    BY <2>4, <2>5
<1>15. ASSUME NEW b \in Bus2
       PROVE  /\ CommittedOn(b)' = CommittedOn(b) /\ RecordedFor(b)' = RecordedFor(b)
              /\ bus_2_to_1_count'[b] = Cardinality(PlacedOn(b)') + Cardinality(CommittedOn(b)')
                                          + Cardinality(RecordedFor(b)')
              /\ bus_2_to_1_count'[b] \in Nat /\ bus_2_to_1_count[b] \in Nat
  <2>1. CommittedOn(b)' = CommittedOn(b) /\ RecordedFor(b)' = RecordedFor(b)
    BY <1>12, CommitsCount
  <2>2. /\ Cardinality(PlacedOn(b)) \in Nat
        /\ Cardinality(CommittedOn(b)) \in Nat /\ Cardinality(RecordedFor(b)) \in Nat
    BY BusNumbers
  <2>3. bus_2_to_1_count[b] = Cardinality(PlacedOn(b)) + Cardinality(CommittedOn(b))
                                + Cardinality(RecordedFor(b))
    BY <1>9 DEF BusesCounted
  <2>4. bus_2_to_1_count'[b] = bus_2_to_1_count[b] - IF b \in T THEN 1 ELSE 0
    BY <1>5, <1>11
  <2>5. QED
    BY <1>14, <2>1, <2>2, <2>3, <2>4
<1>16. BusesCounted'
  BY <1>15 DEF BusesCounted
<1>17. ASSUME NEW b \in Bus2
       PROVE  (bus_2_to_1_count'[b] = 0) <=> (bus_2_to_1'[b] = None)
  <2>1. CASE b \in T
    <3>1. PICK p \in P : p[1] = b
      BY <1>3, <2>1
    <3>2. p[2] \in Bus1 /\ p[2] # None
      BY <1>8, BusAssumption DEF Tied
    <3>3. QED
      BY <1>11, <3>1, <3>2
  <2>2. CASE b \notin T
    <3>1. bus_2_to_1_count'[b] = bus_2_to_1_count[b]
      BY <1>5, <1>11, <1>15, <2>2
    <3>2. bus_2_to_1'[b] = bus_2_to_1[b]
      BY <1>3, <1>11, <2>2
    <3>3. QED
      BY <1>9, <3>1, <3>2 DEF BusesBound
  <2>3. QED
    BY <2>1, <2>2
<1>18. ASSUME NEW c \in C1In, NEW i \in BoundTo(c)', NEW p \in BusPairs(i, c)
       PROVE  bus_2_to_1'[p[1]] = p[2]
  <2>1. i \in BoundTo(c)
    BY <1>6
  <2>2. bus_2_to_1[p[1]] = p[2]
    BY <1>9, <2>1 DEF BusesBound
  <2>3. i \in C2In /\ p[1] \in Bus2
    BY <2>1, BoundCandidate, InputPairs DEF Tied
  <2>4. i \in PlacedOn(p[1])'
    BY <2>3 DEF PlacedOn, BusPairs
  <2>5. Cardinality(PlacedOn(p[1])') # 0
    <3>1. PlacedOn(p[1])' \subseteq PlacedOn(p[1]) /\ IsFiniteSet(PlacedOn(p[1]))
      BY <1>13, <2>3, BusNumbers
    <3>2. IsFiniteSet(PlacedOn(p[1])')
      BY <3>1, FS_Subset
    <3>3. QED
      BY <2>4, <3>2, FS_EmptySet
  <2>6. bus_2_to_1_count'[p[1]] # 0
    <3>1. /\ Cardinality(CommittedOn(p[1])') \in Nat /\ Cardinality(RecordedFor(p[1])') \in Nat
      BY <1>15, <2>3, BusNumbers
    <3>2. QED
      BY <1>14, <1>15, <2>3, <2>5, <3>1
  <2>7. QED
    BY <1>11, <2>2, <2>3, <2>6
<1>19. ASSUME NEW n \in CommittedLevels'
       PROVE  bus_2_to_1'[BusIdx2[stack'[n].out]] = BusIdx1[Candidate(n)']
  <2>1. /\ n \in CommittedLevels /\ stack'[n] = stack[n] /\ Candidate(n)' = Candidate(n)
        /\ n \in 1..Depth
    BY <1>12, CommittedKept
  <2>2. bus_2_to_1[BusIdx2[stack[n].out]] = BusIdx1[Candidate(n)]
    BY <1>9, <2>1 DEF BusesBound
  <2>3. stack[n].out \in C2Out
    BY <2>1, LevelFacts DEF Level
  <2>4. BusIdx2[stack[n].out] \in Bus2
    BY <2>3, BusAssumption
  <2>5. \A p \in P : p[1] # BusIdx2[stack[n].out]
    BY <1>8, <2>3
  <2>6. QED
    BY <1>11, <2>1, <2>2, <2>4, <2>5
<1>20. BusesFit'
  <2>1. Top.out \in C2Out /\ C1Output \in C1Out
    BY <1>1, InLoop
  <2>2. BusIdx2[Top.out] \in Bus2 /\ BusIdx1[C1Output] \in Bus1
    BY <2>1, BusAssumption
  <2>3. /\ bus_2_to_1'[BusIdx2[Top.out]] = bus_2_to_1[BusIdx2[Top.out]]
        /\ bus_1_to_2'[BusIdx1[C1Output]] = bus_1_to_2[BusIdx1[C1Output]]
    BY <1>8, <1>11, <2>1, <2>2
  <2>4. \/ Unbound(BusIdx2[Top.out], BusIdx1[C1Output])
        \/ Bound(BusIdx2[Top.out], BusIdx1[C1Output])
    BY <1>1, <1>9 DEF BusesBound
  <2>5. QED
    BY <1>1, <2>3, <2>4 DEF BusesFit, Unbound, Bound
<1>21. BusesBound'
  BY <1>17, <1>18, <1>19, <1>20 DEF BusesBound, BusesFit, BusPairs
<1>22. QED
  BY <1>11, <1>16, <1>21 DEF BusHolding

\* What level n recorded on bus b.
Records(n, b) == {i \in stack[n].locked : inputLock[i].c1 # CONST /\ BusIdx2[i] = b}

\* The recorded locks of the level that commits join those of the levels below.
LEMMA RecordsOf ==
    ASSUME TypeOK, InputHolding, NEW n \in 1..Depth, NEW b, NEW C, n \notin C
    PROVE  LET R(S) == {r \in S \X C2In :
                  r[2] \in stack[r[1]].locked /\ inputLock[r[2]].c1 # CONST /\ BusIdx2[r[2]] = b}
           IN /\ R(C \cup {n}) = R(C) \cup ({n} \X Records(n, b))
              /\ R(C) \cap ({n} \X Records(n, b)) = {}
              /\ IsFiniteSet({n} \X Records(n, b))
              /\ Cardinality({n} \X Records(n, b)) = RecordedOn(b, stack[n].locked)
              /\ RecordedOn(b, stack[n].locked) \in Nat
              /\ PlacedOn(b) = {} => RecordedOn(b, stack[n].locked) = 0
<1> DEFINE R(S) == {r \in S \X C2In :
              r[2] \in stack[r[1]].locked /\ inputLock[r[2]].c1 # CONST /\ BusIdx2[r[2]] = b}
<1>1. stack[n].locked \subseteq C2In /\ Records(n, b) \subseteq C2In
  BY LevelFacts DEF Records
<1>2. IsFiniteSet(Records(n, b)) /\ Cardinality(Records(n, b)) \in Nat
  BY <1>1, PortsAssumption, FS_Subset, FS_CardinalityType
<1>3. Cardinality(Records(n, b)) = RecordedOn(b, stack[n].locked)
  BY DEF Records, RecordedOn
<1>4. IsFiniteSet({n}) /\ Cardinality({n}) = 1
  BY FS_Singleton
<1>5. /\ IsFiniteSet({n} \X Records(n, b))
      /\ Cardinality({n} \X Records(n, b)) = Cardinality({n}) * Cardinality(Records(n, b))
  BY <1>2, <1>4, FS_Product
<1>6. Cardinality({n} \X Records(n, b)) = RecordedOn(b, stack[n].locked)
  BY <1>2, <1>3, <1>4, <1>5
<1>7. ASSUME NEW r
      PROVE  r \in R(C \cup {n}) <=> r \in R(C) \/ r \in {n} \X Records(n, b)
  <2>1. r \in {n} \X Records(n, b) <=>
           /\ r \in {n} \X C2In
           /\ r[2] \in stack[r[1]].locked /\ inputLock[r[2]].c1 # CONST /\ BusIdx2[r[2]] = b
    BY <1>1 DEF Records
  <2>2. r \in (C \cup {n}) \X C2In <=> r \in C \X C2In \/ r \in {n} \X C2In
    OBVIOUS
  <2>3. QED
    BY <2>1, <2>2
<1>8. R(C \cup {n}) = R(C) \cup ({n} \X Records(n, b))
  BY <1>7
<1>9. R(C) \cap ({n} \X Records(n, b)) = {}
  OBVIOUS
<1>10. PlacedOn(b) = {} => RecordedOn(b, stack[n].locked) = 0
  <2>1. PlacedOn(b) = {} => Records(n, b) = {}
    BY RecordedPlaced DEF Records
  <2>2. QED
    BY <1>3, <2>1, FS_EmptySet
<1>11. QED
  BY <1>2, <1>3, <1>5, <1>6, <1>8, <1>9, <1>10

\* The sum of a set and one or no element more.
LEMMA SetAndOne ==
    ASSUME NEW S, IsFiniteSet(S), NEW T, IsFiniteSet(T), S \cap T = {}
    PROVE  /\ IsFiniteSet(S \cup T) /\ Cardinality(S) \in Nat
           /\ Cardinality(S \cup T) = Cardinality(S) + Cardinality(T)
<1>1. Cardinality(S \cap T) = 0 /\ Cardinality(S) \in Nat /\ Cardinality(T) \in Nat
  BY FS_EmptySet, FS_CardinalityType
<1>2. /\ IsFiniteSet(S \cup T)
      /\ Cardinality(S \cup T) = Cardinality(S) + Cardinality(T) - Cardinality(S \cap T)
  BY FS_Union
<1>3. QED
  BY <1>1, <1>2

\* Committing the top level counts its output and the locks it recorded, each on
\* its bus; undoing it counts them off.
LEMMA CommitSets ==
    ASSUME TypeOK, TypeOK', InputHolding, MiterAccepts \/ UndoOutput, NEW b,
           NEW one, one = IF b = BusIdx2[Top.out] THEN 1 ELSE 0,
           NEW rec, rec = RecordedOn(b, Top.locked)
    PROVE  /\ PlacedOn(b)' = PlacedOn(b)
           /\ MiterAccepts =>
                 /\ Cardinality(CommittedOn(b)') = Cardinality(CommittedOn(b)) + one
                 /\ Cardinality(RecordedFor(b)') = Cardinality(RecordedFor(b)) + rec
           /\ UndoOutput =>
                 /\ Cardinality(CommittedOn(b)) = Cardinality(CommittedOn(b)') + one
                 /\ Cardinality(RecordedFor(b)) = Cardinality(RecordedFor(b)') + rec
           /\ Cardinality(CommittedOn(b)') \in Nat /\ Cardinality(RecordedFor(b)') \in Nat
           /\ rec \in Nat
           /\ PlacedOn(b) = {} => rec = 0
<1>1. /\ stack' = stack /\ inputLock' = inputLock /\ Depth > 0 /\ Depth \in Nat
      /\ Depth \in 1..Depth /\ Top = stack[Depth] /\ 1..Depth = (1..(Depth - 1)) \cup {Depth}
      /\ MiterAccepts => CommittedLevels = 1..(Depth - 1) /\ CommittedLevels' = 1..Depth
      /\ UndoOutput => CommittedLevels = 1..Depth /\ CommittedLevels' = 1..(Depth - 1)
  BY SeeCommits DEF Top
<1>2. PlacedOn(b)' = PlacedOn(b)
  <2>1. \A c \in C1In : BoundTo(c)' = BoundTo(c)
    BY PlacementKept
  <2>2. QED
    BY <2>1 DEF PlacedOn, BusPairs
<1> DEFINE R(S) == {r \in S \X C2In :
              r[2] \in stack[r[1]].locked /\ inputLock[r[2]].c1 # CONST /\ BusIdx2[r[2]] = b}
           M(S) == {n \in S : BusIdx2[stack[n].out] = b}
           Own == {Depth} \X Records(Depth, b)
           Out == IF b = BusIdx2[Top.out] THEN {Depth} ELSE {}
           C == 1..(Depth - 1)
<1>3. /\ CommittedOn(b) = M(CommittedLevels) /\ CommittedOn(b)' = M(CommittedLevels')
      /\ RecordedFor(b) = R(CommittedLevels) /\ RecordedFor(b)' = R(CommittedLevels')
  BY <1>1 DEF CommittedOn, RecordedFor
<1>4. Depth \notin C
  BY <1>1
<1>5. /\ R(C \cup {Depth}) = R(C) \cup Own /\ R(C) \cap Own = {}
      /\ IsFiniteSet(Own) /\ Cardinality(Own) = rec /\ rec \in Nat
      /\ PlacedOn(b) = {} => rec = 0
  <2>1. rec = RecordedOn(b, stack[Depth].locked)
    BY <1>1
  <2>2. /\ R(C \cup {Depth}) = R(C) \cup Own /\ R(C) \cap Own = {}
        /\ IsFiniteSet(Own)
        /\ Cardinality(Own) = RecordedOn(b, stack[Depth].locked)
        /\ RecordedOn(b, stack[Depth].locked) \in Nat
        /\ PlacedOn(b) = {} => RecordedOn(b, stack[Depth].locked) = 0
    <3> HIDE DEF C
    <3>1. Depth \in 1..Depth
      BY <1>1
    <3>2. QED
      BY <1>4, <3>1, RecordsOf, ZenonT(30)
  <2>3. QED
    BY <2>1, <2>2
<1>6. M(C \cup {Depth}) = M(C) \cup Out /\ M(C) \cap Out = {}
  BY <1>1, <1>4
<1>7. IsFiniteSet(Out) /\ Cardinality(Out) = one
  BY FS_EmptySet, FS_Singleton
<1>8. IsFiniteSet(R(C)) /\ IsFiniteSet(M(C))
  <2>1. IsFiniteSet(C)
    BY <1>1, FS_Interval
  <2>2. IsFiniteSet(C \X C2In)
    BY <2>1, PortsAssumption, FS_Product
  <2>3. R(C) \subseteq C \X C2In /\ M(C) \subseteq C
    OBVIOUS
  <2> HIDE DEF R, M, C
  <2>4. QED
    BY <2>1, <2>2, <2>3, FS_Subset
<1>9. C \cup {Depth} = 1..Depth
  BY <1>1
<1> HIDE DEF R, M, Own, Out
<1>10. /\ Cardinality(R(1..Depth)) = Cardinality(R(C)) + rec /\ Cardinality(R(C)) \in Nat
       /\ Cardinality(M(1..Depth)) = Cardinality(M(C)) + one /\ Cardinality(M(C)) \in Nat
  <2>1. R(1..Depth) = R(C) \cup Own /\ M(1..Depth) = M(C) \cup Out
    BY <1>5, <1>6, <1>9
  <2>2. Cardinality(R(C) \cup Own) = Cardinality(R(C)) + rec /\ Cardinality(R(C)) \in Nat
    BY <1>5, <1>8, SetAndOne
  <2>3. Cardinality(M(C) \cup Out) = Cardinality(M(C)) + one /\ Cardinality(M(C)) \in Nat
    BY <1>6, <1>7, <1>8, SetAndOne
  <2>4. QED
    BY <2>1, <2>2, <2>3
<1>11. Cardinality(R(1..Depth)) \in Nat /\ Cardinality(M(1..Depth)) \in Nat
  <2>1. one \in Nat
    OBVIOUS
  <2>2. QED
    BY <1>5, <1>10, <2>1
<1>12. QED
  BY <1>1, <1>2, <1>3, <1>5, <1>10, <1>11

\* The buses of the pair that a level works on or is committed to.
LEMMA OutputPairs ==
    ASSUME NEW o2 \in C2Out, NEW o1 \in C1Out
    PROVE  /\ BusIdx2[o2] \in Bus2 /\ BusIdx1[o1] \in Bus1 /\ BusIdx1[o1] # None
           /\ Tied({<<BusIdx2[o2], BusIdx1[o1]>>})
<1>1. BusIdx2[o2] \in Bus2 /\ BusIdx1[o1] \in Bus1 /\ BusIdx1[o1] # None
  BY BusAssumption
<1>2. QED
  BY <1>1 DEF Tied

\* Committing a pair counts it, and the recorded locks once more.
LEMMA BusesAccept ==
    ASSUME TypeOK, TypeOK', InputHolding, BusHolding, [Next]_vars, MiterAccepts
    PROVE  BusHolding'
<1>1. /\ stack' = stack /\ inputLock' = inputLock /\ Depth > 0 /\ Depth \in 1..Depth
      /\ Top = stack[Depth] /\ pc = "match_input" /\ pc' = "match_output"
      /\ CommittedLevels = 1..(Depth - 1) /\ CommittedLevels' = 1..Depth
      /\ 1..Depth = (1..(Depth - 1)) \cup {Depth}
  BY SeeCommits DEF Top
<1>2. /\ Top.out \in C2Out /\ C1Output \in C1Out /\ C1Output = Candidate(Depth)
  BY <1>1, InLoop
<1> PICK b2 \in Bus2 : b2 = BusIdx2[Top.out]
  BY <1>2, OutputPairs
<1> PICK b1 \in Bus1 : b1 = BusIdx1[C1Output]
  BY <1>2, OutputPairs
<1>3. Tied({<<b2, b1>>}) /\ b1 # None
  BY <1>2, OutputPairs
<1>4. LinkBuses({<<b2, b1>>}) /\ bus_2_to_1_count' = CommitCount(Top, 1)
  BY DEF MiterAccepts
<1>5. BusOneToOne /\ BusesCounted /\ BusesBound /\ Typed
  BY DEF BusHolding, TypeOK
<1>6. Unbound(b2, b1) \/ Bound(b2, b1)
  BY <1>1, <1>5 DEF BusesBound
<1>7. /\ BusOneToOne' /\ bus_2_to_1'[b2] = b1
      /\ \A b \in Bus2 : bus_2_to_1[b] # None => bus_2_to_1'[b] = bus_2_to_1[b]
      /\ \A b \in Bus2 : b # b2 => bus_2_to_1'[b] = bus_2_to_1[b]
  <2> DEFINE P == {<<b2, b1>>}
  <2>1. \A p \in P : p[1] = b2 /\ p[2] = b1
    OBVIOUS
  <2>2. P # {}
    OBVIOUS
  <2>3. Tied(P) /\ LinkBuses(P)
    BY <1>3, <1>4
  <2> HIDE DEF P
  <2>4. QED
    BY <1>5, <1>6, <2>1, <2>2, <2>3, BusesLink
<1>8. ASSUME NEW b \in Bus2
      PROVE  /\ bus_2_to_1_count'[b] = Cardinality(PlacedOn(b)') + Cardinality(CommittedOn(b)')
                                         + Cardinality(RecordedFor(b)')
             /\ (bus_2_to_1_count'[b] = 0) <=> (bus_2_to_1'[b] = None)
  <2> DEFINE one == IF b = BusIdx2[Top.out] THEN 1 ELSE 0
             rec == RecordedOn(b, Top.locked)
  <2>1. bus_2_to_1_count'[b] = bus_2_to_1_count[b] + 1 * (rec + one)
    BY <1>4 DEF CommitCount
  <2>2. one \in Nat /\ (b = b2 => one = 1) /\ (b # b2 => one = 0)
    OBVIOUS
  <2>3. /\ PlacedOn(b)' = PlacedOn(b)
        /\ Cardinality(CommittedOn(b)') = Cardinality(CommittedOn(b)) + one
        /\ Cardinality(RecordedFor(b)') = Cardinality(RecordedFor(b)) + rec
        /\ rec \in Nat
        /\ PlacedOn(b) = {} => rec = 0
    BY CommitSets
  <2> HIDE DEF one, rec
  <2>4. bus_2_to_1_count[b] = Cardinality(PlacedOn(b)) + Cardinality(CommittedOn(b))
                                + Cardinality(RecordedFor(b))
    BY <1>5 DEF BusesCounted
  <2>5. /\ Cardinality(PlacedOn(b)) \in Nat /\ Cardinality(CommittedOn(b)) \in Nat
        /\ Cardinality(RecordedFor(b)) \in Nat
        /\ bus_2_to_1_count[b] = 0 => PlacedOn(b) = {}
    BY <2>4, BusNumbers
  <2>6. bus_2_to_1_count'[b] = Cardinality(PlacedOn(b)') + Cardinality(CommittedOn(b)')
                                 + Cardinality(RecordedFor(b)')
    BY <2>1, <2>2, <2>3, <2>4, <2>5
  <2>7. bus_2_to_1_count[b] \in Nat /\ bus_2_to_1_count'[b] = bus_2_to_1_count[b] + rec + one
    BY <2>1, <2>2, <2>3, <2>4, <2>5
  <2>8. (bus_2_to_1_count'[b] = 0) <=> (bus_2_to_1'[b] = None)
    <3>1. CASE b = b2
      BY <1>3, <1>7, <2>2, <2>3, <2>7, <3>1
    <3>2. CASE b # b2
      <4>1. bus_2_to_1'[b] = bus_2_to_1[b]
        BY <1>7, <3>2
      <4>2. (bus_2_to_1_count[b] = 0) <=> (bus_2_to_1[b] = None)
        BY <1>5 DEF BusesBound
      <4>3. (bus_2_to_1_count'[b] = 0) <=> (bus_2_to_1_count[b] = 0)
        BY <2>2, <2>3, <2>5, <2>7, <3>2
      <4>4. QED
        BY <4>1, <4>2, <4>3
    <3>3. QED
      BY <3>1, <3>2
  <2>9. QED
    BY <2>6, <2>8
<1>9. ASSUME NEW c \in C1In, NEW i \in BoundTo(c)', NEW p \in BusPairs(i, c)
      PROVE  bus_2_to_1'[p[1]] = p[2]
  <2>1. i \in BoundTo(c)
    BY <1>9, PlacementKept
  <2>2. bus_2_to_1[p[1]] = p[2]
    BY <1>5, <2>1 DEF BusesBound
  <2>3. p[1] \in Bus2 /\ p[2] \in Bus1
    BY <2>1, BoundCandidate, InputPairs DEF Tied
  <2>4. QED
    BY <1>7, <2>2, <2>3, BusAssumption
<1>10. ASSUME NEW n \in CommittedLevels'
       PROVE  bus_2_to_1'[BusIdx2[stack'[n].out]] = BusIdx1[Candidate(n)']
  <2>1. n \in 1..Depth /\ stack'[n] = stack[n] /\ Candidate(n)' = Candidate(n)
    BY CommittedKept
  <2>2. CASE n = Depth
    BY <1>1, <1>2, <1>7, <2>1, <2>2
  <2>3. CASE n # Depth
    <3>1. n \in CommittedLevels
      BY <1>1, <2>1, <2>3
    <3>2. bus_2_to_1[BusIdx2[stack[n].out]] = BusIdx1[Candidate(n)]
      BY <1>5, <3>1 DEF BusesBound
    <3>3. stack[n].out \in C2Out /\ Candidate(n) \in C1Out
      BY <3>1, CommittedTyped
    <3>4. BusIdx2[stack[n].out] \in Bus2 /\ BusIdx1[Candidate(n)] # None
      BY <3>3, OutputPairs
    <3>5. QED
      BY <1>7, <2>1, <3>2, <3>4
  <2>4. QED
    BY <2>2, <2>3
<1>11. BusesFit'
  BY <1>1 DEF BusesFit
<1>12. BusesBound'
  BY <1>8, <1>9, <1>10, <1>11 DEF BusesBound, BusesFit, BusPairs
<1>13. BusesCounted'
  BY <1>8 DEF BusesCounted
<1>14. QED
  BY <1>7, <1>12, <1>13 DEF BusHolding

\* What counts on a bus is finite, so the counts are numbers.
BusNumbered ==
    \A b \in Bus2 : /\ IsFiniteSet(CommittedOn(b)) /\ Cardinality(CommittedOn(b)) \in Nat
                    /\ Cardinality(PlacedOn(b)) \in Nat /\ Cardinality(RecordedFor(b)) \in Nat

\* They are, as the stack is finite ...
LEMMA BusNumbersAre == TypeOK => BusNumbered
  BY BusNumbers DEF BusNumbered

\* ... and after a step as well.
LEMMA BusNumbersNext == TypeOK' => BusNumbered'
  BY BusNumbersAre, PTL

\* Undoing a pair counts it off, and the recorded locks once less.
LEMMA BusesUndo ==
    ASSUME TypeOK, TypeOK', InputHolding, BusHolding, [Next]_vars, UndoOutput
    PROVE  BusHolding'
<1>1. /\ stack' = stack /\ inputLock' = inputLock /\ Depth > 0 /\ Depth \in 1..Depth
      /\ Top = stack[Depth] /\ Top' = Top /\ C1Output' = C1Output
      /\ pc = "output_back" /\ pc' = "input_back"
      /\ CommittedLevels = 1..Depth /\ CommittedLevels' = 1..(Depth - 1)
      /\ 1..Depth = (1..(Depth - 1)) \cup {Depth}
  BY SeeCommits DEF Top
<1>2. /\ Top.out \in C2Out /\ C1Output \in C1Out /\ C1Output = Candidate(Depth)
  <2>1. stack[Depth].out \in C2Out /\ Candidate(Depth) \in C1Out
    BY <1>1, CommittedTyped
  <2>2. QED
    BY <1>1, <2>1 DEF Candidate, C1Output
<1> PICK b2 \in Bus2 : b2 = BusIdx2[Top.out]
  BY <1>2, OutputPairs
<1> PICK b1 \in Bus1 : b1 = BusIdx1[C1Output]
  BY <1>2, OutputPairs
<1>3. Tied({<<b2, b1>>}) /\ b1 # None
  BY <1>2, OutputPairs
<1> DEFINE count == CommitCount(Top, -1)
<1>4. ReleaseBuses({<<b2, b1>>}, count)
  BY DEF UndoOutput
<1>5. BusOneToOne /\ BusesCounted /\ BusesBound /\ Typed
  BY DEF BusHolding, TypeOK
<1>6. bus_2_to_1[b2] = b1
  BY <1>1, <1>2, <1>5 DEF BusesBound
<1>7. /\ BusOneToOne' /\ bus_2_to_1_count' = count
      /\ IF count[b2] = 0
         THEN bus_2_to_1'[b2] = None /\ bus_1_to_2'[b1] = None
         ELSE bus_2_to_1'[b2] = b1 /\ bus_1_to_2'[b1] = b2
      /\ \A b \in Bus2 : (count[b] # 0 \/ b # b2) => bus_2_to_1'[b] = bus_2_to_1[b]
  <2> DEFINE P == {<<b2, b1>>}
  <2>1. \A p \in P : p[1] = b2 /\ p[2] = b1
    OBVIOUS
  <2>2. P # {}
    OBVIOUS
  <2>3. Tied(P) /\ ReleaseBuses(P, count)
    BY <1>3, <1>4
  <2> HIDE DEF P, count
  <2>4. QED
    BY <1>5, <1>6, <2>1, <2>2, <2>3, BusesRelease
<1>8. ASSUME NEW b \in Bus2
      PROVE  /\ bus_2_to_1_count'[b] = Cardinality(PlacedOn(b)') + Cardinality(CommittedOn(b)')
                                         + Cardinality(RecordedFor(b)')
             /\ PlacedOn(b)' = PlacedOn(b)
             /\ (bus_2_to_1_count'[b] = 0) <=> (bus_2_to_1'[b] = None)
  <2> DEFINE one == IF b = BusIdx2[Top.out] THEN 1 ELSE 0
             rec == RecordedOn(b, Top.locked)
  <2>1. bus_2_to_1_count'[b] = bus_2_to_1_count[b] + (-1) * (rec + one)
    BY <1>7 DEF CommitCount
  <2>2. one \in Nat /\ (b = b2 => one = 1) /\ (b # b2 => one = 0)
    OBVIOUS
  <2>3. /\ PlacedOn(b)' = PlacedOn(b)
        /\ Cardinality(CommittedOn(b)) = Cardinality(CommittedOn(b)') + one
        /\ Cardinality(RecordedFor(b)) = Cardinality(RecordedFor(b)') + rec
        /\ Cardinality(CommittedOn(b)') \in Nat /\ Cardinality(RecordedFor(b)') \in Nat
        /\ rec \in Nat
        /\ PlacedOn(b) = {} => rec = 0
    BY CommitSets
  <2> HIDE DEF one, rec
  <2>4. bus_2_to_1_count[b] = Cardinality(PlacedOn(b)) + Cardinality(CommittedOn(b))
                                + Cardinality(RecordedFor(b))
    BY <1>5 DEF BusesCounted
  <2>5. /\ Cardinality(PlacedOn(b)) \in Nat
        /\ Cardinality(PlacedOn(b)) = 0 => PlacedOn(b) = {}
    BY BusNumbers, FS_EmptySet
  <2>6. bus_2_to_1_count'[b] = Cardinality(PlacedOn(b)') + Cardinality(CommittedOn(b)')
                                 + Cardinality(RecordedFor(b)')
    BY <2>1, <2>2, <2>3, <2>4, <2>5
  <2>7. (bus_2_to_1_count'[b] = 0) <=> (bus_2_to_1'[b] = None)
    <3>1. CASE b = b2
      BY <1>3, <1>7, <3>1
    <3>2. CASE b # b2
      <4>1. bus_2_to_1'[b] = bus_2_to_1[b]
        BY <1>7, <3>2
      <4>2. (bus_2_to_1_count[b] = 0) <=> (bus_2_to_1[b] = None)
        BY <1>5 DEF BusesBound
      <4>3. (bus_2_to_1_count'[b] = 0) => rec = 0
        BY <2>3, <2>5, <2>6
      <4>4. bus_2_to_1_count[b] = 0 => rec = 0
        BY <2>2, <2>3, <2>4, <2>5, <3>2
      <4>5. (bus_2_to_1_count'[b] = 0) <=> (bus_2_to_1_count[b] = 0)
        BY <2>2, <2>3, <2>4, <2>5, <2>6, <3>2, <4>3, <4>4
      <4>6. QED
        BY <4>1, <4>2, <4>5
    <3>3. QED
      BY <3>1, <3>2
  <2>8. QED
    BY <2>3, <2>6, <2>7
<1> HIDE DEF count
<1>9. ASSUME NEW b \in Bus2, bus_2_to_1_count'[b] # 0
      PROVE  bus_2_to_1'[b] = bus_2_to_1[b]
  BY <1>7, <1>9
<1>10. ASSUME NEW c \in C1In, NEW i \in BoundTo(c)', NEW p \in BusPairs(i, c)
       PROVE  bus_2_to_1'[p[1]] = p[2]
  <2>1. i \in BoundTo(c)
    BY <1>10, PlacementKept
  <2>2. bus_2_to_1[p[1]] = p[2] /\ i \in C2In
    BY <1>5, <2>1, BoundCandidate DEF BusesBound
  <2>3. p[1] \in Bus2 /\ p[2] \in Bus1 /\ p[2] # None
    BY <2>1, BoundCandidate, InputPairs, BusAssumption DEF Tied
  <2> PICK b \in Bus2 : b = p[1]
    BY <2>3
  <2>4. i \in PlacedOn(b)
    BY <2>1, <2>2 DEF PlacedOn
  <2>5. bus_2_to_1[b] # None /\ b # b2
    BY <1>2, <2>1, <2>2, <2>3, BoundCandidate, InputPairs
  <2>6. QED
    BY <1>7, <2>2, <2>5
<1>11. ASSUME NEW n \in CommittedLevels'
       PROVE  bus_2_to_1'[BusIdx2[stack'[n].out]] = BusIdx1[Candidate(n)']
  <2>1. n \in 1..Depth /\ stack'[n] = stack[n] /\ Candidate(n)' = Candidate(n)
    BY CommittedKept
  <2>2. n \in CommittedLevels
    BY <1>1, <2>1
  <2>3. bus_2_to_1[BusIdx2[stack[n].out]] = BusIdx1[Candidate(n)]
    BY <1>5, <2>2 DEF BusesBound
  <2>4. stack[n].out \in C2Out /\ Candidate(n) \in C1Out
    BY <2>2, CommittedTyped
  <2> PICK b \in Bus2 : b = BusIdx2[stack[n].out]
    BY <2>4, OutputPairs
  <2>5. n \in CommittedOn(b)'
    BY <2>1 DEF CommittedOn
  <2>6. bus_2_to_1_count'[b] # 0
    <3>1. /\ IsFiniteSet(CommittedOn(b)') /\ Cardinality(CommittedOn(b)') \in Nat
          /\ Cardinality(PlacedOn(b)') \in Nat /\ Cardinality(RecordedFor(b)') \in Nat
      BY BusNumbersNext DEF BusNumbered
    <3>2. Cardinality(CommittedOn(b)') # 0
      BY <2>5, <3>1, FS_EmptySet
    <3>3. QED
      BY <1>8, <3>1, <3>2
  <2>7. QED
    BY <1>9, <2>1, <2>3, <2>6
<1>12. BusesFit'
  <2>1. CASE count[b2] = 0
    BY <1>1, <1>7, <2>1 DEF BusesFit, Unbound
  <2>2. CASE count[b2] # 0
    BY <1>1, <1>7, <2>2 DEF BusesFit, Bound
  <2>3. QED
    BY <2>1, <2>2
<1>13. BusesBound'
  BY <1>8, <1>10, <1>11, <1>12 DEF BusesBound, BusesFit, BusPairs
<1>14. BusesCounted'
  BY <1>8 DEF BusesCounted
<1>15. QED
  BY <1>7, <1>13, <1>14 DEF BusHolding
\* Nothing is bound and nothing counts before the search.
LEMMA BusesInit == Init => BusHolding
<1> SUFFICES ASSUME Init PROVE BusHolding
  OBVIOUS
<1>1. 1..Depth = {} /\ CommittedLevels = {} /\ pc = "match_output"
  BY DEF Init, Depth, CommittedLevels
<1>2. \A c : BoundTo(c) = {}
  BY <1>1, BoundToIs
<1>3. /\ \A b \in Bus2 : bus_2_to_1[b] = None /\ bus_2_to_1_count[b] = 0
      /\ \A b \in Bus1 : bus_1_to_2[b] = None
  BY DEF Init
<1>4. ASSUME NEW b PROVE PlacedOn(b) = {} /\ CommittedOn(b) = {} /\ RecordedFor(b) = {}
  BY <1>1, <1>2 DEF PlacedOn, CommittedOn, RecordedFor
<1>5. BusesCounted
  BY <1>3, <1>4, FS_EmptySet DEF BusesCounted
<1>6. BusesBound
  BY <1>1, <1>2, <1>3 DEF BusesBound
<1>7. QED
  BY <1>3, <1>5, <1>6 DEF BusHolding, BusOneToOne

\* Every step keeps the bus maps, when no input is exempt from the bus test.
LEMMA BusesStep ==
    ASSUME Unpaired = {}
    PROVE  TypeOK /\ InputHolding /\ BusHolding /\ [Next]_vars => BusHolding'
<1> SUFFICES ASSUME TypeOK, InputHolding, BusHolding, [Next]_vars PROVE BusHolding'
  OBVIOUS
<1>1. TypeOK'
  BY TypeStep
<1>2. CASE Placeless \/ MatchOutput \/ UNCHANGED vars
  BY <1>1, <1>2, BusesQuiet
<1>3. CASE BindInput
  BY <1>1, <1>3, BusesBind
<1>4. CASE UnbindInput
  BY <1>1, <1>4, BusesUnbind
<1>5. CASE MiterAccepts
  BY <1>1, <1>5, BusesAccept
<1>6. CASE UndoOutput
  BY <1>1, <1>6, BusesUndo
<1>7. QED
  BY <1>2, <1>3, <1>4, <1>5, <1>6 DEF Next, Done, MatchInput, Placeless

\* Whatever match_input and match_output bind and release, in whatever order, the
\* bus maps stay inverse to each other and every bus is counted by the inputs
\* placed on it and the outputs and locks committed to it.  The condition leaves
\* out case 08, where an input named n84 is placed without the test of the buses.
THEOREM BusesInvariant == ASSUME Unpaired = {} PROVE Spec => []BusHolding
<1>1. Init => BusHolding
  BY BusesInit
<1>2. TypeOK /\ InputHolding /\ BusHolding /\ [Next]_vars => BusHolding'
  BY BusesStep
<1>3. QED
  BY <1>1, <1>2, TypeCorrect, InputsInvariant, PTL DEF Spec

\* "cannot deal with bus one-to-many, or many-to-one" (new_boolean_match): the
\* search never gets there.
THEOREM BusesOneToOne == ASSUME Unpaired = {} PROVE Spec => []BusOneToOne
<1>1. BusHolding => BusOneToOne
  BY DEF BusHolding
<1>2. QED
  BY <1>1, BusesInvariant, PTL

\* What is locked was placed, and what was placed is on bound buses.
LEMMA HoldingBuses == TypeOK /\ InputHolding /\ BusHolding => BusesHeld
<1> SUFFICES ASSUME TypeOK, InputHolding, BusHolding PROVE BusesHeld
  OBVIOUS
<1>1. ASSUME NEW b \in Bus2
      PROVE  /\ bus_2_to_1_count[b] >= 0
             /\ (bus_2_to_1_count[b] = 0) = (bus_2_to_1[b] = None)
  <2>1. bus_2_to_1_count[b] = Cardinality(PlacedOn(b)) + Cardinality(CommittedOn(b))
                                + Cardinality(RecordedFor(b))
    BY DEF BusHolding, BusesCounted
  <2>2. QED
    BY <2>1, BusNumbers DEF BusHolding, BusesBound
<1>2. ASSUME NEW i \in C2In, inputLock[i].c1 \in C1In, NEW p \in BusPairs(i, inputLock[i].c1)
      PROVE  bus_2_to_1[p[1]] = p[2]
  BY <1>2, LockedBound DEF BusHolding, BusesBound
<1>3. QED
  BY <1>1, <1>2 DEF BusesHeld

\* A bus is bound exactly while something counts on it, and a locked input lies
\* on buses bound to those of its partner.
THEOREM BusesInUse == ASSUME Unpaired = {} PROVE Spec => []BusesHeld
<1>1. TypeOK /\ InputHolding /\ BusHolding => BusesHeld
  BY HoldingBuses
<1>2. QED
  BY <1>1, TypeCorrect, InputsInvariant, BusesInvariant, PTL

\* With no level on the stack there is nothing left to count.
LEMMA HoldingUnwound ==
    TypeOK /\ OutputPairing /\ InputHolding /\ MatchesCounted /\ BusHolding => CleanUnwind
<1> SUFFICES ASSUME TypeOK, OutputPairing, InputHolding, MatchesCounted, BusHolding,
                    pc = "done", ~findOutputBest
             PROVE  /\ inputLock = [i \in C2In |-> NoLock]
                    /\ inputLockCount = [i \in C2In |-> 0]
                    /\ outputLock = [o \in C2Out |-> NoLock]
                    /\ c1_OutputLockCount = [o \in C1Out |-> 0]
                    /\ c1_inputMatchCount = [c \in C1In |-> 0]
                    /\ bus_2_to_1 = [b \in Bus2 |-> None]
                    /\ bus_1_to_2 = [b \in Bus1 |-> None]
                    /\ bus_2_to_1_count = [b \in Bus2 |-> 0]
  BY DEF CleanUnwind
<1>1. 1..Depth = {} /\ CommittedLevels = {}
  BY DEF TypeOK, StackShape, CommittedLevels
<1>2. Typed
  BY DEF TypeOK
<1>3. inputLock = [i \in C2In |-> NoLock] /\ inputLockCount = [i \in C2In |-> 0]
  <2>1. \A i \in C2In : LockedBy(i) = {}
    BY <1>1 DEF LockedBy
  <2>2. \A i \in C2In : inputLockCount[i] = 0 /\ inputLock[i] = NoLock
    BY <1>1, <2>1, FS_EmptySet DEF InputHolding, LocksTaken
  <2>3. QED
    BY <1>2, <2>2 DEF Typed
<1>4. outputLock = [o \in C2Out |-> NoLock] /\ c1_OutputLockCount = [o \in C1Out |-> 0]
  <2>1. /\ \A o \in C2Out : outputLock[o] = NoLock
        /\ \A c \in C1Out : c1_OutputLockCount[c] = 0
    BY <1>1 DEF OutputPairing, PairsHeld
  <2>2. QED
    BY <1>2, <2>1 DEF Typed
<1>5. \A c : BoundTo(c) = {}
  BY <1>1, BoundToIs
<1>6. c1_inputMatchCount = [c \in C1In |-> 0]
  <2>1. \A c \in C1In : c1_inputMatchCount[c] = 0
    BY <1>5, FS_EmptySet DEF MatchesCounted
  <2>2. QED
    BY <1>2, <2>1 DEF Typed
<1>7. \A b \in Bus2 : bus_2_to_1_count[b] = 0
  <2>1. ASSUME NEW b PROVE PlacedOn(b) = {} /\ CommittedOn(b) = {} /\ RecordedFor(b) = {}
    BY <1>1, <1>5 DEF PlacedOn, CommittedOn, RecordedFor
  <2>2. QED
    BY <2>1, FS_EmptySet DEF BusHolding, BusesCounted
<1>8. \A b \in Bus2 : bus_2_to_1[b] = None
  BY <1>7 DEF BusHolding, BusesBound
<1>9. \A b \in Bus1 : bus_1_to_2[b] = None
  BY <1>2, <1>8, BusAssumption DEF BusHolding, BusOneToOne, Typed
<1>10. /\ bus_2_to_1 = [b \in Bus2 |-> None] /\ bus_1_to_2 = [b \in Bus1 |-> None]
       /\ bus_2_to_1_count = [b \in Bus2 |-> 0]
  BY <1>2, <1>7, <1>8, <1>9 DEF Typed
<1>11. QED
  BY <1>3, <1>4, <1>6, <1>10

\* A search that returns false to new_boolean_match has taken back every lock,
\* every count and every bus, whichever of its loops failed.
THEOREM SearchUnwound == ASSUME Unpaired = {} PROVE Spec => []CleanUnwind
<1>1. TypeOK /\ OutputPairing /\ InputHolding /\ MatchesCounted /\ BusHolding => CleanUnwind
  BY HoldingUnwound
<1>2. QED
  BY <1>1, TypeCorrect, PairingInvariant, InputsInvariant, MatchesInvariant, BusesInvariant, PTL
================================================================================
