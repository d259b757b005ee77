------------------------------ MODULE VerifyResult -----------------------------
(***************************************************************************)
(* verifyResult, which main calls when the search has returned: it counts  *)
(* the locks every circuit-2 input should have, then gives every matched   *)
(* pair of the answer to the miter again, under the answer's inputs.       *)
(***************************************************************************)
EXTENDS MatchSearchProperties

CONSTANT PiIdx      \* Node::_pi_idx: the inputs below every circuit-2 output

\* An output depends on no input that is not below it.
ASSUME PiIdxAssumption ==
    /\ PiIdx \in [C2Out -> SUBSET C2In]
    /\ \A o \in C2Out : Range(Supp2[o]) \subseteq PiIdx[o]

VARIABLES
    wrongCount,     \* the inputs reported with "lock count wrong!!"
    toVerify,       \* the matched outputs still to check
    eq, point,
    at              \* "search", "outputs", "reported", "crashed"

verifyVars == <<wrongCount, toVerify, eq, point, at>>

VInit ==
    /\ Init
    /\ wrongCount = {}
    /\ toVerify = {}
    /\ eq = TRUE
    /\ point = 0
    /\ at = "search"

Search == (MatchOutput \/ MatchInput) /\ UNCHANGED verifyVars

\* The "ground true" count of an input: the outputs it is below.
TrueCount(i) == Cardinality({o \in C2Out : i \in PiIdx[o]})

VerifyLocks ==
    /\ pc = "done"
    /\ at = "search"
    /\ wrongCount' = {i \in C2In : TrueCount(i) # inputLockCount[i]}
    /\ toVerify' = {o \in C2Out : maxOutputMatch[o].c1 # None}
    /\ at' = "outputs"
    /\ UNCHANGED <<vars, eq, point>>

\* An input below o without a match goes to the miter as index -1 of input1.
Undriven(o) == \E i \in PiIdx[o] : maxInputMatch[i].c1 = None

\* The miter drives every input below the output, in its support or not; what
\* it computes from an element before the first is undefined.
Results(o) ==
    LET below == {maxInputMatch[i].c1 : i \in PiIdx[o]} \ {CONST}
        type(patterns) == MiterType(maxOutputMatch[o].c1, o, maxInputMatch, patterns)
    IN IF Undriven(o) THEN 0..2
       ELSE IF Cardinality(below) < ExhaustiveLimit THEN {type(SUBSET below)}
       ELSE {type(some) : some \in (SUBSET SUBSET below) \ {{}}}

\* (variant) a complementary pair never counts as equal
one_output_eq_Positive(o, result) == result = 1
one_output_eq(o, result) ==
    \/ result = 1 /\ maxOutputMatch[o].neg = 0
    \/ result = 2 /\ maxOutputMatch[o].neg = 1

\* The order of the outputs is that of their index; the outcome does not depend on it.
VerifyOutput ==
    /\ at = "outputs"
    /\ \E o \in toVerify : \E result \in Results(o) :
          /\ toVerify' = toVerify \ {o}
          /\ point' = point + IF one_output_eq(o, result) THEN 2 ELSE 0
          /\ eq' = (eq /\ one_output_eq(o, result))
    /\ UNCHANGED <<vars, wrongCount, at>>

VerifyCrash ==
    /\ at = "outputs"
    /\ \E o \in toVerify : Undriven(o)
    /\ at' = "crashed"
    /\ UNCHANGED <<vars, wrongCount, toVerify, eq, point>>

Report ==
    /\ at = "outputs"
    /\ toVerify = {}
    /\ at' = "reported"
    /\ UNCHANGED <<vars, wrongCount, toVerify, eq, point>>

Verified == at \in {"reported", "crashed"} /\ UNCHANGED <<vars, verifyVars>>

Verify == VerifyLocks \/ VerifyOutput \/ VerifyCrash \/ Report
VNext == Search \/ Verify \/ Verified
VSpec == VInit /\ [][VNext]_<<vars, verifyVars>> /\ WF_<<vars, verifyVars>>(VNext)

--------------------------------------------------------------------------------
(* Properties *)

\* Where no input is preset, the check from scratch agrees with what the search
\* decided step by step: it ends, says "eq" and scores every matched output.
AnswerConfirmed ==
    <>(at = "reported" /\ eq /\ point = 2 * Cardinality(Answer!Matched(maxOutputMatch)))

\* After a full match every input is locked once for each output it is below.
FullMatchCounts == at = "reported" /\ findOutputBest => wrongCount = {}

\* Whatever the presets left undriven, the verdict on an answer whose inputs are
\* all matched is right: "eq" exactly if every pair is equivalent.
VerdictRight ==
    at = "reported" /\ (\A o \in C2Out : maxOutputMatch[o].c1 # None => ~Undriven(o)) =>
        (eq <=> AnswerEquivalent)
================================================================================
