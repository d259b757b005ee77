------------------------------ MODULE MatchAnswer ------------------------------
(***************************************************************************)
(* What the search promises of the answer it keeps for the output file:    *)
(* it starts with no output matched, every later version matches one more  *)
(* output than the version before, every pair in it computes the same      *)
(* function under the input matching of that version, and the search ends. *)
(***************************************************************************)
EXTENDS Integers, FiniteSets

CONSTANTS C1In, C2In, C1Out, C2Out, Netlists, None, CONST

VARIABLES mod,          \* the two circuits
          depth,        \* number of matched outputs, -1 before the first answer
          outMatch,     \* circuit-2 output -> circuit-1 output and polarity
          inMatch,      \* circuit-2 input -> circuit-1 input or constant, polarity
          finished

vars == <<mod, depth, outMatch, inMatch, finished>>

\* Circuit-2 inputs that carry 1 when exactly the circuit-1 inputs in a do.
Carry(match, a) ==
    {i \in C2In : CASE match[i].c1 = None -> FALSE
                    [] match[i].c1 = CONST -> match[i].neg = 1
                    [] OTHER -> (match[i].c1 \in a) # (match[i].neg = 1)}

Matched(match) == {o \in C2Out : match[o].c1 # None}

\* A matched pair is equal, or complementary if its polarity says so.
PairsEquivalent(out, in) ==
    \A o \in Matched(out) : \A a \in SUBSET C1In :
        (Carry(in, a) \in mod.c2[o]) = ((a \in mod.c1[out[o].c1]) # (out[o].neg = 1))

\* No circuit-1 output is used twice.
PairsOneToOne(out) ==
    \A o, p \in Matched(out) : out[o].c1 = out[p].c1 => o = p

Init ==
    /\ mod \in Netlists
    /\ depth = -1
    /\ Matched(outMatch) = {}
    /\ finished = FALSE

Improve ==
    /\ ~finished
    /\ depth' = depth + 1
    /\ Cardinality(Matched(outMatch')) = depth'
    /\ PairsOneToOne(outMatch')
    /\ PairsEquivalent(outMatch', inMatch')
    /\ UNCHANGED mod

\* The last improvement and the end of the search may be one step.
Finish ==
    /\ ~finished
    /\ finished' = TRUE
    /\ Improve \/ UNCHANGED <<mod, depth, outMatch, inMatch>>

Next == Finish \/ (Improve /\ finished' = finished)

Spec == Init /\ [][Next]_vars /\ <>finished
================================================================================
