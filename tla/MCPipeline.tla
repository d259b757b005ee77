------------------------------- MODULE MCPipeline ------------------------------
(* The pairs of circuits of MCSearchWiden from the search to the answer file. *)
EXTENDS Pipeline, MCSearchWiden, MatchInvariants

McPiIdx == [o \in McC2Out |-> Range(McSupp2[o])]
McIns1 == <<"a", "b">>
McIns2 == <<"x", "y", "z">>
McOuts1 == <<"f", "g", "h">>
McOuts2 == <<"p", "q">>

\* The hypotheses under which the answer is proved right hold of this instance.
ASSUME AnswerConditions ==
    /\ NoPresets /\ Exhaustive /\ SupportsExact
    /\ \A o \in C2Out : PiIdx[o] = Range(Supp2[o])
================================================================================
