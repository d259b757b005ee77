----------------------------- MODULE MCVerifyPreset ----------------------------
(* The search of MCSearchPreset, which may leave an input undriven, and the    *)
(* verification of what it found.                                              *)
EXTENDS VerifyResult, MCSearchPreset, MatchInvariants

McPiIdx == [o \in McC2Out |-> McC2In]

\* Presets apart, the verdict is proved right under what holds here.
ASSUME VerdictConditions == Exhaustive /\ SupportsExact
================================================================================
