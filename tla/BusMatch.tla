-------------------------------- MODULE BusMatch -------------------------------
(***************************************************************************)
(* match_bus: which sizes of circuit-1 buses a circuit-2 bus of some size  *)
(* may be matched to.  recur_match_bus assigns a circuit-1 bus to every    *)
(* circuit-2 bus, from the largest on, while the surplus bits fit in the   *)
(* quota; after a complete assignment it starts a branch only with a pair  *)
(* of sizes that is new.  Its recursion is the variable chosen: the loop   *)
(* index of every activation.                                              *)
(***************************************************************************)
EXTENDS Integers, Sequences, FiniteSets, SequencesExt

CONSTANTS
    Circuits,   \* [bus1, bus2, inputs1, inputs2, shared1, shared2]
    Modulus     \* 2^64: size_t wraps

\* match_bus supposes that the circuits have as many buses, and is called when
\* the numbers of inputs differ; circuit 2 is taken for the larger.
ASSUME CircuitsAssumption ==
    /\ Modulus \in Nat \ {0}
    /\ \A c \in Circuits :
          /\ c.bus1 \in Seq(Nat) /\ c.bus2 \in Seq(Nat) /\ Len(c.bus1) = Len(c.bus2)
          /\ {c.inputs1, c.inputs2, c.shared1, c.shared2} \subseteq Nat
          /\ c.inputs1 < c.inputs2

VARIABLES
    circuits,       \* sizes of the buses of more than one bit, numbers of inputs,
                    \* and how often an input is on one more bus; never changes
    chosen,
    quota,
    new_match,
    bus_match_idx,  \* pairs <<size in circuit 2, size in circuit 1>>
    pc              \* "loop" or "done"

vars == <<circuits, chosen, quota, new_match, bus_match_idx, pc>>

\* Bus sizes in the order of bus_idx_1 and bus_idx_2: the largest first.
Descending(s) == \A a, b \in DOMAIN s : a < b => s[a] >= s[b]
Sorted(sizes) ==
    LET idx == CHOOSE f \in Bijection(DOMAIN sizes, DOMAIN sizes) :
                  Descending([a \in DOMAIN sizes |-> sizes[f[a]]])
    IN [a \in DOMAIN sizes |-> sizes[idx[a]]]
c1_size == Sorted(circuits.bus1)
c2_size == Sorted(circuits.bus2)
bus_size == Len(circuits.bus1)

\* Bits of circuit 2 that circuit 1 lacks, an input counting once per bus.
StartQuota(c) == (c.inputs2 - c.inputs1) + (c.shared2 - c.shared1)

Init ==
    /\ circuits \in Circuits
    /\ chosen = <<1>>
    /\ quota = StartQuota(circuits)
    /\ new_match = TRUE
    /\ bus_match_idx = {}
    /\ pc = "loop"

depth == Len(chosen)
i == chosen[depth]

\* size_t arithmetic; the int quota is converted.
surplus(d, j) == (c2_size[d] - c1_size[j]) % Modulus
Occupied == \E d \in 1..(depth - 1) : chosen[d] = i

\* (variant) the surplus of a bus may exceed what is left by one
Fits_OneMore == surplus(depth, i) <= (quota + 1) % Modulus
\* (variant) something must be left
Fits_Strictly == surplus(depth, i) < quota % Modulus
Fits == surplus(depth, i) <= quota % Modulus

Pair(d, j) == <<c2_size[d], c1_size[j]>>

\* A branch is started until an assignment is complete, then on a new pair.
IsOpen == new_match \/ Pair(depth, i) \notin bus_match_idx

Eligible == i <= bus_size /\ ~Occupied /\ Fits /\ IsOpen

AdvancedTo(s, d) == [SubSeq(s, 1, d) EXCEPT ![d] = @ + 1]

\* The bus is taken and the next depth entered.
Descend ==
    /\ pc = "loop"
    /\ Eligible
    /\ depth < bus_size
    /\ quota' = quota - surplus(depth, i)
    /\ chosen' = Append(chosen, 1)
    /\ new_match' = TRUE
    /\ UNCHANGED <<circuits, bus_match_idx, pc>>

\* The last bus is taken: the pairs are recorded, and the call returns.
Complete ==
    /\ pc = "loop"
    /\ Eligible
    /\ depth = bus_size
    /\ bus_match_idx' = bus_match_idx \cup {Pair(d, chosen[d]) : d \in 1..depth}
    /\ new_match' = FALSE
    /\ chosen' = AdvancedTo(chosen, depth)
    /\ UNCHANGED <<circuits, quota, pc>>

Skip ==
    /\ pc = "loop"
    /\ i <= bus_size
    /\ ~Eligible
    /\ chosen' = AdvancedTo(chosen, depth)
    /\ UNCHANGED <<circuits, quota, new_match, bus_match_idx, pc>>

GivenBack == surplus(depth - 1, chosen[depth - 1])

\* The loop ends: back in the caller, which gives its bus back.
Return ==
    /\ pc = "loop"
    /\ i > bus_size
    /\ IF depth = 1
       THEN pc' = "done" /\ UNCHANGED <<chosen, quota>>
       ELSE /\ quota' = quota + GivenBack
            /\ chosen' = AdvancedTo(chosen, depth - 1)
            /\ pc' = pc
    /\ UNCHANGED <<circuits, new_match, bus_match_idx>>

Done == pc = "done" /\ UNCHANGED vars

Next == Descend \/ Complete \/ Skip \/ Return \/ Done
Spec == Init /\ [][Next]_vars /\ WF_vars(Next)

--------------------------------------------------------------------------------
(* Properties *)

\* size_t holds what a bus of circuit 1 has too many and the quota besides, and the
\* quota is one: not negative.
NoWrap ==
    \A c \in Circuits :
        /\ StartQuota(c) \in 0..(Modulus - 1)
        /\ \A d \in DOMAIN c.bus1 : c.bus1[d] + StartQuota(c) < Modulus
        /\ \A d \in DOMAIN c.bus2 : c.bus2[d] < Modulus

Buses == 1..bus_size
Surplus(f, d) == c2_size[d] - c1_size[f[d]]
\* The surplus bits of the n largest buses of circuit 2.
Spent(f, n) ==
    LET spent[d \in 0..n] == IF d = 0 THEN 0 ELSE spent[d - 1] + Surplus(f, d)
    IN spent[n]
Fitting(f) == /\ \A d \in Buses : Surplus(f, d) >= 0
              /\ Spent(f, bus_size) <= StartQuota(circuits)
Assignments == {f \in Bijection(Buses, Buses) : Fitting(f)}
PairsOf(f) == {Pair(d, f[d]) : d \in Buses}

\* Only sizes that some complete assignment within the quota pairs are recorded.
OnlyFeasible == bus_match_idx \subseteq UNION {PairsOf(f) : f \in Assignments}

\* If there is such an assignment, one is recorded as a whole, so every bus of
\* circuit 2 keeps a partner whatever is pruned.
OneRecorded ==
    pc = "done" /\ Assignments # {} => \E f \in Assignments : PairsOf(f) \subseteq bus_match_idx
================================================================================
