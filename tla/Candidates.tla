------------------------------- MODULE Candidates ------------------------------
(***************************************************************************)
(* From the ports to what the search works on: setBus numbers the buses,   *)
(* readFunctionSupport reads the supports from two files, then             *)
(* new_boolean_match assigns support sizes, filters and sorts the          *)
(* candidates of every output and input (genOutputMatch, genInputMatch)    *)
(* and sorts the supports (genInfo).  Circuits are numbered 1 and 2.       *)
(***************************************************************************)
EXTENDS Integers, Sequences, FiniteSets, SequencesExt, TLC

CONSTANTS
    Cases,      \* what is known before: see CasesAssumption
    NULL, CONST

\* in, out: the ports of each circuit in order; bus: the buses of the case file;
\* out_supp, in_supp: output_support.txt and input_support.txt, a line of indices
\* for every output and every input; sig: input_sig;
\* bit: _bit_idx, -1 unless an arithmetic structure was recognised;
\* bus_match_idx, bus_size: of match_bus; init_in, init_out, priority: presets;
\* match: a match of the two circuits, for the properties.
ASSUME CasesAssumption ==
    \A c \in Cases :
        /\ DOMAIN c = {"in", "out", "bus", "out_supp", "in_supp", "sig", "bit", "bus_match_idx", "bus_size",
                       "init_in", "init_out", "priority", "match"}
        /\ \A n \in 1..2 : \A b \in DOMAIN c.bus[n] :
              Len(c.bus[n][b]) > 0 /\ ToSet(c.bus[n][b]) \subseteq ToSet(c.in[n] \o c.out[n])
        /\ \A n \in 1..2 :
              /\ Len(c.out_supp[n]) = Len(c.out[n]) /\ Len(c.in_supp[n]) = Len(c.in[n])
              /\ \A k \in DOMAIN c.out_supp[n] : ToSet(c.out_supp[n][k]) \subseteq 0..(Len(c.in[n]) - 1)
              /\ \A k \in DOMAIN c.in_supp[n] : ToSet(c.in_supp[n][k]) \subseteq 0..(Len(c.out[n]) - 1)

VARIABLES
    case,               \* never changes
    bus_set,            \* Module::_bus_set of each circuit
    bus_indices,        \* Node::_bus_indices of every port, shortest bus first
    bus_idx,            \* Node::_bus_idx
    output_support,     \* the inputs of every output of both circuits
    input_support,      \* the outputs of every input
    supportVal,
    isPIinPO,
    output_match_cand, output_match_order,
    input_match_cand,
    output_to_inputBus,
    pc                  \* the next function

busVars == <<bus_set, bus_indices, bus_idx>>
candVars == <<output_match_cand, output_match_order, input_match_cand>>
vars == <<case, busVars, output_support, input_support, supportVal, isPIinPO,
          candVars, output_to_inputBus, pc>>

Ports(n) == case.in[n] \o case.out[n]
PortSet == ToSet(Ports(1)) \cup ToSet(Ports(2))
Ins == ToSet(case.in[1]) \cup ToSet(case.in[2])
Outs == ToSet(case.out[1]) \cup ToSet(case.out[2])
AllPorts(c) == ToSet(c.in[1] \o c.out[1] \o c.in[2] \o c.out[2])
CircuitOf(p) == IF p \in ToSet(Ports(1)) THEN 1 ELSE 2

Init ==
    /\ case \in Cases
    /\ bus_set = << <<>>, <<>> >>
    /\ bus_indices = [p \in AllPorts(case) |-> <<>>]
    /\ bus_idx = [p \in AllPorts(case) |-> -1]
    /\ supportVal = [p \in AllPorts(case) |-> 0]
    /\ output_match_cand = [o \in ToSet(case.out[2]) |-> <<>>]
    /\ output_match_order = <<>>
    /\ input_match_cand = [i \in ToSet(case.in[2]) |-> <<>>]
    /\ output_support = [o \in Outs |-> <<>>]
    /\ input_support = [i \in Ins |-> <<>>]
    /\ isPIinPO = [f \in ToSet(case.out[1]) |-> {}]
    /\ output_to_inputBus = [o \in ToSet(case.out[2]) |-> {}]
    /\ pc = "setBus"

\* std::stable_sort by the keys Key.
StableSort(s, Key(_)) ==
    LET order == SortSeq([k \in DOMAIN s |-> k],
                         LAMBDA j, k : Key(s[j]) < Key(s[k]) \/ (Key(s[j]) = Key(s[k]) /\ j < k))
    IN [k \in DOMAIN s |-> s[order[k]]]

Abs(x) == IF x < 0 THEN -x ELSE x

\* abs of a difference of sizes: it is unsigned and abs returns a double, so
\* every negative one comes out as 2^64; any number above all sizes stands for it.
Wrapped == 2^30
SizeDistance(m, n) == IF m >= n THEN m - n ELSE Wrapped

--------------------------------------------------------------------------------
(* Module::setBus *)

\* The buses of the file, then one for every port on none, inputs first.
BusSet(n) ==
    LET file == case.bus[n]
        alone == SelectSeq(Ports(n), LAMBDA p : \A b \in DOMAIN file : p \notin ToSet(file[b]))
    IN file \o [k \in DOMAIN alone |-> <<alone[k]>>]

\* Buses are indexed from 1 here; the last one that lists a port is its _bus_idx.
On(buses, p) == SelectSeq([b \in DOMAIN buses |-> b], LAMBDA b : p \in ToSet(buses[b]))

setBus ==
    LET buses == [n \in 1..2 |-> BusSet(n)]
        on(p) == On(buses[CircuitOf(p)], p)
    IN
    /\ pc = "setBus"
    /\ bus_set' = buses
    /\ bus_idx' = [p \in PortSet |-> Last(on(p))]
    /\ bus_indices' = [p \in PortSet |->
                          StableSort(on(p), LAMBDA b : Len(buses[CircuitOf(p)][b]))]
    /\ pc' = "readFunctionSupport"
    /\ UNCHANGED <<case, output_support, input_support, supportVal, isPIinPO, candVars,
                   output_to_inputBus>>

BusSize(p) == Len(bus_set[CircuitOf(p)][bus_idx[p]])

--------------------------------------------------------------------------------
(* new_boolean_match *)

outputSizeEq == Len(case.out[1]) = Len(case.out[2])
inputSizeEq == Len(case.in[1]) = Len(case.in[2])
inputDiff == Len(case.in[2]) - Len(case.in[1])

\* The line of port p, which is one of ports, as ports of the other kind.
LineOf(p, ports, lines, others) ==
    LET line == lines[CHOOSE k \in DOMAIN ports : ports[k] = p] IN
    [j \in DOMAIN line |-> others[line[j] + 1]]

readFunctionSupport ==
    /\ pc = "readFunctionSupport"
    /\ output_support' = [o \in Outs |-> LET n == CircuitOf(o) IN
                             LineOf(o, case.out[n], case.out_supp[n], case.in[n])]
    /\ input_support' = [i \in Ins |-> LET n == CircuitOf(i) IN
                            LineOf(i, case.in[n], case.in_supp[n], case.out[n])]
    /\ pc' = "assignFuncSupp"
    /\ UNCHANGED <<case, busVars, supportVal, isPIinPO, candVars, output_to_inputBus>>

assignFuncSupp ==
    /\ pc = "assignFuncSupp"
    /\ supportVal' = [p \in PortSet |-> Len(IF p \in Ins THEN input_support[p]
                                             ELSE output_support[p])]
    /\ pc' = "genPIinPO"
    /\ UNCHANGED <<case, busVars, output_support, input_support, isPIinPO, candVars,
                   output_to_inputBus>>

genPIinPO ==
    /\ pc = "genPIinPO"
    /\ isPIinPO' = [f \in ToSet(case.out[1]) |-> ToSet(output_support[f])]
    /\ pc' = "genOutputMatch"
    /\ UNCHANGED <<case, busVars, output_support, input_support, supportVal, candVars,
                   output_to_inputBus>>

\* (variant) supports are compared the wrong way round
OutputFits_Smaller(p, f) ==
    /\ outputSizeEq => BusSize(p) = BusSize(f)
    /\ supportVal[p] <= supportVal[f]
OutputFits(p, f) ==
    /\ outputSizeEq => BusSize(p) = BusSize(f)
    /\ inputSizeEq => supportVal[p] = supportVal[f]
    /\ ~inputSizeEq => /\ supportVal[p] - supportVal[f] \in 0..inputDiff
                       /\ case.bit[p] >= case.bit[f]

\* The size of the circuit-2 bus that has the index of f's circuit-1 bus; past
\* the end of bus[1] the read is undefined and any size may be found.
SizeRead(f, size) ==
    IF bus_idx[f] \in DOMAIN bus_set[2] THEN size = Len(bus_set[2][bus_idx[f]])
    ELSE size \in 0..2

OutputCandidates(p, size) ==
    IF case.init_out[p] # <<>> THEN case.init_out[p]
    ELSE LET fit == SelectSeq(case.out[1], LAMBDA f : OutputFits(p, f))
             bySize == StableSort(fit, LAMBDA f : SizeDistance(BusSize(p), size[f]))
         IN StableSort(bySize, LAMBDA f : -supportVal[f])

\* Priority first, then outputs with one candidate, then small supports.
OutputOrder(cand) ==
    LET Single(p) == Len(cand[p]) = 1
        bySupport == StableSort(case.out[2], LAMBDA p : IF Single(p) THEN case.bit[p] ELSE supportVal[p])
        bySingle == StableSort(bySupport, LAMBDA p : IF Single(p) THEN 0 ELSE 1)
    IN StableSort(bySingle, LAMBDA p : -case.priority[p])

genOutputMatch ==
    /\ pc = "genOutputMatch"
    /\ \E size \in [ToSet(case.out[1]) -> 0..Len(Ports(2))] :
          /\ \A f \in DOMAIN size : SizeRead(f, size[f])
          /\ output_match_cand' =
                [p \in ToSet(case.out[2]) |-> OutputCandidates(p, size)]
    /\ output_match_order' = OutputOrder(output_match_cand')
    /\ pc' = "genInputMatch"
    /\ UNCHANGED <<case, busVars, output_support, input_support, supportVal, isPIinPO,
                   input_match_cand, output_to_inputBus>>

\* An input on several buses: candidates on as many, each no longer.
CrossingFits(x, a) ==
    /\ Len(bus_indices[x]) = Len(bus_indices[a])
    /\ \A k \in DOMAIN bus_indices[x] :
          Len(bus_set[2][bus_indices[x][k]]) >= Len(bus_set[1][bus_indices[a][k]])
\* On one bus: a candidate on a bus no longer, by a pair of sizes of match_bus.
PlainFits(x, a) ==
    /\ BusSize(x) - BusSize(a) \in 0..inputDiff
    /\ case.bit[x] >= case.bit[a]
    /\ bus_idx[x] <= case.bus_size => <<BusSize(x), BusSize(a)>> \in case.bus_match_idx

InputFits(x, a) ==
    /\ inputSizeEq => BusSize(x) = BusSize(a)
    /\ ~inputSizeEq => IF Len(bus_indices[x]) > 1 THEN CrossingFits(x, a) ELSE PlainFits(x, a)
    /\ outputSizeEq /\ inputSizeEq => supportVal[x] = supportVal[a]

\* Nearest support first, then nearest signature, then nearest bus size, and a
\* constant last; a preset input has its partner only.
InputCandidates(x) ==
    IF case.init_in[x] # NULL THEN <<case.init_in[x]>>
    ELSE LET fit == SelectSeq(case.in[1], LAMBDA a : InputFits(x, a))
             bySize == StableSort(fit, LAMBDA a : SizeDistance(BusSize(x), BusSize(a)))
             bySig == StableSort(bySize, LAMBDA a : Abs(case.sig[x] - case.sig[a]))
         IN Append(StableSort(bySig, LAMBDA a : Abs(supportVal[x] - supportVal[a])), CONST)

genInputMatch ==
    /\ pc = "genInputMatch"
    /\ input_match_cand' = [x \in ToSet(case.in[2]) |-> InputCandidates(x)]
    /\ pc' = "genInfo"
    /\ UNCHANGED <<case, busVars, output_support, input_support, supportVal, isPIinPO,
                   output_match_cand, output_match_order, output_to_inputBus>>

\* Inputs with few candidates first, of these the ones on long buses; sort is
\* not stable, so the order of the others is open.
Before(x, y) ==
    LET m == Len(input_match_cand[x]) n == Len(input_match_cand[y]) IN
    m < n \/ (m = n /\ BusSize(x) > BusSize(y))

\* The supports of circuit 1 are sorted as well, which nothing depends on.
genInfo ==
    /\ pc = "genInfo"
    /\ \E orders \in [ToSet(case.out[2]) -> UNION {SetToSeqs(S) : S \in SUBSET ToSet(case.in[2])}] :
          /\ \A o \in DOMAIN orders :
                /\ ToSet(orders[o]) = ToSet(output_support[o])
                /\ \A k \in 2..Len(orders[o]) : ~Before(orders[o][k], orders[o][k - 1])
          /\ output_support' = orders @@ output_support
    /\ pc' = "assign_output_to_inputBus"
    /\ UNCHANGED <<case, busVars, input_support, supportVal, isPIinPO, candVars,
                   output_to_inputBus>>

\* All buses of the inputs below an output, whose priority in next_match they are.
assign_output_to_inputBus ==
    /\ pc = "assign_output_to_inputBus"
    /\ output_to_inputBus' =
          [o \in ToSet(case.out[2]) |->
              UNION {ToSet(bus_indices[i]) : i \in ToSet(output_support[o])}]
    /\ pc' = "match_output"
    /\ UNCHANGED <<case, busVars, output_support, input_support, supportVal, isPIinPO, candVars>>

Ready == pc = "match_output" /\ UNCHANGED vars

Next == \/ setBus \/ readFunctionSupport \/ assignFuncSupp \/ genPIinPO \/ genOutputMatch
        \/ genInputMatch \/ genInfo \/ assign_output_to_inputBus \/ Ready
Spec == Init /\ [][Next]_vars /\ WF_vars(Next)

--------------------------------------------------------------------------------
(* Properties *)

\* No filter drops a partner: if a match sends buses to buses no longer, covers
\* every input of circuit 1 and explains the supports, the search can find it:
\* every output and input of circuit 2 has its partner among its candidates.
PartnersKept ==
    pc = "match_output" =>
        /\ \A p \in ToSet(case.out[2]) : case.match[p] \in ToSet(output_match_cand[p])
        /\ \A x \in ToSet(case.in[2]) : case.match[x] \in ToSet(input_match_cand[x])
================================================================================
