-------------------------------- MODULE Netlist --------------------------------
(***************************************************************************)
(* From the mapped Verilog file to the simplified netlist: Parser reads it *)
(* statement by statement and connects the gates, Simplification takes the *)
(* fan-outs of outputs away and deletes wires, buffers and inverters (an   *)
(* inverter becomes a count of inverted fan-ins of the gates it drove),    *)
(* TraceInputs collects the inputs below every output.                     *)
(***************************************************************************)
EXTENDS Gates, SequencesExt

CONSTANT Files      \* mapped files: sequences of statements

\* A statement is [op, names]: a declaration, a gate with its pins (the output
\* first), or endmodule.  Gates are named: name is what the parser calls it.
--------------------------------------------------------------------------------
(* The files *)

Inputs(f)  == UNION {ToSet(f[i].names) : i \in {i \in DOMAIN f : f[i].op = "input"}}
Outputs(f) == UNION {ToSet(f[i].names) : i \in {i \in DOMAIN f : f[i].op = "output"}}
Declared(f) == UNION {ToSet(f[i].names) : i \in {i \in DOMAIN f : f[i].op \in PortTypes}}
GateLines(f) == {i \in DOMAIN f : f[i].op \in GateTypes}
Drivers(f, net) == {i \in GateLines(f) : Head(f[i].names) = net}

\* Statements, pins and drivers the parser and Simplification get along with.
WellFormed(f) ==
    /\ \A i \in DOMAIN f : f[i].op \in PortTypes \cup GateTypes \cup {"endmodule"}
    /\ \A i \in GateLines(f) : ToSet(f[i].names) \subseteq Declared(f)
    /\ \A net \in Declared(f) \ Inputs(f) : Drivers(f, net) # {}

\* How many fan-ins a node has.
Arity(type) ==
    CASE type = "FACARRY" -> 3
      [] type \in {"AND", "XOR"} -> 2
      [] type \in {"input", "ZEROBUF", "ONEBUF"} -> 0
      [] OTHER -> 1

\* Some net of every set depends on no other one of it.
NoLoop(f) ==
    \A S \in (SUBSET Declared(f)) \ {{}} : \E net \in S :
        \A i \in Drivers(f, net) : ToSet(Tail(f[i].names)) \cap S = {}

\* One endmodule, gates with the pins of their type and names that no net has,
\* a driver per net at most, no loop.
Plain(f) ==
    /\ f \in Seq([op : STRING, names : Seq(STRING), name : STRING]) /\ f # <<>>
    /\ \A i \in DOMAIN f : /\ f[i].op = "endmodule" <=> i = Len(f)
                           /\ f[i].op \in PortTypes => IsInjective(f[i].names)
    /\ \A i \in GateLines(f) : /\ Len(f[i].names) = Arity(f[i].op) + 1
                               /\ f[i].name \notin Declared(f)
    /\ \A i, j \in GateLines(f) : /\ f[i].name \notin ToSet(f[j].names)
                                  /\ f[i].name = f[j].name => i = j
                                  /\ Head(f[i].names) = Head(f[j].names) => i = j
    /\ NoLoop(f)

\* What ABC writes: ports, then wires, then gates, none of which drives an input,
\* and no inverter or buffer behind another.
AsMapped(f) ==
    /\ Inputs(f) \cap Outputs(f) = {}
    /\ \A i, j \in DOMAIN f :
           /\ f[i].op \in {"input", "output"} /\ f[j].op = "wire" => i < j
           /\ f[i].op = "wire" /\ f[j].op \in GateTypes => i < j
    /\ \A i \in GateLines(f) :
           /\ Head(f[i].names) \notin Inputs(f)
           /\ \A j \in GateLines(f) : {f[i].op, f[j].op} \subseteq {"INV", "BUF"}
                  => Head(f[i].names) \notin ToSet(Tail(f[j].names))

\* The parser checks none of this.
ASSUME FilesAssumption == \A f \in Files : Plain(f) /\ (WellFormed(f) => AsMapped(f))

--------------------------------------------------------------------------------
VARIABLES
    file,       \* the file that is read; never changes
    line,       \* the next statement
    netlist,    \* _netlist: the nodes in order of creation
    nodes,      \* name -> node; also _name_to_node
    pi_idx,     \* Node::_pi_idx of the outputs, as sets of inputs
    at,         \* position of the running loop of Simplification
    pc          \* "read", "outputs", "wires", "done", or "err" after err()

vars == <<file, line, netlist, nodes, pi_idx, at, pc>>

NewNode(type) == [type |-> type, fi |-> <<>>, fo |-> <<>>, inv |-> 0]

\* The sequence s without the members of S.
Without(s, S) == FlattenSeq([i \in DOMAIN s |-> IF s[i] \in S THEN <<>> ELSE <<s[i]>>])

\* _gate[type]
Gate(type) == Without(netlist, {n \in DOMAIN nodes : nodes[n].type # type})

Init ==
    /\ file \in Files
    /\ line = 1
    /\ netlist = <<>>
    /\ nodes = <<>>
    /\ pi_idx = <<>>
    /\ at = 1
    /\ pc = "read"

Err == pc' = "err" /\ UNCHANGED <<file, line, netlist, nodes, pi_idx, at>>

--------------------------------------------------------------------------------
(* Parser *)

\* input, output, wire: names that exist already are skipped.
ReadDeclaration ==
    LET stmt == file[line]
        new == Without(stmt.names, DOMAIN nodes)
    IN
    /\ pc = "read"
    /\ stmt.op \in PortTypes
    /\ netlist' = netlist \o new
    /\ nodes' = [n \in DOMAIN nodes \cup ToSet(new) |->
                    IF n \in DOMAIN nodes THEN nodes[n] ELSE NewNode(stmt.op)]
    /\ line' = line + 1
    /\ UNCHANGED <<file, pi_idx, at, pc>>

\* How often n occurs in the sequence s.
Occurrences(s, n) == Cardinality({i \in DOMAIN s : s[i] = n})
Times(n, k) == [i \in 1..k |-> n]

\* Both directions of every edge of a gate.
Connect(ns, gate, pins) ==
    LET out == Head(pins) ins == Tail(pins) IN
    [n \in DOMAIN ns |->
        [ns[n] EXCEPT !.fi = IF n = gate THEN @ \o ins ELSE IF n = out THEN Append(@, gate) ELSE @,
                      !.fo = IF n = gate THEN Append(@, out)
                             ELSE @ \o Times(gate, Occurrences(ins, n))]]

KnownGate == file[line].op \in GateTypes /\ ToSet(file[line].names) \subseteq DOMAIN nodes

ReadGate ==
    LET stmt == file[line]
        withGate == [n \in DOMAIN nodes \cup {stmt.name} |->
                        IF n = stmt.name THEN NewNode(stmt.op) ELSE nodes[n]]
    IN
    /\ pc = "read"
    /\ KnownGate
    /\ netlist' = Append(netlist, stmt.name)
    /\ nodes' = Connect(withGate, stmt.name, stmt.names)
    /\ line' = line + 1
    /\ UNCHANGED <<file, pi_idx, at, pc>>

\* An unknown gate type, or a pin that is no net.
ReadError ==
    /\ pc = "read"
    /\ file[line].op \notin PortTypes \cup {"endmodule"}
    /\ ~KnownGate
    /\ Err

EndModule ==
    /\ pc = "read"
    /\ file[line].op = "endmodule"
    /\ pc' = "outputs"
    /\ UNCHANGED <<file, line, netlist, nodes, pi_idx, at>>

--------------------------------------------------------------------------------
(* Simplification *)

\* (variant) the new fan-ins always go to the back
Redirect_Back(ns, x, prev, front) ==
    [n \in DOMAIN ns |->
        LET repeat == Occurrences(ns[n].fi, x)
            others == Without(ns[n].fi, {x})
        IN IF n \notin ToSet(ns[x].fo) THEN ns[n]
           ELSE [ns[n] EXCEPT !.fi = others \o Times(prev, repeat),
                              !.inv = IF front THEN @ + repeat ELSE @]]

\* The gates x drove read prev instead: inverted, in front of the others and
\* counted, or at the back.
Redirect(ns, x, prev, front) ==
    [n \in DOMAIN ns |->
        LET repeat == Occurrences(ns[n].fi, x)
            others == Without(ns[n].fi, {x})
        IN IF n \notin ToSet(ns[x].fo) THEN ns[n]
           ELSE [ns[n] EXCEPT !.fi = IF front THEN Times(prev, repeat) \o others
                                              ELSE others \o Times(prev, repeat),
                              !.inv = IF front THEN @ + repeat ELSE @]]

NoFanIn(n) == nodes[n].fi = <<>>

\* An output that drives gates: they read its driver.
FixOutput ==
    LET x == Gate("output")[at] prev == nodes[x].fi[1] IN
    /\ pc = "outputs"
    /\ at <= Len(Gate("output"))
    /\ ~NoFanIn(x)
    /\ nodes' = [Redirect(nodes, x, prev, FALSE) EXCEPT
                    ![prev].fo = @ \o nodes[x].fo,
                    ![x].fo = <<>>]
    /\ at' = at + 1
    /\ UNCHANGED <<file, line, netlist, pi_idx, pc>>

OutputsFixed ==
    /\ pc = "outputs"
    /\ at > Len(Gate("output"))
    /\ at' = 1
    /\ pc' = "wires"
    /\ UNCHANGED <<file, line, netlist, nodes, pi_idx>>

\* (variant) buffers are kept
Removable_KeepsBuffers(n) == nodes[n].type \in {"wire", "INV"}
Removable(n) == nodes[n].type \in {"wire", "BUF", "INV"}
NextRemovable(k) ==
    /\ k \in at..Len(netlist)
    /\ Removable(netlist[k])
    /\ \A j \in at..(k - 1) : ~Removable(netlist[j])

\* (variant) the driver keeps the deleted node in its fan-outs
Unhook_Forgotten(ns, x, prev) == [ns EXCEPT ![prev].fo = @ \o ns[x].fo]
\* The driver of x takes over its fan-outs.
Unhook(ns, x, prev) == [ns EXCEPT ![prev].fo = RemoveFirst(@, x) \o ns[x].fo]

DeleteNode ==
    \E k \in at..Len(netlist) :
    LET x == netlist[k]
        prev == nodes[x].fi[1]
        moved == Redirect(Unhook(nodes, x, prev), x, prev, nodes[x].type = "INV")
    IN
    /\ pc = "wires"
    /\ NextRemovable(k)
    /\ ~NoFanIn(x)
    /\ nodes' = [n \in DOMAIN nodes \ {x} |-> moved[n]]
    /\ netlist' = RemoveAt(netlist, k)
    /\ at' = k
    /\ UNCHANGED <<file, line, pi_idx, pc>>

FanInError ==
    /\ \/ pc = "outputs" /\ at <= Len(Gate("output")) /\ NoFanIn(Gate("output")[at])
       \/ pc = "wires" /\ \E k \in at..Len(netlist) : NextRemovable(k) /\ NoFanIn(netlist[k])
    /\ Err

--------------------------------------------------------------------------------
(* TraceInputs *)

\* CollectPI: the inputs reached from n through fan-ins.
CollectPI(n) ==
    LET below[m \in DOMAIN nodes] ==
            IF nodes[m].type = "input" THEN {m}
            ELSE UNION {below[nodes[m].fi[i]] : i \in DOMAIN nodes[m].fi}
    IN below[n]

TraceInputs ==
    /\ pc = "wires"
    /\ \A k \in at..Len(netlist) : ~Removable(netlist[k])
    /\ pi_idx' = [o \in ToSet(Gate("output")) |-> CollectPI(o)]
    /\ pc' = "done"
    /\ UNCHANGED <<file, line, netlist, nodes, at>>

Ended == pc \in {"done", "err"} /\ UNCHANGED vars

Parse == ReadDeclaration \/ ReadGate \/ ReadError \/ EndModule
Simplify == FixOutput \/ OutputsFixed \/ DeleteNode \/ FanInError
Next == Parse \/ Simplify \/ TraceInputs \/ Ended

\* Nothing blocks the parser.
Spec == Init /\ [][Next]_vars /\ WF_vars(Next)

--------------------------------------------------------------------------------
(* Properties *)

\* What a net of the file computes: its driver's function of its pins.
NetValue(f, ones) ==
    LET value[net \in Declared(f)] ==
            IF net \in Inputs(f) THEN net \in ones
            ELSE LET gate == f[CHOOSE i \in Drivers(f, net) : TRUE]
                     ins == Tail(gate.names)
                 IN GateValue(gate.op, [i \in DOMAIN ins |-> value[ins[i]]])
    IN value

NetSupport(f, out) ==
    LET below[net \in Declared(f)] ==
            IF net \in Inputs(f) THEN {net}
            ELSE LET ins == Tail(f[CHOOSE i \in Drivers(f, net) : TRUE].names)
                 IN UNION {below[ins[i]] : i \in DOMAIN ins}
    IN below[out]

\* No step of Simplification changes what an output computes: at every moment
\* between two of its steps the nodes that are left compute the file's function
\* for every input pattern, so moving inverters into counts loses none.
FunctionPreserved ==
    pc \in {"outputs", "wires", "done"} /\ WellFormed(file) =>
        \A ones \in SUBSET Inputs(file) :
            LET now == OutputValue(nodes, ones) then == NetValue(file, ones) IN
            \A o \in Outputs(file) : now[o] = then[o]

\* _fi and _fo describe the same edges, as often, and no deleted node is left in
\* them: a node that Simplification freed is never reached again.
EdgesMirrored ==
    \A n \in DOMAIN nodes :
        /\ ToSet(nodes[n].fi) \cup ToSet(nodes[n].fo) \subseteq DOMAIN nodes
        /\ \A m \in DOMAIN nodes :
               Occurrences(nodes[n].fo, m) = Occurrences(nodes[m].fi, n)

\* The parser ends; with err() exactly on the files that are not well-formed,
\* and otherwise with gates only, whose inverted fan-ins are among their
\* fan-ins, and the inputs of every output that the file gives it.
Finished ==
    pc = "done" /\ WellFormed(file)
    /\ \A n \in DOMAIN nodes :
           nodes[n].type \notin {"wire", "BUF", "INV"} /\ nodes[n].inv <= Len(nodes[n].fi)
    /\ \A o \in Outputs(file) : pi_idx[o] = NetSupport(file, o)
ParserEnds == <>[]((pc = "err" /\ ~WellFormed(file)) \/ Finished)
================================================================================
