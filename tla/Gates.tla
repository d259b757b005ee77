--------------------------------- MODULE Gates ---------------------------------
(***************************************************************************)
(* Nodes of a netlist and what they compute.  A netlist maps the name of a *)
(* node to a record: type, fi and fo (the sequences _fi and _fo of names), *)
(* inv (the first inv fan-ins are inverted).  The types are those ABC's    *)
(* mapping can emit (cadence.genlib) and the ports.                        *)
(***************************************************************************)
EXTENDS Integers, Sequences, FiniteSets

GateTypes == {"INV", "BUF", "AND", "XOR", "FACARRY", "ZEROBUF", "ONEBUF"}
PortTypes == {"input", "output", "wire"}

\* The value of a gate from the values of its fan-ins.
GateValue(type, x) ==
    CASE type \in {"output", "wire", "BUF"} -> x[1]
      [] type = "INV"     -> ~x[1]
      [] type = "AND"     -> x[1] /\ x[2]
      [] type = "XOR"     -> x[1] # x[2]
      [] type = "FACARRY" -> Cardinality({i \in 1..3 : x[i]}) >= 2
      [] type = "ZEROBUF" -> FALSE
      [] type = "ONEBUF"  -> TRUE

\* Every node's signal when exactly the inputs in ones carry 1.
OutputValue(nodes, ones) ==
    LET signal[n \in DOMAIN nodes] ==
            IF nodes[n].type = "input" THEN n \in ones
            ELSE GateValue(nodes[n].type,
                           [i \in DOMAIN nodes[n].fi |->
                               signal[nodes[n].fi[i]] # (i <= nodes[n].inv)])
    IN signal
================================================================================
