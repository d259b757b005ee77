------------------------------- MODULE MCNetlist -------------------------------
(* Mapped files of three inputs and two outputs as ABC writes them: gates in  *)
(* order, no inverter or buffer behind another, and four broken files.        *)
EXTENDS Netlist

Stmt(op, names) == [op |-> op, names |-> names, name |-> ""]
GateStmt(op, name, names) == [op |-> op, names |-> names, name |-> name]
End == Stmt("endmodule", <<>>)
Ports == <<Stmt("input", <<"a", "b", "c">>), Stmt("output", <<"o", "p">>)>>

Twos == {"AND", "XOR"}
Nets == {"a", "b", "v", "w", "o"}

\* w: a two-input gate; v: an inverter; o and p: any gates.
First == {GateStmt(op, "g0", <<"w", "a", x>>) : op \in Twos, x \in {"a", "b"}}
Inverters == {GateStmt("INV", "g1", <<"v", x>>) : x \in {"a", "w"}}
OutO == {GateStmt(op, "g2", <<"o", x, y>>) : op \in Twos, x \in {"v"}, y \in {"b", "v", "w"}}
        \cup {GateStmt("INV", "g2", <<"o", x>>) : x \in {"b", "w"}}
        \cup {GateStmt("BUF", "g2", <<"o", "a">>), GateStmt("ONEBUF", "g2", <<"o">>)}
OutP == {GateStmt(op, "g3", <<"p", x, y>>) : op \in Twos, x \in {"o", "v"}, y \in {"o", "v", "w", "c"}}
        \cup {GateStmt("FACARRY", "g3", <<"p", x, y, z>>) :
                x \in {"v", "o"}, y \in {"w", "o"}, z \in {"c", "v"}}
        \cup {GateStmt("INV", "g3", <<"p", "w">>), GateStmt("ZEROBUF", "g3", <<"p">>)}

Good == {Ports \o <<Stmt("wire", wires), s0, s1, s2, s3, End>> :
            wires \in {<<"w", "v">>, <<"v", "o", "w">>},
            s0 \in First, s1 \in Inverters, s2 \in OutO, s3 \in OutP}

Broken == {Ports \o <<End>>,
           Ports \o <<Stmt("wire", <<"w">>), GateStmt("AND", "g0", <<"o", "a", "w">>),
                      GateStmt("BUF", "g1", <<"p", "c">>), End>>,
           Ports \o <<GateStmt("LATCH", "g0", <<"o", "a">>), End>>,
           Ports \o <<GateStmt("AND", "g0", <<"o", "a", "z">>), End>>}

McFiles == Good \cup Broken
================================================================================
