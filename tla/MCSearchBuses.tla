----------------------------- MODULE MCSearchBuses -----------------------------
(* Two input buses on each side and an input on both of them.                *)
EXTENDS MatchSearchProperties

McC1In == {"a", "b", "c"}
McC2In == {"w", "x", "y", "z"}
McC1Out == {"f", "g"}
McC2Out == {"p", "q"}

\* a is on buses 0 and 1, b on 0, c on 1; x is on 0 and 1, y on 0, z and w on 1.
\* _bus_idx of an input is the last of its buses in the order of the bus file.
McBus == 0..3
McBusIdx1 == [a |-> 1, b |-> 0, c |-> 1, f |-> 2, g |-> 3]
McBusIdx2 == [x |-> 1, y |-> 0, z |-> 1, w |-> 1, p |-> 2, q |-> 3]
McBusIndices1 == [a |-> <<0, 1>>, b |-> <<0>>, c |-> <<1>>]
McBusIndices2 == [x |-> <<0, 1>>, y |-> <<0>>, z |-> <<1>>, w |-> <<1>>]

McSupp1 == [f |-> {"a", "b"}, g |-> {"a", "c"}]
McSupp2 == [p |-> <<"x", "y">>, q |-> <<"x", "z", "w">>]
McOutOrder == <<"p", "q">>
McOutCand == [p |-> <<"g", "f">>, q |-> <<"f", "g">>]
McInCand == [x |-> <<"a", CONST>>, y |-> <<"b", "c", "a", CONST>>,
             z |-> <<"c", "b", "a", CONST>>, w |-> <<"b", "c", "a", CONST>>]
McInitIn == [i \in McC2In |-> None]
McInitNe == [i \in McC2In |-> -1]
McPriority == [p |-> 0, q |-> 0]

AndOf(In, S) == {s \in SUBSET In : S \subseteq s}
XorOf(In, u, v) == {s \in SUBSET In : (u \in s) # (v \in s)}
MuxQ == {s \in SUBSET McC2In : IF "x" \in s THEN "z" \in s ELSE "w" \in s}
SumQ == {s \in SUBSET McC2In : "x" \in s /\ ("z" \in s \/ "w" \in s)}
XorQ == {s \in SUBSET McC2In : ("x" \in s) # ("z" \in s /\ "w" \in s)}
McNetlists ==
    {[c1 |-> [f |-> ff, g |-> gg], c2 |-> [p |-> pp, q |-> qq]] :
        ff \in {AndOf(McC1In, {"a", "b"}), XorOf(McC1In, "a", "b")},
        gg \in {AndOf(McC1In, {"a", "c"}), XorOf(McC1In, "a", "c")},
        pp \in {AndOf(McC2In, {"x", "y"}), XorOf(McC2In, "x", "y")},
        qq \in {AndOf(McC2In, {"x", "z", "w"}), MuxQ, SumQ, XorQ}}
================================================================================
