----------------------------- MODULE MCSearchSampled ----------------------------
(* As many inputs and outputs on both sides, and a miter that only samples, so *)
(* that it may take any pair of outputs that agree on some patterns.           *)
EXTENDS MatchSearchProperties

McC1In == {"a", "b", "c"}
McC2In == {"x", "y", "z"}
McC1Out == {"f", "g", "h", "k"}
McC2Out == {"p", "q", "r"}

\* Bus 0 holds the inputs of a side, bus 1 its outputs.
McBus == {0, 1}
McBusIdx1 == [n \in McC1In \cup McC1Out |-> IF n \in McC1In THEN 0 ELSE 1]
McBusIdx2 == [n \in McC2In \cup McC2Out |-> IF n \in McC2In THEN 0 ELSE 1]
McBusIndices1 == [n \in McC1In |-> <<0>>]
McBusIndices2 == [n \in McC2In |-> <<0>>]

\* q in between records the lock of p on y and is undone when r fails; h would
\* give r the input that y has.
McSupp1 == [f |-> {"a", "b"}, g |-> {"b"}, h |-> {"a", "b"}, k |-> {"a", "c"}]
McSupp2 == [p |-> <<"x", "y">>, q |-> <<"y">>, r |-> <<"z", "x">>]
McOutOrder == <<"p", "q", "r">>
McOutCand == [p |-> <<"f", "h">>, q |-> <<"g">>, r |-> <<"h", "k">>]
McInCand == [i \in McC2In |-> <<"a", "b", "c", CONST>>]
McInitIn == [i \in McC2In |-> None]
McInitNe == [i \in McC2In |-> -1]
McPriority == [o \in McC2Out |-> 0]

\* Sets of inputs, of those at 1, for which a function gives 1.
AndOf(In, u, v) == {s \in SUBSET In : u \in s /\ v \in s}
XorOf(In, u, v) == {s \in SUBSET In : (u \in s) # (v \in s)}
AndNot(In, u, v) == {s \in SUBSET In : u \in s /\ v \notin s}
Functions2(In, u, v) == {AndOf(In, u, v), XorOf(In, u, v), AndNot(In, u, v)}
McNetlists ==
    {[c1 |-> [f |-> ff, g |-> AndOf(McC1In, "b", "b"), h |-> AndOf(McC1In, "a", "b"),
              k |-> XorOf(McC1In, "a", "c")],
      c2 |-> [p |-> pp, q |-> AndOf(McC2In, "y", "y"), r |-> rr]] :
        ff \in Functions2(McC1In, "a", "b"),
        pp \in Functions2(McC2In, "x", "y"), rr \in Functions2(McC2In, "z", "x")}
================================================================================
