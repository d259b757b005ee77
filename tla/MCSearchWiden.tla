----------------------------- MODULE MCSearchWiden -----------------------------
(* Circuit 2 has one input more than circuit 1 and circuit 1 one output more *)
(* than circuit 2: constants, shared inputs and unmatched outputs.           *)
EXTENDS MatchSearchProperties

McC1In == {"a", "b"}
McC2In == {"x", "y", "z"}
McC1Out == {"f", "g", "h"}
McC2Out == {"p", "q"}

\* Bus 0 holds the inputs; f and g lie on bus 1, h on bus 2; p and q on bus 1.
McBus == 0..2
McBusIdx1 == [n \in McC1In \cup McC1Out |->
                 IF n \in McC1In THEN 0 ELSE IF n = "h" THEN 2 ELSE 1]
McBusIdx2 == [n \in McC2In \cup McC2Out |-> IF n \in McC2In THEN 0 ELSE 1]
McBusIndices1 == [n \in McC1In |-> <<0>>]
McBusIndices2 == [n \in McC2In |-> <<0>>]

McSupp1 == [f |-> {"a", "b"}, g |-> {"a"}, h |-> {"b"}]
McSupp2 == [p |-> <<"x", "y", "z">>, q |-> <<"z", "y">>]
McOutOrder == <<"q", "p">>
McOutCand == [p |-> <<"h", "f">>, q |-> <<"f", "g", "h">>]
McInCand == [i \in McC2In |-> <<"a", "b", CONST>>]
McInitIn == [i \in McC2In |-> None]
McInitNe == [i \in McC2In |-> -1]
McPriority == [p |-> 0, q |-> 0]

\* Sets of inputs, of those at 1, for which a function gives 1.
AndOf(In, S) == {s \in SUBSET In : S \subseteq s}
XorOf(In, u, v) == {s \in SUBSET In : (u \in s) # (v \in s)}
AndNot(In, u, v) == {s \in SUBSET In : u \in s /\ v \notin s}
MuxOf(u, v, w) == {s \in SUBSET McC2In : IF u \in s THEN v \in s ELSE w \in s}
Maj == {s \in SUBSET McC2In : Cardinality(s) >= 2}
Odd == {s \in SUBSET McC2In : Cardinality(s) \in {1, 3}}
McNetlists ==
    {[c1 |-> [f |-> ff, g |-> AndOf(McC1In, {"a"}), h |-> AndOf(McC1In, {"b"})],
      c2 |-> [p |-> pp, q |-> qq]] :
        ff \in {AndOf(McC1In, McC1In), AndNot(McC1In, "b", "a"), XorOf(McC1In, "a", "b")},
        pp \in {AndOf(McC2In, McC2In), MuxOf("x", "y", "z"), MuxOf("y", "x", "z"),
                Maj, Odd},
        qq \in {AndOf(McC2In, {"y", "z"}), AndNot(McC2In, "z", "y"),
                XorOf(McC2In, "y", "z")}}
================================================================================
