---------------------------- MODULE MCSearchPreset ----------------------------
(* An input that MatchAlgo preset (_init_input): the outputs whose candidate *)
(* does not depend on its partner leave it dangling.                         *)
EXTENDS MatchSearchProperties

McC1In == {"a", "b"}
McC2In == {"x", "y"}
McC1Out == {"f", "g"}
McC2Out == {"p", "q"}

McBus == {0, 1}
McBusIdx1 == [n \in McC1In \cup McC1Out |-> IF n \in McC1In THEN 0 ELSE 1]
McBusIdx2 == [n \in McC2In \cup McC2Out |-> IF n \in McC2In THEN 0 ELSE 1]
McBusIndices1 == [n \in McC1In |-> <<0>>]
McBusIndices2 == [n \in McC2In |-> <<0>>]

McSupp1 == [f |-> {"a"}, g |-> {"a", "b"}]
McSupp2 == [o \in McC2Out |-> <<"x", "y">>]
McOutOrder == <<"p", "q">>
McOutCand == [o \in McC2Out |-> <<"f", "g">>]
McInCand == [x |-> <<"a", "b", CONST>>, y |-> <<"b">>]
McInitIn == [x |-> None, y |-> "b"]
McInitNe == [x |-> -1, y |-> 0]
McPriority == [o \in McC2Out |-> 0]

AndOf(In, S) == {s \in SUBSET In : S \subseteq s}
XorOf(In, u, v) == {s \in SUBSET In : (u \in s) # (v \in s)}
AndNot(In, u, v) == {s \in SUBSET In : u \in s /\ v \notin s}
F2 == {AndOf(McC2In, McC2In), AndNot(McC2In, "x", "y"), AndNot(McC2In, "y", "x"),
       XorOf(McC2In, "x", "y"), (SUBSET McC2In) \ AndOf(McC2In, McC2In)}
McNetlists ==
    {[c1 |-> [f |-> AndOf(McC1In, {"a"}), g |-> gg], c2 |-> [p |-> pp, q |-> qq]] :
        gg \in {AndOf(McC1In, McC1In), XorOf(McC1In, "a", "b")}, pp \in F2, qq \in F2}
================================================================================
