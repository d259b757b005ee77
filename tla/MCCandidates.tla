------------------------------ MODULE MCCandidates -----------------------------
(* Three inputs against four, two buses a side that share an input, and every *)
(* match that sends the first bus to the first and covers circuit 1; three    *)
(* inputs against three; two outputs against two, on one bus or apart.        *)
EXTENDS Candidates, TLC

In1 == <<"a", "b", "c">>
Out1 == <<"f", "g">>
Out2 == <<"p", "q">>
Subsets == {S \in SUBSET ToSet(In1) : S # {}}

\* The lines of the support files.
Indices(chosen, ports) == SelectSeq([k \in DOMAIN ports |-> k - 1], LAMBDA k : ports[k + 1] \in chosen)
OutLines(supp, in, out) == [k \in DOMAIN out |-> Indices(supp[out[k]], in)]
InLines(supp, in, out) == [k \in DOMAIN in |-> Indices({o \in DOMAIN supp : in[k] \in supp[o]}, out)]

\* A case from a match and the supports it explains: an output of circuit 2
\* depends on what its partner depends on, and on some inputs made constant.
Case(in2, bus1, bus2, sizes, match, sf, sg, consts, bits) ==
    LET supp1 == [f |-> sf, g |-> sg, h |-> sg]
        above(S) == {x \in ToSet(in2) : match[x] \in S} \cup {x \in consts : match[x] = CONST}
        supp2 == [o \in ToSet(Out2) |-> above(supp1[match[o]])]
    IN
    [in |-> <<In1, in2>>, out |-> <<Out1, Out2>>, bus |-> <<bus1, bus2>>,
     out_supp |-> <<OutLines(supp1, In1, Out1), OutLines(supp2, in2, Out2)>>,
     in_supp |-> <<InLines(supp1, In1, Out1), InLines(supp2, in2, Out2)>>,
     sig |-> [i \in ToSet(In1) \cup ToSet(in2) |-> IF i \in {"a", "y"} THEN 1 ELSE 0],
     bit |-> [r \in ToSet(In1) \cup ToSet(in2) \cup {"f", "g", "p", "q"} |->
                  IF r \in bits THEN 1 ELSE -1],
     bus_match_idx |-> sizes, bus_size |-> 2,
     init_in |-> [x \in ToSet(in2) |-> NULL], init_out |-> [o \in {"p", "q"} |-> <<>>],
     priority |-> [p |-> 0, q |-> IF bits = {} THEN 0 ELSE 1], match |-> match]

OutMatches == {("p" :> "f") @@ ("q" :> "g"), ("p" :> "g") @@ ("q" :> "f")}
Bits == {{}, {"p", "q", "f"}, {"x", "z"}}

\* Circuit 1: buses ab and bc; circuit 2: xyz and zw.
Crossing ==
    {Case(<<"x", "y", "z", "w">>, <<<<"a", "b">>, <<"b", "c">>>>, <<<<"x", "y", "z">>, <<"z", "w">>>>,
          {<<3, 2>>, <<2, 2>>}, m @@ o, sf, sg, consts, bits) :
        m \in {("x" :> "a") @@ ("y" :> v) @@ ("z" :> "b") @@ ("w" :> "c") : v \in {"a", CONST}},
        o \in OutMatches, sf \in Subsets, sg \in Subsets, consts \in SUBSET {"y"}, bits \in Bits}

\* Circuit 1: bus ab, c alone; circuit 2: xyz, w alone; outputs on a bus.
Apart ==
    {[Case(<<"x", "y", "z", "w">>, <<<<"a", "b">>, <<"f", "g">>>>, <<<<"x", "y", "z">>, <<"p", "q">>>>,
           {<<3, 2>>, <<2, 2>>}, m @@ o, sf, sg, {"y", "z"}, {}) EXCEPT !.init_in["w"] = preset] :
        m \in {("x" :> "a") @@ ("y" :> u) @@ ("z" :> "b") @@ ("w" :> "c") : u \in {"a", "b", CONST}},
        o \in OutMatches, sf \in Subsets, sg \in Subsets, preset \in {NULL, "c"}}

\* As many inputs: buses ab and xy, c and z alone; p is preset or not.
Equal ==
    {[Case(<<"x", "y", "z">>, <<<<"a", "b">>>>, <<<<"y", "x">>>>, {}, m @@ o, sf, sg, {}, {})
         EXCEPT !.init_out["p"] = IF preset THEN <<o["p"]>> ELSE <<>>] :
        m \in {("x" :> u[1]) @@ ("y" :> u[2]) @@ ("z" :> "c") : u \in {<<"a", "b">>, <<"b", "a">>}},
        o \in OutMatches, sf \in Subsets, sg \in Subsets, preset \in BOOLEAN}

McCases == Crossing \cup Apart \cup Equal
================================================================================
