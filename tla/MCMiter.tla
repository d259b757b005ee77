-------------------------------- MODULE MCMiter --------------------------------
(* Three-input cones of two gates with every number of inverted fan-ins.      *)
EXTENDS MiterSimulation

Nd(t, fi, inv) == [type |-> t, fi |-> fi, fo |-> <<>>, inv |-> inv]
In == Nd("input", <<>>, 0)

Circuit1(g, h, s) ==
    [a |-> In, b |-> In, c |-> In,
     g1 |-> Nd(g.op, <<"a", "b">>, g.inv), g2 |-> Nd(h.op, <<"g1", "c">>, h.inv),
     f |-> Nd("output", <<"g2">>, s)]
Circuit2(g, h, s) ==
    [x |-> In, y |-> In, z |-> In,
     k1 |-> Nd(g.op, <<"x", "y">>, g.inv), k2 |-> Nd(h.op, <<"k1", "z">>, h.inv),
     p |-> Nd("output", <<"k2">>, s)]
Zero2 == [x |-> In, y |-> In, z |-> In, k |-> Nd("ZEROBUF", <<>>, 0), p |-> Nd("output", <<"k">>, 0)]
Majority2(v) ==
    [x |-> In, y |-> In, z |-> In, k |-> Nd("FACARRY", <<"x", "y", "z">>, v),
     p |-> Nd("output", <<"k">>, 0)]
Majority1(v) ==
    [a |-> In, b |-> In, c |-> In, g |-> Nd("FACARRY", <<"a", "b", "c">>, v),
     f |-> Nd("output", <<"g">>, 1)]

Op(op, inv) == [op |-> op, inv |-> inv]
Pair(c2, c1, neg) == [c2 |-> c2, c1 |-> c1, neg |-> neg]

Cones1 == {Circuit1(g, h, 0) : g \in {Op("AND", 0), Op("XOR", 0), Op("AND", 1)},
                               h \in {Op("AND", 0), Op("AND", 1), Op("XOR", 0)}}
          \cup {Majority1(v) : v \in {0, 2}}
Cones2 == {Circuit2(g, h, s) : g \in {Op("AND", 0), Op("AND", 1), Op("AND", 2), Op("XOR", 1)},
                               h \in {Op("AND", 0), Op("AND", 1), Op("AND", 2), Op("XOR", 0)},
                               s \in {0, 1}}
          \cup {Zero2} \cup {Majority2(v) : v \in 0..3}

\* One to one, with the first input inverted or not; two inputs on one; a
\* constant; an input left undriven; nothing driven.
Matches ==
    {[pairs |-> <<Pair("x", "a", v), Pair("y", "b", w), Pair("z", "c", FALSE)>>, consts |-> <<>>] :
        v \in BOOLEAN, w \in BOOLEAN}
    \cup {[pairs |-> <<Pair("x", "a", FALSE), Pair("y", "a", v), Pair("z", "c", FALSE)>>, consts |-> <<>>] :
        v \in BOOLEAN}
    \cup {[pairs |-> <<Pair("x", "c", FALSE)>>, consts |-> <<[c2 |-> "y", neg |-> v]>>] : v \in BOOLEAN}
    \cup {[pairs |-> <<>>, consts |-> <<[c2 |-> "y", neg |-> TRUE]>>]}

Call(c1, c2, m, limit) ==
    [c1 |-> c1, c2 |-> c2, o1 |-> "f", o2 |-> "p", pairs |-> m.pairs, consts |-> m.consts,
     limit |-> limit]
McProblems == {Call(c1, c2, m, 4) : c1 \in Cones1, c2 \in Cones2, m \in Matches}

\* A few calls for the random rounds, which here begin at two driven inputs.
McSampledProblems ==
    {Call(c1, c2, m, 2) : c1 \in {Circuit1(Op("AND", 0), Op("XOR", 0), 0), Majority1(0)},
                       c2 \in {Circuit2(Op("AND", 1), Op("XOR", 0), s) : s \in {0, 1}}
                              \cup {Circuit2(Op("AND", 0), Op("XOR", 1), 0), Majority2(3)},
                       m \in Matches}
McAllProblems == McProblems \cup McSampledProblems
================================================================================
