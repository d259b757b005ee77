------------------------------- MODULE MCBusMatch ------------------------------
(* Three buses a side of two to five bits and quotas up to three.              *)
EXTENDS BusMatch

Triples == {s \in [1..3 -> 2..5] : s[1] <= s[2] /\ s[2] <= s[3]}
Circuit(b1, b2, n, sh) ==
    [bus1 |-> b1, bus2 |-> b2, inputs1 |-> 12, inputs2 |-> 12 + n, shared1 |-> 0, shared2 |-> sh]
McCircuits == {Circuit(b1, b2, n, sh) : b1 \in Triples, b2 \in Triples, n \in 1..2, sh \in 0..1}

\* The hypothesis under which the properties are proved holds of this instance.
ASSUME BusConditions == NoWrap
================================================================================
