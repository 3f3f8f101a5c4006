------------------------------- MODULE MCGreedy -------------------------------
(* Candidate sets for TLC: up to three stops in one or two taluks, with and *)
(* without a stay, of two weights and two lengths.                          *)
EXTENDS Greedy

CONSTANTS p1, p2, p3, p4, s1, a, b

Stop(g, m, w, again) ==
    [kind |-> "place", region |-> g, minutes |-> m, weight |-> w, repeatable |-> again]
Bed == [kind |-> "stay", region |-> a, minutes |-> 0, weight |-> 0, repeatable |-> FALSE]

\* A stop without a duration, and a long one: two of those overfill a day.
Pools(places, minutes, weights) ==
    [places -> {Stop(g, m, w, again) :
                   g \in {a, b}, m \in minutes, w \in weights, again \in BOOLEAN}]
WithBed(c) == [r \in DOMAIN c \cup {s1} |-> IF r = s1 THEN Bed ELSE c[r]]

MCMixed ==
    LET bare == Pools({p1, p2, p3}, {0, 300}, {1, 2}) \cup Pools({p1}, {0}, {1})
    IN  bare \cup {WithBed(c) : c \in bare}

MCShort ==
    {[r \in places |-> Stop(IF r \in inA THEN a ELSE b, 120, 1, FALSE)] :
        places \in {{p1, p2}, {p1, p2, p3}, {p1, p2, p3, p4}}, inA \in SUBSET {p1, p2, p3, p4}}
=============================================================================
