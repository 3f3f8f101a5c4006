------------------------------ MODULE MCPipeline ------------------------------
(* Two days over two places and a stay, one ref the model invents, and every *)
(* way a small draft can break a rule.                                       *)
EXTENDS Pipeline

CONSTANTS p1, p2, s1, invented, region

Place(again) ==
    [kind |-> "place", region |-> region, minutes |-> 300, weight |-> 1, repeatable |-> again]
Bed == [kind |-> "stay", region |-> region, minutes |-> 0, weight |-> 0, repeatable |-> FALSE]

MCCandidates ==
    {[r \in {} |-> Bed],
     [r \in {p1, p2} |-> Place(FALSE)],
     [r \in {p1, p2, s1} |-> IF r = s1 THEN Bed ELSE Place(r = p1)]}

SmallDays ==
    [number : {1, 2}, stay : {NoRef, s1, p1},
     items : {<<>>, <<p1>>, <<p2>>, <<p1, p1>>, <<s1>>, <<p1, invented>>}]
MCDrafts ==
    {<<d>> : d \in SmallDays} \cup {<<d, e>> : d \in SmallDays, e \in SmallDays}
    \cup {<<d, d, d>> : d \in SmallDays}
=============================================================================
