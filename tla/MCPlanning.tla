----------------------------- MODULE MCPlanning -----------------------------
(* A small instance of Planning for TLC: two places, an activity, a stay and a *)
(* town on a line, two districts, two months and two budget bands.             *)
EXTENDS Planning

\* Each POI has the facts of the file as first loaded and those of a later one.
MCFacts ==
    [p \in {"fort", "fall", "trek", "inn"} |->
        CASE p = "fort" ->
              {[kind |-> "place", district |-> "d1", at |-> 0, band |-> 0,
                months |-> {1, 2}, tags |-> {"heritage"}],
               [kind |-> "place", district |-> "d1", at |-> 3, band |-> 2,
                months |-> {2}, tags |-> {}]}
          [] p = "fall" ->
              {[kind |-> "place", district |-> "d1", at |-> 1, band |-> 1,
                months |-> {1}, tags |-> {"water"}],
               [kind |-> "place", district |-> "d2", at |-> 3, band |-> 1,
                months |-> {1, 2}, tags |-> {"water", "heritage"}]}
          [] p = "trek" ->
              {[kind |-> "activity", district |-> "d1", at |-> 1, band |-> 2,
                months |-> {1}, tags |-> {"heritage", "water"}],
               [kind |-> "stay", district |-> "d1", at |-> 1, band |-> 1,
                months |-> {1, 2}, tags |-> {}]}
          [] p = "inn" ->
              {[kind |-> "stay", district |-> "d1", at |-> 1, band |-> 1,
                months |-> {1, 2}, tags |-> {}]}]

MCTownFact == [t \in {"town"} |-> [district |-> "d1", at |-> 1]]

Shape == [days : 1 .. 2, band : Bands, month : Months]
Asked(mode, tags, district, anchor, radius, s) ==
    [mode |-> mode, tags |-> tags, district |-> district, anchor |-> anchor,
     radius |-> radius, days |-> s.days, band |-> s.band, month |-> s.month]

\* What the wizard sends in each mode, and what another caller may.
MCForms ==
    {Asked("interest", T, "d1", None, None, s) :
        T \in {{"heritage"}, {"water", "unknown"}}, s \in Shape}
    \cup {Asked("district", T, "d1", None, None, s) : T \in {{}, {"water"}}, s \in Shape}
    \cup {Asked("location", {}, "d2", a, 1, s) : a \in {"fort", "town"}, s \in Shape}
    \cup {Asked(m, {}, d, a, None, [days |-> 1, band |-> 1, month |-> None]) :
            m \in Modes, d \in {None, "nowhere", "d2"}, a \in {None, "nowhere", "town"}}
=============================================================================
