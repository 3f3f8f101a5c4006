------------------------------- MODULE MCLegs -------------------------------
(* A small instance of Legs for TLC: two stops and a bed on a line. *)
EXTENDS Legs, TLC

MCPlace == [p \in {"home", "fort", "fall", "inn"} |->
              CASE p = "home" -> 0 [] p = "fort" -> 2 [] p = "fall" -> 3 [] p = "inn" -> 2]
MCDuration == [p \in {"fort", "fall"} |-> 2]

\* The router was not reached, answered all of it, or could not connect some places.
MCMatrices == {{}, Pairs, Pairs \ {<<"fort", "fall">>, <<"home", "fall">>}}

MCRow(a, b, source) == [from |-> a, to |-> b, source |-> source]

\* Nothing, or rows of each source: an estimate, an estimate that was measured
\* since, and one better than any provider's.
MCTables ==
    {{},
     {MCRow("fort", "fall", "static_haversine"),
      MCRow("inn", "fall", "static_haversine"), MCRow("inn", "fall", "osrm"),
      MCRow("fall", "inn", "maps_api")}}

\* Both stops in one day and an idle day after it; a stop a day around a bed; a
\* first night without a bed; a stop twice in a day; days of driving only, a bed kept
\* for two nights; nothing at all.
MCDay(stops, bed) == [stops |-> stops, bed |-> bed]
MCDrafts ==
    {<<MCDay(<<"fort", "fall">>, "inn"), MCDay(<<>>, None)>>,
     <<MCDay(<<"fort">>, "inn"), MCDay(<<"fall">>, None)>>,
     <<MCDay(<<"fall">>, None), MCDay(<<"fort">>, "inn")>>,
     <<MCDay(<<>>, "inn"), MCDay(<<"fort", "fall">>, "inn")>>,
     <<MCDay(<<>>, "inn"), MCDay(<<>>, "inn")>>,
     <<MCDay(<<"fall", "fall">>, "inn")>>,
     <<MCDay(<<>>, None)>>}

Symmetry == Permutations(Runs)
=============================================================================
