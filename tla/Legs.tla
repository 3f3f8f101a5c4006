-------------------------------- MODULE Legs --------------------------------
(***************************************************************************)
(* Routing and the travel cache: engine/routing.py turns a validated draft *)
(* into days of legs, store/travel.py remembers the legs between POIs by   *)
(* source, and engine/assemble.py puts a clock on each day.                *)
(*                                                                         *)
(* Several plans are routed at once, by workers whose providers differ (a  *)
(* process without OSRM, one whose router answered in part or not at all). *)
(* They share the table, which each reads once and writes leg by leg.      *)
(*                                                                         *)
(* Places lie on a line; a leg takes as many minutes as it is long, and is *)
(* told apart by who measured it.                                          *)
(***************************************************************************)
EXTENDS Integers, Sequences, FiniteSets

CONSTANTS
    Stops, Stays,   \* POIs a draft visits and sleeps in
    Origin,         \* where the trip starts and ends; no POI
    Place,          \* Place[x]: the position of a POI or of the origin
    Duration,       \* minutes spent at a stop
    Runs,           \* plans being routed
    Matrices,       \* sets of pairs an OSRM table may have answered
    Tables,         \* what earlier plans may have left in travel_estimates
    Drafts,         \* validated drafts: for each day its stops and its bed, if any
    MaxPlans,       \* bound: plans begun
    DayStart, LateFinish, LastMinute,   \* of the clock: 09:00, 19:30, 23:59
    None

Pois == Stops \cup Stays
Pairs == (Pois \cup {Origin}) \X (Pois \cup {Origin})

DraftDay == [stops : Seq(Stops), bed : Stays \cup {None}]

ASSUME PlacesAssumption ==
    /\ Stops \cap Stays = {} /\ Origin \notin Pois /\ None \notin Pois \cup {Origin}
    /\ Place \in [Pois \cup {Origin} -> Int]
    /\ Duration \in [Stops -> Nat]
    /\ Matrices \subseteq SUBSET Pairs
    /\ Drafts \subseteq Seq(DraftDay)
    /\ MaxPlans \in Nat

ASSUME ClockAssumption ==
    /\ {DayStart, LateFinish, LastMinute} \subseteq Nat
    /\ DayStart <= LateFinish /\ LateFinish < LastMinute

\* TRAVEL_SOURCE_PREFERENCE, best first.  No provider of the code measures
\* "maps_api"; rows of it come from elsewhere.
Sources == {"maps_api", "osrm", "static_haversine"}
Rank(source) == CASE source = "maps_api" -> 0
                  [] source = "osrm" -> 1
                  [] source = "static_haversine" -> 2
Weakest(S) == IF S = {} THEN "static_haversine"
              ELSE CHOOSE s \in S : \A t \in S : Rank(t) <= Rank(s)

Row == [from : Pois, to : Pois, source : Sources]
SavedRow == {r \in Row : r.from # r.to}   \* CHECK (from_poi_id <> to_poi_id)

ASSUME TablesAssumption == Tables \subseteq SUBSET SavedRow /\ None \notin Sources

Leg == [from : Pois \cup {Origin}, to : Pois \cup {Origin}, source : Sources]

ASSUME NoneIsNoLeg == None \notin Leg

VARIABLES
    estimates,  \* the travel_estimates table
    run,        \* plan -> its routing
    plans       \* plans begun

vars == <<estimates, run, plans>>

\* Best source a set of rows has for a pair, or None.
Best(rows, a, b) ==
    LET S == {r.source : r \in {q \in rows : q.from = a /\ q.to = b}}
    IN  IF S = {} THEN None ELSE CHOOSE s \in S : \A t \in S : Rank(s) <= Rank(t)

Idle == [at |-> "idle", provider |-> "static_haversine", matrix |-> {}, read |-> {},
         cached |-> [p \in Pois \X Pois |-> None], computed |-> <<>>,
         draft |-> <<>>, cursor |-> Origin, last |-> None, todo |-> {}, bed |-> None,
         legs |-> <<>>, days |-> <<>>, back |-> None]

Init ==
    /\ estimates \in Tables
    /\ run = [r \in Runs |-> Idle]
    /\ plans = 0

-----------------------------------------------------------------------------
(* Measuring. *)

\* provider.leg: an OSRM provider answers from its warmed matrix, or for two
\* points with the same key, and else hands the estimate on under its own name.
Measured(r, a, b) ==
    IF run[r].provider = "osrm" /\ (Place[a] = Place[b] \/ <<a, b>> \in run[r].matrix)
    THEN "osrm" ELSE "static_haversine"

\* LegResolver.between; only legs between two POIs are looked up.
Hit(r, a, b) == a \in Pois /\ b \in Pois /\ run[r].cached[<<a, b>>] # None

LegOf(r, a, b) ==
    [from |-> a, to |-> b,
     source |-> IF Hit(r, a, b) THEN run[r].cached[<<a, b>>] ELSE Measured(r, a, b)]

\* Mutant of Remembered: what was measured is used again but never saved.
RememberedUnsaved(r, leg) ==
    IF ~Hit(r, leg.from, leg.to) /\ {leg.from, leg.to} \subseteq Pois /\ leg.from # leg.to
    THEN [run[r] EXCEPT !.cached[<<leg.from, leg.to>>] = leg.source]
    ELSE run[r]

\* What asking for that leg leaves behind in the resolver.
Remembered(r, leg) ==
    IF ~Hit(r, leg.from, leg.to) /\ {leg.from, leg.to} \subseteq Pois /\ leg.from # leg.to
    THEN [run[r] EXCEPT !.computed = Append(@, leg),
                        !.cached[<<leg.from, leg.to>>] = leg.source]
    ELSE run[r]

-----------------------------------------------------------------------------
(* One plan. *)

\* Retrieval is over, the provider built and, if it is OSRM, warmed.
Begin(r) ==
    /\ run[r].at = "idle"
    /\ plans < MaxPlans
    /\ plans' = plans + 1
    /\ \E provider \in {"osrm", "static_haversine"} :
       \E matrix \in IF provider = "osrm" THEN Matrices ELSE {{}}, draft \in Drafts :
          run' = [run EXCEPT ![r] = [Idle EXCEPT !.at = "load", !.provider = provider,
                                                 !.matrix = matrix, !.draft = draft]]
    /\ UNCHANGED estimates

\* Mutant of WorthReusing: any cached row will do.
WorthReusingAny(source, provider) == source # None

\* load_legs' floor, no_worse_than the provider's own source.
WorthReusing(source, provider) == source # None /\ Rank(source) <= Rank(provider)

LoadCachedLegs(r) ==
    /\ run[r].at = "load"
    /\ run' = [run EXCEPT ![r] = [@ EXCEPT
          !.at = "route", !.read = estimates,
          !.cached = [p \in Pois \X Pois |->
             LET best == Best(estimates, p[1], p[2])
             IN  IF WorthReusing(best, run[r].provider) THEN best ELSE None]]]
    /\ UNCHANGED <<estimates, plans>>

\* What a day's list has to be visited: the same stop twice is two visits.
Slots(day) == {<<i, day.stops[i]>> : i \in DOMAIN day.stops}

\* Mutant of BeginDay: every day starts from the origin.
BeginDayAtOrigin(r) ==
    /\ run[r].at = "route"
    /\ Len(run[r].days) < Len(run[r].draft)
    /\ LET day == run[r].draft[Len(run[r].days) + 1]
       IN  run' = [run EXCEPT ![r] = [@ EXCEPT !.at = "day", !.todo = Slots(day),
                                               !.bed = day.bed, !.cursor = Origin]]
    /\ UNCHANGED <<estimates, plans>>

\* The draft's next day.
BeginDay(r) ==
    /\ run[r].at = "route"
    /\ Len(run[r].days) < Len(run[r].draft)
    /\ LET day == run[r].draft[Len(run[r].days) + 1]
       IN  run' = [run EXCEPT ![r] = [@ EXCEPT !.at = "day", !.todo = Slots(day),
                                               !.bed = day.bed]]
    /\ UNCHANGED <<estimates, plans>>

Length(a, b) == IF Place[a] < Place[b] THEN Place[b] - Place[a] ELSE Place[a] - Place[b]

\* _order_by_proximity: the nearest of what is left, from where one stands.
Nearest(r) ==
    {s \in run[r].todo :
        \A t \in run[r].todo : Length(run[r].cursor, s[2]) <= Length(run[r].cursor, t[2])}

Visit(r) ==
    /\ run[r].at = "day"
    /\ \E s \in Nearest(r) :
          LET leg == LegOf(r, run[r].cursor, s[2])
          IN  run' = [run EXCEPT ![r] = [Remembered(r, leg) EXCEPT
                 !.cursor = s[2], !.last = s[2], !.todo = @ \ {s}, !.legs = Append(@, leg)]]
    /\ UNCHANGED <<estimates, plans>>

\* Mutant of DaySource: the items decide, the way to the bed does not.
DaySourceOfItems(legs) == Weakest({legs[i].source : i \in {k \in DOMAIN legs : legs[k].to \in Stops}})

\* day_sources, over every leg of the day.
DaySource(legs) == Weakest({legs[i].source : i \in DOMAIN legs})

Day(legs) == [legs |-> legs, source |-> DaySource(legs)]

Closed(m, legs) ==
    [m EXCEPT !.at = "route", !.days = Append(m.days, Day(legs)), !.legs = <<>>]

\* The drive to the night's bed belongs to the day.
EndDay(r) ==
    /\ run[r].at = "day"
    /\ run[r].todo = {}
    /\ IF run[r].bed = None
       THEN run' = [run EXCEPT ![r] = Closed(run[r], run[r].legs)]
       ELSE LET leg == LegOf(r, run[r].cursor, run[r].bed)
                closed == Closed(Remembered(r, leg), Append(run[r].legs, leg))
            IN  run' = [run EXCEPT ![r] =
                   [closed EXCEPT !.cursor = leg.to, !.last = leg.to, !.bed = None]]
    /\ UNCHANGED <<estimates, plans>>

\* Home again, from wherever the last day ended; a plan of nothing has no way back.
Return(r) ==
    /\ run[r].at = "route"
    /\ Len(run[r].days) = Len(run[r].draft)
    /\ run' = [run EXCEPT ![r] = [@ EXCEPT !.at = "save",
          !.back = IF run[r].last = None THEN None
                   ELSE [from |-> run[r].cursor, to |-> Origin,
                         source |-> Measured(r, run[r].cursor, Origin)]]]
    /\ UNCHANGED <<estimates, plans>>

\* Mutant of Upserted: the key is the pair alone.
UpsertedByPair(leg) ==
    {q \in estimates : q.from # leg.from \/ q.to # leg.to} \cup {leg}

\* ON CONFLICT (from, to, source): another source's row stays beside it.
Upserted(leg) == estimates \cup {leg}

\* persist_computed_legs: one statement for each leg, in the order computed.
SaveLeg(r) ==
    /\ run[r].at = "save"
    /\ run[r].computed # <<>>
    /\ estimates' = Upserted(Head(run[r].computed))
    /\ run' = [run EXCEPT ![r].computed = Tail(@)]
    /\ UNCHANGED plans

Done(r) ==
    /\ run[r].at = "save"
    /\ run[r].computed = <<>>
    /\ run' = [run EXCEPT ![r].at = "assembled"]
    /\ UNCHANGED <<estimates, plans>>

\* The plan is stored, or its worker died or failed: what was saved stays saved.
Leave(r) ==
    /\ run[r].at # "idle"
    /\ run' = [run EXCEPT ![r] = Idle]
    /\ UNCHANGED <<estimates, plans>>

Next == \E r \in Runs :
    \/ Begin(r) \/ LoadCachedLegs(r) \/ BeginDay(r) \/ Visit(r) \/ EndDay(r)
    \/ Return(r) \/ SaveLeg(r) \/ Done(r) \/ Leave(r)

Spec == Init /\ [][Next]_vars

-----------------------------------------------------------------------------
(* The clock of a day (assemble). *)

DayStops(legs) == {i \in DOMAIN legs : legs[i].to \in Stops}

\* The cursor after the i-th leg and the stop at its end.
Cursor(legs) ==
    LET at[i \in 0 .. Len(legs)] ==
          IF i = 0 THEN DayStart
          ELSE at[i - 1] + Length(legs[i].from, legs[i].to)
                 + (IF legs[i].to \in Stops THEN Duration[legs[i].to] ELSE 0)
    IN  at

Start(legs, i) == Cursor(legs)[i - 1] + Length(legs[i].from, legs[i].to)

\* Mutant of Shown: past midnight the clock starts again.
ShownWrapped(minutes) == minutes % (LastMinute + 1)

\* _fmt_hhmm: clamped to the day.
Shown(minutes) == IF minutes > LastMinute THEN LastMinute ELSE minutes

\* Warned when the clock, after the last stop, is past LateFinish.
Warned(legs) ==
    \E i \in DayStops(legs) :
        /\ \A k \in DayStops(legs) : k <= i
        /\ Cursor(legs)[i] > LateFinish

-----------------------------------------------------------------------------
(* Properties. *)

RunState ==
    [at : {"idle", "load", "route", "day", "save", "assembled"},
     provider : Sources, matrix : SUBSET Pairs, read : SUBSET Row,
     cached : [Pois \X Pois -> Sources \cup {None}], computed : Seq(SavedRow),
     draft : Seq(DraftDay), cursor : Pois \cup {Origin}, last : Pois \cup {None},
     todo : SUBSET (Nat \X Stops), bed : Stays \cup {None}, legs : Seq(Leg),
     days : Seq([legs : Seq(Leg), source : Sources]), back : Leg \cup {None}]

TypeOK ==
    /\ estimates \subseteq SavedRow
    /\ run \in [Runs -> RunState]
    /\ plans \in 0 .. MaxPlans

InSeq(s) == {s[i] : i \in DOMAIN s}

\* The legs of a plan so far.
LegsOf(r) == InSeq(run[r].legs) \cup UNION {InSeq(d.legs) : d \in InSeq(run[r].days)}

\* The same, in the order they are driven.
Trail(r) ==
    LET upTo[d \in 0 .. Len(run[r].days)] ==
          IF d = 0 THEN <<>> ELSE upTo[d - 1] \o run[r].days[d].legs
    IN  upTo[Len(run[r].days)] \o run[r].legs

\* No leg of a plan is weaker than the best row the table had for it when the
\* plan was routed, nor than what the plan's own provider can measure: an old
\* estimate does not outlive the switch to a better provider, and a better row
\* is not thrown away by a worse one (store/travel.py, no_worse_than).
NoWorseThanKnown ==
    \A r \in Runs : \A leg \in LegsOf(r) :
        LET known == Best(run[r].read, leg.from, leg.to)
        IN  /\ Rank(leg.source) <= Rank(Measured(r, leg.from, leg.to))
            /\ known # None => Rank(leg.source) <= Rank(known)

\* Whatever is saved, and in whatever order the plans of a good and of a bad
\* provider save, the best row of a pair never gets worse (migration 001, note 4).
BestRowSurvives ==
    [][\A p \in Pois \X Pois :
          LET old == Best(estimates, p[1], p[2])
          IN  old # None => /\ Best(estimates', p[1], p[2]) # None
                            /\ Rank(Best(estimates', p[1], p[2])) <= Rank(old)]_vars

\* One goes on from where one is: every leg starts where the one before it
\* ended, over the nights too, the first at the origin and the last back there.
TripIsContinuous ==
    \A r \in Runs :
        LET legs == IF run[r].back = None THEN Trail(r) ELSE Append(Trail(r), run[r].back)
        IN  /\ \A i \in DOMAIN legs : legs[i].from = IF i = 1 THEN Origin ELSE legs[i - 1].to
            /\ run[r].at \in {"save", "assembled"} /\ legs # <<>> => legs[Len(legs)].to = Origin

\* A day claims no better source than its worst leg, the approach and the drive
\* to the bed included.
DayIsItsWeakestLeg ==
    \A r \in Runs : \A d \in DOMAIN run[r].days :
        LET day == run[r].days[d]
        IN  \A i \in DOMAIN day.legs : Rank(day.legs[i].source) <= Rank(day.source)

\* The times shown of a day never run backwards, and a time that is late, or
\* not the real one because it lies past midnight, comes with a warning.
ClockIsHonest ==
    \A r \in Runs : \A d \in DOMAIN run[r].days :
        LET legs == run[r].days[d].legs
        IN  \A i \in DayStops(legs) :
              /\ \A k \in DayStops(legs) :
                    k < i => Shown(Start(legs, k)) <= Shown(Start(legs, i))
              /\ (Shown(Start(legs, i)) # Start(legs, i) \/ Start(legs, i) > LateFinish)
                    => Warned(legs)

\* A plan that was assembled has left a row at least as good as each leg it
\* used: what is known of a leg does not leave with the plan.  (A leg that an OSRM
\* plan could only estimate is saved as an estimate; the floor of load_legs keeps
\* the next OSRM plan from reusing it.)
RoutedIsRemembered ==
    \A r \in Runs : run[r].at = "assembled" =>
        \A leg \in LegsOf(r) : ({leg.from, leg.to} \subseteq Pois /\ leg.from # leg.to) =>
            /\ Best(estimates, leg.from, leg.to) # None
            /\ Rank(Best(estimates, leg.from, leg.to)) <= Rank(leg.source)
=============================================================================
