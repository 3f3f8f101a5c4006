----------------------------- MODULE Legs_proofs -----------------------------
(***************************************************************************)
(* Proofs about Legs, for any places, drafts and tables, and any number of *)
(* plans routed at once.  One invariant says of each plan that every leg   *)
(* it holds, in its days or in its cache, is no worse than what it read or *)
(* could measure, and is in the table or about to be written; another that *)
(* the legs of its days, joined, are one way.  What is said of the legs up *)
(* to a position, and of the clock there, is proved by counting up to it.  *)
(***************************************************************************)
EXTENDS Legs, SequenceTheorems, WellFoundedInduction, TLAPS

-----------------------------------------------------------------------------
(* Sources and the best of them. *)

LEMMA RankOf == /\ Rank("maps_api") = 0
                /\ Rank("osrm") = 1
                /\ Rank("static_haversine") = 2
<1> QED
  BY DEF Rank

LEMMA RankIsNat == \A s \in Sources : Rank(s) \in 0 .. 2
<1> QED
  BY RankOf DEF Sources

\* Of some sources there is a best and a worst.
LEMMA Extremes ==
    ASSUME NEW S \in SUBSET Sources, S # {}
    PROVE  /\ \E s \in S : \A t \in S : Rank(s) <= Rank(t)
           /\ \E s \in S : \A t \in S : Rank(t) <= Rank(s)
<1>1. \E s \in S : \A t \in S : Rank(s) <= Rank(t)
  <2>1. CASE "maps_api" \in S
    BY <2>1, RankOf, RankIsNat
  <2>2. CASE "maps_api" \notin S /\ "osrm" \in S
    BY <2>2, RankOf DEF Sources
  <2>3. CASE "maps_api" \notin S /\ "osrm" \notin S
    <3>1. S = {"static_haversine"}
      BY <2>3 DEF Sources
    <3> QED
      BY <3>1, RankOf
  <2> QED
    BY <2>1, <2>2, <2>3
<1>2. \E s \in S : \A t \in S : Rank(t) <= Rank(s)
  <2>1. CASE "static_haversine" \in S
    BY <2>1, RankOf, RankIsNat
  <2>2. CASE "static_haversine" \notin S /\ "osrm" \in S
    BY <2>2, RankOf DEF Sources
  <2>3. CASE "static_haversine" \notin S /\ "osrm" \notin S
    <3>1. S = {"maps_api"}
      BY <2>3 DEF Sources
    <3> QED
      BY <3>1, RankOf
  <2> QED
    BY <2>1, <2>2, <2>3
<1> QED
  BY <1>1, <1>2

\* Best is the best source of the rows of its pair, if there are any.
LEMMA BestIs ==
    ASSUME NEW rows \in SUBSET Row, NEW a, NEW b
    PROVE  /\ Best(rows, a, b) \in Sources \cup {None}
           /\ Best(rows, a, b) # None =>
                \E q \in rows : q.from = a /\ q.to = b /\ q.source = Best(rows, a, b)
           /\ \A q \in rows : (q.from = a /\ q.to = b) =>
                Best(rows, a, b) # None /\ Rank(Best(rows, a, b)) <= Rank(q.source)
<1> DEFINE S == {q.source : q \in {p \in rows : p.from = a /\ p.to = b}}
<1>1. S \in SUBSET Sources
  BY DEF Row
<1>2. CASE S = {}
  <2>1. Best(rows, a, b) = None
    BY <1>2 DEF Best
  <2>2. ~\E q \in rows : q.from = a /\ q.to = b
    BY <1>2
  <2> QED
    BY <2>1, <2>2
<1>3. CASE S # {}
  <2>1. Best(rows, a, b) = CHOOSE s \in S : \A t \in S : Rank(s) <= Rank(t)
    BY <1>3 DEF Best
  <2>2. Best(rows, a, b) \in S /\ \A t \in S : Rank(Best(rows, a, b)) <= Rank(t)
    <3>1. \E s \in S : \A t \in S : Rank(s) <= Rank(t)
      BY <1>1, <1>3, Extremes
    <3> HIDE DEF S
    <3> QED
      BY <2>1, <3>1
  <2>3. Best(rows, a, b) \in Sources /\ Best(rows, a, b) # None
    <3> HIDE DEF S
    <3> QED
      BY <1>1, <2>2, TablesAssumption
  <2> QED
    BY <2>2, <2>3
<1> QED
  BY <1>2, <1>3

\* More rows make the best no worse.
LEMMA BestGrows ==
    ASSUME NEW new \in SUBSET Row, NEW old \in SUBSET new, NEW a, NEW b,
           Best(old, a, b) # None
    PROVE  Best(new, a, b) # None /\ Rank(Best(new, a, b)) <= Rank(Best(old, a, b))
<1>1. PICK q \in old : q.from = a /\ q.to = b /\ q.source = Best(old, a, b)
  BY BestIs
<1> QED
  BY <1>1, BestIs

LEMMA WeakestIs ==
    ASSUME NEW S \in SUBSET Sources
    PROVE  Weakest(S) \in Sources /\ \A s \in S : Rank(s) <= Rank(Weakest(S))
<1>1. CASE S = {}
  BY <1>1 DEF Weakest, Sources
<1>2. CASE S # {}
  <2>1. \E s \in S : \A t \in S : Rank(t) <= Rank(s)
    BY <1>2, Extremes
  <2>2. Weakest(S) = CHOOSE s \in S : \A t \in S : Rank(t) <= Rank(s)
    BY <1>2 DEF Weakest
  <2> QED
    BY <2>1, <2>2
<1> QED
  BY <1>1, <1>2

\* A day is no better than any of its legs.
LEMMA DayIsTyped ==
    ASSUME NEW legs \in Seq(Leg)
    PROVE  /\ Day(legs) \in [legs : Seq(Leg), source : Sources]
           /\ Day(legs).legs = legs
           /\ \A i \in DOMAIN legs : Rank(legs[i].source) <= Rank(Day(legs).source)
<1> DEFINE S == {legs[i].source : i \in DOMAIN legs}
<1>1. S \in SUBSET Sources
  <2>1. \A i \in DOMAIN legs : legs[i] \in Leg
    OBVIOUS
  <2>2. \A l \in Leg : l.source \in Sources
    BY DEF Leg
  <2> QED
    BY <2>1, <2>2
<1>2. DaySource(legs) \in Sources /\ \A s \in S : Rank(s) <= Rank(DaySource(legs))
  BY <1>1, WeakestIs DEF DaySource
<1> QED
  BY <1>2 DEF Day

-----------------------------------------------------------------------------
(* What a plan holds. *)

\* Measured, of a plan's state.
MeasuredBy(s, a, b) ==
    IF s.provider = "osrm" /\ (Place[a] = Place[b] \/ <<a, b>> \in s.matrix)
    THEN "osrm" ELSE "static_haversine"

\* A leg is no worse than what the plan could measure or had read.
Sound(s, leg) ==
    /\ Rank(leg.source) <= Rank(MeasuredBy(s, leg.from, leg.to))
    /\ Best(s.read, leg.from, leg.to) # None =>
         Rank(leg.source) <= Rank(Best(s.read, leg.from, leg.to))

\* A leg has a row as good as it, or is still to be saved.
Kept(rows, s, leg) ==
    \/ \E q \in rows : q.from = leg.from /\ q.to = leg.to /\ Rank(q.source) <= Rank(leg.source)
    \/ \E i \in DOMAIN s.computed : s.computed[i] = leg

Between(leg) == {leg.from, leg.to} \subseteq Pois /\ leg.from # leg.to

LegSet(s) == InSeq(s.legs) \cup UNION {InSeq(d.legs) : d \in InSeq(s.days)}

CachedLeg(s, a, b) == [from |-> a, to |-> b, source |-> s.cached[<<a, b>>]]

Weak(d) == \A i \in DOMAIN d.legs : Rank(d.legs[i].source) <= Rank(d.source)

PlanOK(rows, s) ==
    /\ s.provider \in {"osrm", "static_haversine"}
    /\ \A leg \in LegSet(s) : Sound(s, leg) /\ (Between(leg) => Kept(rows, s, leg))
    /\ \A a, b \in Pois :
         IF s.cached[<<a, b>>] = None
         THEN Best(s.read, a, b) # None => Rank(Best(s.read, a, b)) > Rank(s.provider)
         ELSE Sound(s, CachedLeg(s, a, b)) /\ Kept(rows, s, CachedLeg(s, a, b))
    /\ \A d \in InSeq(s.days) : Weak(d)
    /\ s.at = "assembled" => s.computed = <<>>
    /\ s.at = "load" => s.legs = <<>> /\ s.days = <<>>

LInv == TypeOK /\ \A r \in Runs : PlanOK(estimates, run[r])

LEMMA InSeqAppend ==
    ASSUME NEW S, NEW s \in Seq(S), NEW x \in S
    PROVE  InSeq(Append(s, x)) = InSeq(s) \cup {x}
<1>1. DOMAIN Append(s, x) = 1 .. Len(s) + 1 /\ DOMAIN s = 1 .. Len(s) /\ Len(s) \in Nat
  OBVIOUS
<1>2. \A i \in DOMAIN s : Append(s, x)[i] = s[i]
  OBVIOUS
<1>3. Append(s, x)[Len(s) + 1] = x
  OBVIOUS
<1> QED
  BY <1>1, <1>2, <1>3 DEF InSeq

LEMMA InSeqIn ==
    ASSUME NEW S, NEW s \in Seq(S)
    PROVE  InSeq(s) \subseteq S
<1>1. \A i \in DOMAIN s : s[i] \in S
  OBVIOUS
<1> QED
  BY <1>1 DEF InSeq

LEMMA TailIs ==
    ASSUME NEW S, NEW s \in Seq(S), NEW i \in DOMAIN s, i # 1
    PROVE  i - 1 \in DOMAIN Tail(s) /\ Tail(s)[i - 1] = s[i]
<1>1. s # <<>> /\ i \in 2 .. Len(s) /\ Len(s) \in Nat
  OBVIOUS
<1>2. DOMAIN Tail(s) = 1 .. Len(s) - 1
  BY <1>1
<1>3. \A j \in 1 .. Len(s) - 1 : Tail(s)[j] = s[j + 1]
  BY <1>1
<1> QED
  BY <1>1, <1>2, <1>3

\* Rows that are added take nothing from a plan.
LEMMA MoreRows ==
    ASSUME NEW old, NEW new, old \subseteq new, NEW s, PlanOK(old, s)
    PROVE  PlanOK(new, s)
<1>1. \A leg : Kept(old, s, leg) => Kept(new, s, leg)
  BY DEF Kept
<1> QED
  BY <1>1 DEF PlanOK

\* A plan that goes on with legs it may use, and closes days as good as those,
\* is still in order.
LEMMA GoesOn ==
    ASSUME NEW rows, NEW m, NEW s, PlanOK(rows, m),
           s.provider = m.provider, s.matrix = m.matrix, s.read = m.read,
           s.cached = m.cached, s.computed = m.computed,
           \A l \in LegSet(s) : \/ l \in LegSet(m)
                                \/ Sound(m, l) /\ (Between(l) => Kept(rows, m, l)),
           \A d \in InSeq(s.days) : d \in InSeq(m.days) \/ Weak(d),
           s.at = "assembled" => s.computed = <<>>,
           s.at # "load"
    PROVE  PlanOK(rows, s)
<1>1. \A l : Sound(m, l) => Sound(s, l)
  BY DEF Sound, MeasuredBy
<1>2. \A l : Kept(rows, m, l) => Kept(rows, s, l)
  BY DEF Kept
<1>3. \A a, b : CachedLeg(s, a, b) = CachedLeg(m, a, b)
  BY DEF CachedLeg
<1> QED
  BY <1>1, <1>2, <1>3 DEF PlanOK

\* A plan that has not begun holds nothing.
LEMMA IdleIsOK ==
    ASSUME NEW rows
    PROVE  Idle \in RunState /\ PlanOK(rows, Idle) /\ LegSet(Idle) = {}
<1>1. Idle \in RunState
  BY DEF Idle, RunState, Sources
<1>2. LegSet(Idle) = {} /\ InSeq(Idle.days) = {}
  BY DEF LegSet, InSeq, Idle
<1>3. \A a, b \in Pois : Idle.cached[<<a, b>>] = None /\ Best(Idle.read, a, b) = None
  <2>1. Idle.read = {}
    BY DEF Idle
  <2>2. \A a, b : Best({}, a, b) = None
    BY BestIs
  <2> QED
    BY <2>1, <2>2 DEF Idle
<1>4. Idle.provider = "static_haversine" /\ Idle.at = "idle"
  BY DEF Idle
<1> QED
  BY <1>1, <1>2, <1>3, <1>4 DEF PlanOK

-----------------------------------------------------------------------------
(* Asking for a leg. *)

\* Measuring is at least as good as any row that was not worth reusing.
LEMMA MeasuringIsSound ==
    ASSUME NEW s \in RunState, NEW a \in Pois \cup {Origin}, NEW b \in Pois \cup {Origin},
           s.provider \in {"osrm", "static_haversine"},
           Best(s.read, a, b) # None => Rank(Best(s.read, a, b)) > Rank(s.provider)
    PROVE  Sound(s, [from |-> a, to |-> b, source |-> MeasuredBy(s, a, b)])
<1> DEFINE leg == [from |-> a, to |-> b, source |-> MeasuredBy(s, a, b)]
<1>1. MeasuredBy(s, a, b) \in Sources
  BY DEF MeasuredBy, Sources
<1>2. Best(s.read, a, b) # None => Best(s.read, a, b) \in Sources
  <2>1. s.read \in SUBSET Row
    BY DEF RunState
  <2> QED
    BY <2>1, BestIs
<1>3. Best(s.read, a, b) # None => Rank(MeasuredBy(s, a, b)) <= Rank(Best(s.read, a, b))
  BY <1>2, RankOf DEF MeasuredBy, Sources
<1>4. Rank(MeasuredBy(s, a, b)) <= Rank(MeasuredBy(s, a, b))
  BY <1>1, RankIsNat
<1> QED
  BY <1>3, <1>4 DEF Sound

\* The leg a plan is given may be used by it, and what is remembered is in order.
LEMMA AskIsOK ==
    ASSUME TypeOK, NEW r \in Runs, PlanOK(estimates, run[r]), run[r].at \notin {"assembled", "load"},
           NEW a \in Pois \cup {Origin}, NEW b \in Pois \cup {Origin}
    PROVE  LET leg == LegOf(r, a, b)
               m == Remembered(r, leg)
           IN  /\ leg \in Leg /\ leg.from = a /\ leg.to = b
               /\ m \in RunState /\ PlanOK(estimates, m)
               /\ Sound(m, leg) /\ (Between(leg) => Kept(estimates, m, leg))
               /\ m.legs = run[r].legs /\ m.days = run[r].days /\ m.at = run[r].at
<1> DEFINE s == run[r]
           leg == LegOf(r, a, b)
           m == Remembered(r, leg)
<1>0. s \in RunState
  BY DEF TypeOK
<1>1. Measured(r, a, b) = MeasuredBy(s, a, b) /\ Measured(r, a, b) \in Sources
  BY DEF Measured, MeasuredBy, Sources
<1>2. Hit(r, a, b) => s.cached[<<a, b>>] \in Sources
  BY <1>0 DEF Hit, RunState
<1>3. leg \in Leg /\ leg.from = a /\ leg.to = b
  BY <1>1, <1>2 DEF LegOf, Leg
<1>4. CASE Hit(r, a, b)
  <2>1. m = s
    BY <1>3, <1>4 DEF Remembered
  <2>2. leg = CachedLeg(s, a, b) /\ s.cached[<<a, b>>] # None /\ a \in Pois /\ b \in Pois
    BY <1>4 DEF LegOf, Hit, CachedLeg
  <2>3. Sound(s, leg) /\ Kept(estimates, s, leg)
    BY <2>2 DEF PlanOK
  <2> QED
    BY <1>0, <1>3, <2>1, <2>3
<1>5. CASE ~Hit(r, a, b)
  <2>1. leg = [from |-> a, to |-> b, source |-> MeasuredBy(s, a, b)]
    BY <1>1, <1>5 DEF LegOf
  <2>2. Best(s.read, a, b) # None => Rank(Best(s.read, a, b)) > Rank(s.provider)
    <3>1. CASE a \in Pois /\ b \in Pois
      BY <1>5, <3>1 DEF Hit, PlanOK
    <3>2. CASE ~(a \in Pois /\ b \in Pois)
      <4>1. s.read \in SUBSET Row
        BY <1>0 DEF RunState
      <4>2. \A q \in s.read : q.from \in Pois /\ q.to \in Pois
        BY <4>1 DEF Row
      <4> QED
        BY <3>2, <4>1, <4>2, BestIs
    <3> QED
      BY <3>1, <3>2
  <2>3. Sound(s, leg)
    BY <1>0, <2>1, <2>2, MeasuringIsSound DEF PlanOK
  <2>4. CASE ~Between(leg)
    <3>1. m = s
      BY <2>4, <1>3 DEF Between, Remembered
    <3> QED
      BY <1>0, <1>3, <2>3, <2>4, <3>1
  <2>5. CASE Between(leg)
    <3>1. a \in Pois /\ b \in Pois /\ leg \in SavedRow
      BY <1>3, <2>5 DEF Between, SavedRow, Row, Leg
    <3>2. m = [s EXCEPT !.computed = Append(@, leg), !.cached[<<a, b>>] = leg.source]
      BY <1>3, <1>5, <2>5 DEF Remembered, Between
    <3>3. /\ m.provider = s.provider /\ m.matrix = s.matrix /\ m.read = s.read
          /\ m.legs = s.legs /\ m.days = s.days /\ m.at = s.at
          /\ m.computed = Append(s.computed, leg)
          /\ m.cached = [s.cached EXCEPT ![<<a, b>>] = leg.source]
      BY <1>0, <3>2 DEF RunState
    <3>4. m \in RunState
      <4>1. Append(s.computed, leg) \in Seq(SavedRow)
        BY <1>0, <3>1 DEF RunState
      <4>2. [s.cached EXCEPT ![<<a, b>>] = leg.source]
              \in [Pois \X Pois -> Sources \cup {None}]
        BY <1>0, <1>3 DEF RunState, Leg
      <4> QED
        BY <1>0, <3>2, <4>1, <4>2 DEF RunState
    <3>5. \A l : Kept(estimates, s, l) => Kept(estimates, m, l)
      <4>1. s.computed \in Seq(SavedRow)
        BY <1>0 DEF RunState
      <4>2. \A i \in DOMAIN s.computed : /\ i \in DOMAIN Append(s.computed, leg)
                                         /\ Append(s.computed, leg)[i] = s.computed[i]
        BY <4>1, <3>1
      <4> QED
        BY <4>2, <3>3 DEF Kept
    <3>6. Kept(estimates, m, leg)
      <4>1. s.computed \in Seq(SavedRow)
        BY <1>0 DEF RunState
      <4>2. /\ Len(s.computed) + 1 \in DOMAIN Append(s.computed, leg)
            /\ Append(s.computed, leg)[Len(s.computed) + 1] = leg
        BY <4>1, <3>1
      <4> QED
        BY <4>2, <3>3 DEF Kept
    <3>7. \A l : Sound(s, l) => Sound(m, l)
      BY <3>3 DEF Sound, MeasuredBy
    <3>8. LegSet(m) = LegSet(s)
      BY <3>3 DEF LegSet
    <3>9. ASSUME NEW x \in Pois, NEW y \in Pois
          PROVE  IF m.cached[<<x, y>>] = None
                 THEN Best(m.read, x, y) # None => Rank(Best(m.read, x, y)) > Rank(m.provider)
                 ELSE Sound(m, CachedLeg(m, x, y)) /\ Kept(estimates, m, CachedLeg(m, x, y))
      <4>1. s.cached \in [Pois \X Pois -> Sources \cup {None}]
        BY <1>0 DEF RunState
      <4>2. CASE x = a /\ y = b
        <5>1. m.cached[<<x, y>>] = leg.source /\ leg.source # None
          BY <4>1, <4>2, <3>1, <3>3, <1>3, TablesAssumption DEF Leg
        <5>2. CachedLeg(m, x, y) = leg
          BY <5>1, <4>2, <2>1 DEF CachedLeg
        <5> QED
          BY <5>1, <5>2, <2>3, <3>6, <3>7
      <4>3. CASE ~(x = a /\ y = b)
        <5>1. m.cached[<<x, y>>] = s.cached[<<x, y>>]
          BY <4>1, <4>3, <3>3
        <5>2. CachedLeg(m, x, y) = CachedLeg(s, x, y)
          BY <5>1 DEF CachedLeg
        <5> QED
          BY <5>1, <5>2, <3>3, <3>5, <3>7 DEF PlanOK
      <4> QED
        BY <4>2, <4>3
    <3>10. PlanOK(estimates, m)
      <4> HIDE DEF m, leg, s
      <4>1. m.provider \in {"osrm", "static_haversine"} /\ m.at \notin {"assembled", "load"}
        BY <3>3 DEF PlanOK, s
      <4>2. \A l \in LegSet(m) : Sound(m, l) /\ (Between(l) => Kept(estimates, m, l))
        BY <3>5, <3>7, <3>8 DEF PlanOK, s
      <4>3. \A d \in InSeq(m.days) : Weak(d)
        BY <3>3 DEF PlanOK, s
      <4> QED
        BY <4>1, <4>2, <4>3, <3>9 DEF PlanOK
    <3> QED
      BY <1>3, <2>3, <3>3, <3>4, <3>6, <3>7, <3>10
  <2> QED
    BY <2>4, <2>5
<1> QED
  BY <1>4, <1>5

-----------------------------------------------------------------------------
(* Steps. *)

\* A step of one plan that leaves the table alone.
LEMMA OneMoves ==
    ASSUME LInv, NEW r \in Runs, NEW s \in RunState, PlanOK(estimates, s),
           run' = [run EXCEPT ![r] = s], estimates' = estimates, plans' \in 0 .. MaxPlans
    PROVE  LInv'
<1>1. run' \in [Runs -> RunState] /\ \A q \in Runs : run'[q] = IF q = r THEN s ELSE run[q]
  BY DEF LInv, TypeOK
<1>2. TypeOK'
  BY <1>1 DEF LInv, TypeOK
<1>3. \A q \in Runs : PlanOK(estimates, run'[q])
  BY <1>1 DEF LInv
<1>4. \A q \in Runs : PlanOK(estimates', run'[q])
  BY <1>3
<1> QED
  BY <1>2, <1>4 DEF LInv

LEMMA BeginKeeps ==
    ASSUME LInv, NEW r \in Runs, Begin(r)
    PROVE  LInv'
<1>1. PICK provider \in {"osrm", "static_haversine"} :
        \E matrix \in IF provider = "osrm" THEN Matrices ELSE {{}}, draft \in Drafts :
          run' = [run EXCEPT ![r] = [Idle EXCEPT !.at = "load", !.provider = provider,
                                                 !.matrix = matrix, !.draft = draft]]
  BY DEF Begin
<1>2. PICK matrix \in IF provider = "osrm" THEN Matrices ELSE {{}}, draft \in Drafts :
        run' = [run EXCEPT ![r] = [Idle EXCEPT !.at = "load", !.provider = provider,
                                               !.matrix = matrix, !.draft = draft]]
  BY <1>1
<1> DEFINE s == [Idle EXCEPT !.at = "load", !.provider = provider,
                             !.matrix = matrix, !.draft = draft]
<1>3. matrix \in SUBSET Pairs /\ draft \in Seq(DraftDay)
  BY PlacesAssumption
<1>4. s \in RunState
  BY <1>3, IdleIsOK DEF RunState, Sources
<1>5. /\ s.provider = provider /\ s.at = "load" /\ s.read = {} /\ s.legs = <<>> /\ s.days = <<>>
      /\ s.cached = [p \in Pois \X Pois |-> None]
  BY DEF Idle
<1>6. \A a, b : Best({}, a, b) = None
  BY BestIs
<1>7. LegSet(s) = {} /\ InSeq(s.days) = {}
  BY <1>5 DEF LegSet, InSeq
<1>8. PlanOK(estimates, s)
  BY <1>5, <1>6, <1>7 DEF PlanOK
<1>9. plans' \in 0 .. MaxPlans /\ estimates' = estimates
  BY PlacesAssumption DEF Begin, LInv, TypeOK
<1> QED
  BY <1>2, <1>4, <1>8, <1>9, OneMoves

\* What is worth reusing is as good as anything the provider could measure.
LEMMA LoadKeeps ==
    ASSUME LInv, NEW r \in Runs, LoadCachedLegs(r)
    PROVE  LInv'
<1> DEFINE m == run[r]
           worth(p) == WorthReusing(Best(estimates, p[1], p[2]), m.provider)
           cached == [p \in Pois \X Pois |->
                        IF worth(p) THEN Best(estimates, p[1], p[2]) ELSE None]
           s == [m EXCEPT !.at = "route", !.read = estimates, !.cached = cached]
<1>1. m \in RunState /\ PlanOK(estimates, m) /\ m.at = "load" /\ estimates \in SUBSET Row
  BY DEF LInv, TypeOK, LoadCachedLegs, SavedRow
<1>2. run' = [run EXCEPT ![r] = s]
  BY DEF LoadCachedLegs
<1>3. cached \in [Pois \X Pois -> Sources \cup {None}]
  BY <1>1, BestIs
<1>4. s \in RunState
  BY <1>1, <1>3 DEF RunState
<1>5. /\ s.provider = m.provider /\ s.at = "route" /\ s.read = estimates
      /\ s.cached = cached /\ s.legs = m.legs /\ s.days = m.days /\ s.matrix = m.matrix
  BY <1>1 DEF RunState
<1>6. LegSet(s) = {} /\ InSeq(s.days) = {}
  BY <1>1, <1>5 DEF PlanOK, LegSet, InSeq
<1>7. ASSUME NEW a \in Pois, NEW b \in Pois
      PROVE  IF s.cached[<<a, b>>] = None
             THEN Best(s.read, a, b) # None => Rank(Best(s.read, a, b)) > Rank(s.provider)
             ELSE Sound(s, CachedLeg(s, a, b)) /\ Kept(estimates, s, CachedLeg(s, a, b))
  <2> DEFINE best == Best(estimates, a, b)
  <2>1. s.cached[<<a, b>>] = IF WorthReusing(best, m.provider) THEN best ELSE None
    BY <1>5
  <2>2. best \in Sources \cup {None} /\ m.provider \in Sources
    BY <1>1, BestIs DEF RunState
  <2>3. CASE WorthReusing(best, m.provider)
    <3>1. s.cached[<<a, b>>] = best /\ best # None /\ Rank(best) <= Rank(m.provider)
      BY <2>1, <2>3 DEF WorthReusing
    <3>2. Rank(best) <= Rank(MeasuredBy(s, a, b))
      BY <1>1, <1>5, <2>2, <3>1, RankOf, RankIsNat DEF MeasuredBy, PlanOK
    <3>3. /\ CachedLeg(s, a, b).from = a /\ CachedLeg(s, a, b).to = b
          /\ CachedLeg(s, a, b).source = best
      BY <3>1 DEF CachedLeg
    <3>4. Sound(s, CachedLeg(s, a, b))
      BY <1>5, <2>2, <3>1, <3>2, <3>3, RankIsNat DEF Sound
    <3>5. Kept(estimates, s, CachedLeg(s, a, b))
      <4>1. PICK q \in estimates : q.from = a /\ q.to = b /\ q.source = best
        BY <1>1, <3>1, BestIs
      <4> HIDE DEF s, best
      <4> QED
        <5>1. Rank(q.source) <= Rank(CachedLeg(s, a, b).source)
          BY <4>1, <2>2, <3>1, <3>3, RankIsNat
        <5> QED
          BY <4>1, <5>1, <3>3 DEF Kept
    <3> QED
      BY <3>1, <3>4, <3>5
  <2>4. CASE ~WorthReusing(best, m.provider)
    BY <1>5, <2>1, <2>2, <2>4, RankIsNat DEF WorthReusing
  <2> QED
    BY <2>3, <2>4
<1>8. PlanOK(estimates, s)
  <2> HIDE DEF s, m
  <2>1. s.provider \in {"osrm", "static_haversine"}
    BY <1>1, <1>5 DEF PlanOK
  <2> QED
    BY <2>1, <1>5, <1>6, <1>7 DEF PlanOK
<1>9. plans' \in 0 .. MaxPlans /\ estimates' = estimates
  BY DEF LoadCachedLegs, LInv, TypeOK
<1> QED
  BY <1>2, <1>4, <1>8, <1>9, OneMoves

LEMMA BeginDayKeeps ==
    ASSUME LInv, NEW r \in Runs, BeginDay(r)
    PROVE  LInv'
<1> DEFINE m == run[r]
           day == m.draft[Len(m.days) + 1]
           s == [m EXCEPT !.at = "day", !.todo = Slots(day), !.bed = day.bed]
<1>1. m \in RunState /\ PlanOK(estimates, m)
  BY DEF LInv, TypeOK
<1>2. run' = [run EXCEPT ![r] = s]
  BY DEF BeginDay
<1>3. day \in DraftDay
  <2>1. m.draft \in Seq(DraftDay) /\ Len(m.days) \in Nat
    BY <1>1 DEF RunState
  <2>2. Len(m.days) + 1 \in DOMAIN m.draft
    BY <2>1 DEF BeginDay
  <2> QED
    BY <2>1, <2>2
<1>4. s \in RunState
  <2>1. Slots(day) \subseteq Nat \X Stops /\ day.bed \in Stays \cup {None}
    BY <1>3 DEF DraftDay, Slots
  <2> HIDE DEF day
  <2> QED
    BY <1>1, <2>1 DEF RunState
<1>5. /\ s.provider = m.provider /\ s.matrix = m.matrix /\ s.read = m.read
      /\ s.cached = m.cached /\ s.computed = m.computed
      /\ s.legs = m.legs /\ s.days = m.days /\ s.at = "day"
  BY <1>1 DEF RunState
<1>6. LegSet(s) = LegSet(m)
  BY <1>5 DEF LegSet
<1>7. PlanOK(estimates, s)
  <2> HIDE DEF s, m
  <2> QED
    BY <1>1, <1>5, <1>6, GoesOn
<1>8. plans' \in 0 .. MaxPlans /\ estimates' = estimates
  BY DEF BeginDay, LInv, TypeOK
<1> QED
  BY <1>2, <1>4, <1>7, <1>8, OneMoves

LEMMA VisitKeeps ==
    ASSUME LInv, NEW r \in Runs, Visit(r)
    PROVE  LInv'
<1>0. PICK slot \in run[r].todo :
        LET leg == LegOf(r, run[r].cursor, slot[2])
        IN  run' = [run EXCEPT ![r] = [Remembered(r, leg) EXCEPT
               !.cursor = slot[2], !.last = slot[2], !.todo = @ \ {slot},
               !.legs = Append(@, leg)]]
  BY DEF Visit, Nearest
<1>1. PICK t : /\ t = slot[2]
               /\ LET leg == LegOf(r, run[r].cursor, t)
                  IN  run' = [run EXCEPT ![r] = [Remembered(r, leg) EXCEPT
                         !.cursor = t, !.last = t, !.todo = @ \ {slot},
                         !.legs = Append(@, leg)]]
  BY <1>0
<1> DEFINE leg == LegOf(r, run[r].cursor, t)
           m == Remembered(r, leg)
           s == [m EXCEPT !.cursor = t, !.last = t, !.todo = @ \ {slot},
                          !.legs = Append(@, leg)]
<1>2. TypeOK /\ run[r] \in RunState /\ PlanOK(estimates, run[r]) /\ run[r].at = "day"
  BY DEF LInv, TypeOK, Visit
<1>3. run[r].cursor \in Pois \cup {Origin} /\ t \in Stops /\ t \in Pois
  BY <1>1, <1>2 DEF RunState, Pois
<1>4. /\ leg \in Leg /\ m \in RunState /\ PlanOK(estimates, m)
      /\ Sound(m, leg) /\ (Between(leg) => Kept(estimates, m, leg)) /\ m.at = "day"
  <2>1. run[r].at \notin {"assembled", "load"}
    BY <1>2
  <2> QED
    BY <1>2, <1>3, <2>1, AskIsOK
<1> HIDE DEF m, leg
<1>5. s \in RunState
  <2>1. Append(m.legs, leg) \in Seq(Leg)
    BY <1>4 DEF RunState
  <2> QED
    BY <1>3, <1>4, <2>1 DEF RunState
<1>6. /\ s.provider = m.provider /\ s.matrix = m.matrix /\ s.read = m.read
      /\ s.cached = m.cached /\ s.computed = m.computed
      /\ s.legs = Append(m.legs, leg) /\ s.days = m.days /\ s.at = "day"
  BY <1>4 DEF RunState
<1>7. InSeq(Append(m.legs, leg)) = InSeq(m.legs) \cup {leg}
  <2>1. m.legs \in Seq(Leg)
    BY <1>4 DEF RunState
  <2> QED
    BY <1>4, <2>1, InSeqAppend
<1>8. \A l \in LegSet(s) : l \in LegSet(m) \/ l = leg
  BY <1>6, <1>7 DEF LegSet
<1>9. PlanOK(estimates, s)
  <2> HIDE DEF s
  <2> QED
    BY <1>4, <1>6, <1>8, GoesOn
<1>10. plans' \in 0 .. MaxPlans /\ estimates' = estimates /\ run' = [run EXCEPT ![r] = s]
  BY <1>1 DEF Visit, LInv, TypeOK, m, leg
<1> QED
  BY <1>5, <1>9, <1>10, OneMoves

\* Closing a day moves its legs into it.
LEMMA ClosedDay ==
    ASSUME NEW m \in RunState, NEW legs \in Seq(Leg)
    PROVE  LET s == Closed(m, legs)
           IN  /\ s \in RunState
               /\ s.provider = m.provider /\ s.matrix = m.matrix /\ s.read = m.read
               /\ s.cached = m.cached /\ s.computed = m.computed /\ s.at = "route"
               /\ \A l \in LegSet(s) : l \in InSeq(legs) \/ l \in LegSet(m)
               /\ \A d \in InSeq(s.days) : d \in InSeq(m.days) \/ Weak(d)
<1> DEFINE s == Closed(m, legs)
           days == Append(m.days, Day(legs))
           Days == [legs : Seq(Leg), source : Sources]
<1>1. Day(legs) \in Days /\ Day(legs).legs = legs /\ Weak(Day(legs))
  BY DayIsTyped DEF Weak
<1>2. m.days \in Seq(Days)
  BY DEF RunState
<1>3. days \in Seq(Days) /\ InSeq(days) = InSeq(m.days) \cup {Day(legs)}
  <2> HIDE DEF Days
  <2> QED
    BY <1>1, <1>2, InSeqAppend
<1>4. <<>> \in Seq(Leg) /\ InSeq(<<>>) = {}
  BY DEF InSeq
<1>5. s = [m EXCEPT !.at = "route", !.days = days, !.legs = <<>>]
  BY DEF Closed
<1> HIDE DEF s, days
<1>6. s \in RunState
  BY <1>3, <1>4, <1>5 DEF RunState
<1>7. /\ s.provider = m.provider /\ s.matrix = m.matrix /\ s.read = m.read
      /\ s.cached = m.cached /\ s.computed = m.computed /\ s.at = "route"
      /\ s.days = days /\ s.legs = <<>>
  BY <1>5 DEF RunState
<1>8. ASSUME NEW l \in LegSet(s)
      PROVE  l \in InSeq(legs) \/ l \in LegSet(m)
  <2>1. PICK d \in InSeq(days) : l \in InSeq(d.legs)
    BY <1>4, <1>7, <1>8 DEF LegSet
  <2>2. CASE d = Day(legs)
    BY <1>1, <2>1, <2>2
  <2>3. CASE d \in InSeq(m.days)
    BY <2>1, <2>3 DEF LegSet
  <2> QED
    BY <1>3, <2>1, <2>2, <2>3
<1>9. \A d \in InSeq(s.days) : d \in InSeq(m.days) \/ Weak(d)
  BY <1>1, <1>3, <1>7
<1> QED
  BY <1>6, <1>7, <1>8, <1>9 DEF s

LEMMA EndDayKeeps ==
    ASSUME LInv, NEW r \in Runs, EndDay(r)
    PROVE  LInv'
<1>1. TypeOK /\ run[r] \in RunState /\ PlanOK(estimates, run[r]) /\ run[r].at = "day"
  BY DEF LInv, TypeOK, EndDay
<1>2. plans' \in 0 .. MaxPlans /\ estimates' = estimates
  BY DEF EndDay, LInv, TypeOK
<1>3. CASE run[r].bed = None
  <2> DEFINE m == run[r]
             s == Closed(m, m.legs)
  <2>1. run' = [run EXCEPT ![r] = s]
    BY <1>3 DEF EndDay
  <2>2. m.legs \in Seq(Leg) /\ m \in RunState
    BY <1>1 DEF RunState
  <2>3. \A l \in InSeq(m.legs) : l \in LegSet(m)
    BY DEF LegSet
  <2>4. PlanOK(estimates, m)
    BY <1>1
  <2> HIDE DEF m
  <2>5. /\ s \in RunState
        /\ s.provider = m.provider /\ s.matrix = m.matrix /\ s.read = m.read
        /\ s.cached = m.cached /\ s.computed = m.computed /\ s.at = "route"
        /\ \A l \in LegSet(s) : l \in LegSet(m)
        /\ \A d \in InSeq(s.days) : d \in InSeq(m.days) \/ Weak(d)
    BY <2>2, <2>3, ClosedDay
  <2> HIDE DEF s
  <2>6. PlanOK(estimates, s)
    BY <2>4, <2>5, GoesOn
  <2> QED
    BY <1>2, <2>1, <2>5, <2>6, OneMoves
<1>4. CASE run[r].bed # None
  <2> DEFINE leg == LegOf(r, run[r].cursor, run[r].bed)
             m == Remembered(r, leg)
             all == Append(run[r].legs, leg)
             c == Closed(m, all)
             s == [c EXCEPT !.cursor = leg.to, !.last = leg.to, !.bed = None]
  <2>1. run' = [run EXCEPT ![r] = s]
    BY <1>4 DEF EndDay
  <2>2. run[r].cursor \in Pois \cup {Origin} /\ run[r].bed \in Pois
    BY <1>1, <1>4 DEF RunState, Pois
  <2>3. /\ leg \in Leg /\ leg.to \in Pois /\ m \in RunState /\ PlanOK(estimates, m)
        /\ Sound(m, leg) /\ (Between(leg) => Kept(estimates, m, leg))
        /\ m.legs = run[r].legs
    <3>1. run[r].at \notin {"assembled", "load"}
      BY <1>1
    <3> QED
      BY <1>1, <2>2, <3>1, AskIsOK
  <2> HIDE DEF m, leg
  <2>4. all \in Seq(Leg) /\ InSeq(all) = InSeq(m.legs) \cup {leg}
    <3>1. m.legs \in Seq(Leg)
      BY <2>3 DEF RunState
    <3> QED
      BY <2>3, <3>1, InSeqAppend
  <2> HIDE DEF all
  <2>5. /\ c \in RunState
        /\ c.provider = m.provider /\ c.matrix = m.matrix /\ c.read = m.read
        /\ c.cached = m.cached /\ c.computed = m.computed /\ c.at = "route"
        /\ \A l \in LegSet(c) : l \in LegSet(m) \/ l = leg
        /\ \A d \in InSeq(c.days) : d \in InSeq(m.days) \/ Weak(d)
    <3>1. \A l \in InSeq(m.legs) : l \in LegSet(m)
      BY DEF LegSet
    <3> QED
      BY <2>3, <2>4, <3>1, ClosedDay
  <2> HIDE DEF c
  <2>6. s \in RunState
    <3>1. leg.to \in Pois \cup {Origin} /\ leg.to \in Pois \cup {None}
      BY <2>3
    <3> QED
      BY <2>5, <3>1 DEF RunState
  <2>7. /\ s.provider = m.provider /\ s.matrix = m.matrix /\ s.read = m.read
        /\ s.cached = m.cached /\ s.computed = m.computed /\ s.at = "route"
        /\ s.legs = c.legs /\ s.days = c.days
    BY <2>5 DEF RunState
  <2>8. \A l \in LegSet(s) : l \in LegSet(m) \/ l = leg
    BY <2>5, <2>7 DEF LegSet
  <2>9. PlanOK(estimates, s)
    <3> HIDE DEF s
    <3> QED
      BY <2>3, <2>5, <2>7, <2>8, GoesOn
  <2> QED
    BY <1>2, <2>1, <2>6, <2>9, OneMoves
<1> QED
  BY <1>3, <1>4

LEMMA ReturnKeeps ==
    ASSUME LInv, NEW r \in Runs, Return(r)
    PROVE  LInv'
<1> DEFINE m == run[r]
           back == IF m.last = None THEN None
                   ELSE [from |-> m.cursor, to |-> Origin,
                         source |-> Measured(r, m.cursor, Origin)]
           s == [m EXCEPT !.at = "save", !.back = back]
<1>1. m \in RunState /\ PlanOK(estimates, m)
  BY DEF LInv, TypeOK
<1>2. run' = [run EXCEPT ![r] = s]
  BY DEF Return
<1>3. back \in Leg \cup {None}
  BY <1>1 DEF RunState, Leg, Measured, Sources
<1>4. s \in RunState
  <2> HIDE DEF m, back
  <2> QED
    BY <1>1, <1>3 DEF RunState
<1>5. /\ s.provider = m.provider /\ s.matrix = m.matrix /\ s.read = m.read
      /\ s.cached = m.cached /\ s.computed = m.computed
      /\ s.legs = m.legs /\ s.days = m.days /\ s.at = "save"
  BY <1>1 DEF RunState
<1>6. LegSet(s) = LegSet(m)
  BY <1>5 DEF LegSet
<1>7. PlanOK(estimates, s)
  <2> HIDE DEF s, m
  <2> QED
    BY <1>1, <1>5, <1>6, GoesOn
<1>8. plans' \in 0 .. MaxPlans /\ estimates' = estimates
  BY DEF Return, LInv, TypeOK
<1> QED
  BY <1>2, <1>4, <1>7, <1>8, OneMoves

\* What leaves the list is in the table.
LEMMA SaveLegKeeps ==
    ASSUME LInv, NEW r \in Runs, SaveLeg(r)
    PROVE  LInv'
<1> DEFINE m == run[r]
           leg == Head(m.computed)
           s == [m EXCEPT !.computed = Tail(m.computed)]
<1>1. m \in RunState /\ PlanOK(estimates, m) /\ m.at = "save"
  BY DEF LInv, TypeOK, SaveLeg
<1>2. run' = [run EXCEPT ![r] = s] /\ estimates' = estimates \cup {leg} /\ plans' = plans
  <2>1. run' = [run EXCEPT ![r].computed = Tail(@)]
    BY DEF SaveLeg
  <2> QED
    BY <2>1 DEF SaveLeg, Upserted
<1>3. m.computed \in Seq(SavedRow) /\ m.computed # <<>>
  BY <1>1 DEF RunState, SaveLeg
<1>4. leg \in SavedRow /\ Tail(m.computed) \in Seq(SavedRow)
  BY <1>3
<1>5. s \in RunState
  BY <1>1, <1>4 DEF RunState
<1>6. /\ s.provider = m.provider /\ s.matrix = m.matrix /\ s.read = m.read
      /\ s.cached = m.cached /\ s.computed = Tail(m.computed)
      /\ s.legs = m.legs /\ s.days = m.days /\ s.at = "save"
  BY <1>1 DEF RunState
<1>7. ASSUME NEW l, Kept(estimates, m, l)
      PROVE  Kept(estimates', s, l)
  <2>1. CASE \E q \in estimates : q.from = l.from /\ q.to = l.to
                                  /\ Rank(q.source) <= Rank(l.source)
    BY <2>1, <1>2 DEF Kept
  <2>2. CASE \E i \in DOMAIN m.computed : m.computed[i] = l
    <3>1. PICK i \in DOMAIN m.computed : m.computed[i] = l
      BY <2>2
    <3>2. CASE i = 1
      <4>1. l = leg /\ leg.source \in Sources
        BY <1>3, <1>4, <3>1, <3>2 DEF SavedRow, Row
      <4>2. leg \in estimates' /\ Rank(leg.source) <= Rank(leg.source)
        BY <1>2, <4>1, RankIsNat
      <4> QED
        BY <4>1, <4>2 DEF Kept
    <3>3. CASE i # 1
      <4>1. i - 1 \in DOMAIN Tail(m.computed) /\ Tail(m.computed)[i - 1] = l
        BY <1>3, <3>1, <3>3, TailIs
      <4> QED
        BY <1>6, <4>1 DEF Kept
    <3> QED
      BY <3>2, <3>3
  <2> QED
    BY <1>7, <2>1, <2>2 DEF Kept
<1>8. PlanOK(estimates', s)
  <2> HIDE DEF s, m, leg
  <2>1. \A l : Sound(m, l) => Sound(s, l)
    BY <1>6 DEF Sound, MeasuredBy
  <2>2. \A a, b : CachedLeg(s, a, b) = CachedLeg(m, a, b)
    BY <1>6 DEF CachedLeg
  <2>3. LegSet(s) = LegSet(m)
    BY <1>6 DEF LegSet
  <2> QED
    BY <1>1, <1>6, <1>7, <2>1, <2>2, <2>3 DEF PlanOK
<1>9. run' \in [Runs -> RunState] /\ \A q \in Runs : run'[q] = IF q = r THEN s ELSE run[q]
  <2> HIDE DEF s
  <2> QED
    BY <1>2, <1>5 DEF LInv, TypeOK
<1>10. TypeOK'
  BY <1>2, <1>4, <1>9 DEF LInv, TypeOK
<1>11. \A q \in Runs : PlanOK(estimates', run'[q])
  <2> HIDE DEF s
  <2>1. \A q \in Runs : PlanOK(estimates', run[q])
    BY <1>2, MoreRows DEF LInv
  <2> QED
    BY <1>8, <1>9, <2>1
<1> QED
  BY <1>10, <1>11 DEF LInv

LEMMA DoneKeeps ==
    ASSUME LInv, NEW r \in Runs, Done(r)
    PROVE  LInv'
<1> DEFINE m == run[r]
           s == [m EXCEPT !.at = "assembled"]
<1>1. m \in RunState /\ PlanOK(estimates, m) /\ m.computed = <<>>
  BY DEF LInv, TypeOK, Done
<1>2. run' = [run EXCEPT ![r] = s]
  BY DEF Done
<1>3. s \in RunState
  BY <1>1 DEF RunState
<1>4. /\ s.provider = m.provider /\ s.matrix = m.matrix /\ s.read = m.read
      /\ s.cached = m.cached /\ s.computed = m.computed
      /\ s.legs = m.legs /\ s.days = m.days /\ s.at = "assembled"
  BY <1>1 DEF RunState
<1>5. LegSet(s) = LegSet(m)
  BY <1>4 DEF LegSet
<1>6. PlanOK(estimates, s)
  <2> HIDE DEF s, m
  <2> QED
    BY <1>1, <1>4, <1>5, GoesOn
<1>7. plans' \in 0 .. MaxPlans /\ estimates' = estimates
  BY DEF Done, LInv, TypeOK
<1> QED
  BY <1>2, <1>3, <1>6, <1>7, OneMoves

LEMMA LeaveKeeps ==
    ASSUME LInv, NEW r \in Runs, Leave(r)
    PROVE  LInv'
<1>1. run' = [run EXCEPT ![r] = Idle] /\ estimates' = estimates /\ plans' \in 0 .. MaxPlans
  BY DEF Leave, LInv, TypeOK
<1> QED
  BY <1>1, IdleIsOK, OneMoves

LEMMA LInit == Init => LInv
<1> SUFFICES ASSUME Init PROVE LInv
  OBVIOUS
<1>1. \A r \in Runs : run[r] = Idle
  BY DEF Init
<1>2. TypeOK
  BY IdleIsOK, TablesAssumption, PlacesAssumption DEF Init, TypeOK, SavedRow
<1> QED
  BY <1>1, <1>2, IdleIsOK DEF LInv

LEMMA LStep == LInv /\ [Next]_vars => LInv'
<1> SUFFICES ASSUME LInv, [Next]_vars PROVE LInv'
  OBVIOUS
<1>1. CASE Next
  <2>1. PICK r \in Runs :
          \/ Begin(r) \/ LoadCachedLegs(r) \/ BeginDay(r) \/ Visit(r) \/ EndDay(r)
          \/ Return(r) \/ SaveLeg(r) \/ Done(r) \/ Leave(r)
    BY <1>1 DEF Next
  <2> QED
    BY <2>1, BeginKeeps, LoadKeeps, BeginDayKeeps, VisitKeeps, EndDayKeeps,
       ReturnKeeps, SaveLegKeeps, DoneKeeps, LeaveKeeps
<1>2. CASE UNCHANGED vars
  <2>1. estimates' = estimates /\ run' = run /\ plans' = plans
    BY <1>2 DEF vars
  <2>2. TypeOK'
    BY <2>1 DEF LInv, TypeOK
  <2>3. \A r \in Runs : PlanOK(estimates', run'[r])
    BY <2>1 DEF LInv
  <2> QED
    BY <2>2, <2>3 DEF LInv
<1> QED
  BY <1>1, <1>2

-----------------------------------------------------------------------------
(* What follows. *)

\* Type correctness: the table holds rows migration 001 lets in, and every plan
\* being routed is what the resolver and route can have made of it.
THEOREM LegsTypeCorrect == Spec => []TypeOK
<1>1. LInv => TypeOK
  BY DEF LInv
<1> QED
  BY LInit, LStep, <1>1, PTL DEF Spec

\* Routing never uses a leg weaker than the best row it read or than its own
\* provider can measure (store/travel.py, no_worse_than; LegResolver.between).
THEOREM NoWorse == Spec => []NoWorseThanKnown
<1>1. LInv => NoWorseThanKnown
  <2> SUFFICES ASSUME LInv, NEW r \in Runs, NEW leg \in LegsOf(r)
               PROVE  LET known == Best(run[r].read, leg.from, leg.to)
                      IN  /\ Rank(leg.source) <= Rank(Measured(r, leg.from, leg.to))
                          /\ known # None => Rank(leg.source) <= Rank(known)
    BY DEF NoWorseThanKnown
  <2>1. leg \in LegSet(run[r])
    BY DEF LegsOf, LegSet
  <2>2. Sound(run[r], leg)
    BY <2>1 DEF LInv, PlanOK
  <2>3. Measured(r, leg.from, leg.to) = MeasuredBy(run[r], leg.from, leg.to)
    BY DEF Measured, MeasuredBy
  <2> QED
    BY <2>2, <2>3 DEF Sound
<1> QED
  BY LInit, LStep, <1>1, PTL DEF Spec

\* A day never claims a better source than one of its legs (routing.py, day_sources).
THEOREM WeakestLegOfTheDay == Spec => []DayIsItsWeakestLeg
<1>1. LInv => DayIsItsWeakestLeg
  <2> SUFFICES ASSUME LInv, NEW r \in Runs, NEW d \in DOMAIN run[r].days
               PROVE  Weak(run[r].days[d])
    BY DEF DayIsItsWeakestLeg, Weak
  <2>1. run[r].days[d] \in InSeq(run[r].days)
    BY DEF InSeq
  <2> QED
    BY <2>1 DEF LInv, PlanOK
<1> QED
  BY LInit, LStep, <1>1, PTL DEF Spec

\* Every leg between two POIs that an assembled plan drives has a row as good in
\* the cache (persist_computed_legs, load_cached_legs).
THEOREM Remembering == Spec => []RoutedIsRemembered
<1>1. LInv => RoutedIsRemembered
  <2> SUFFICES ASSUME LInv, NEW r \in Runs, run[r].at = "assembled",
                      NEW leg \in LegsOf(r), Between(leg)
               PROVE  /\ Best(estimates, leg.from, leg.to) # None
                      /\ Rank(Best(estimates, leg.from, leg.to)) <= Rank(leg.source)
    BY DEF RoutedIsRemembered, Between
  <2> DEFINE best == Best(estimates, leg.from, leg.to)
  <2>1. PlanOK(estimates, run[r]) /\ run[r] \in RunState
    BY DEF LInv, TypeOK
  <2>2. leg \in LegSet(run[r])
    BY DEF LegsOf, LegSet
  <2>3. PICK q \in estimates : q.from = leg.from /\ q.to = leg.to
                               /\ Rank(q.source) <= Rank(leg.source)
    <3>1. Kept(estimates, run[r], leg) /\ run[r].computed = <<>>
      BY <2>1, <2>2 DEF PlanOK
    <3> QED
      BY <3>1 DEF Kept
  <2>4. estimates \in SUBSET Row
    BY DEF LInv, TypeOK, SavedRow
  <2>5. best \in Sources /\ best # None /\ Rank(best) <= Rank(q.source)
    BY <2>3, <2>4, BestIs
  <2>6. leg.source \in Sources
    <3>1. run[r].legs \in Seq(Leg) /\ run[r].days \in Seq([legs : Seq(Leg), source : Sources])
      BY <2>1 DEF RunState
    <3>2. ASSUME NEW ls \in Seq(Leg), leg \in InSeq(ls)
          PROVE  leg.source \in Sources
      BY <3>2, InSeqIn DEF Leg
    <3>3. ASSUME NEW d \in InSeq(run[r].days)
          PROVE  d.legs \in Seq(Leg)
      <4>1. InSeq(run[r].days) \subseteq [legs : Seq(Leg), source : Sources]
        BY <3>1, InSeqIn
      <4> QED
        BY <4>1
    <3> QED
      BY <2>2, <3>1, <3>2, <3>3 DEF LegSet
  <2>7. q.source \in Sources
    BY <2>3, <2>4 DEF Row
  <2> HIDE DEF best
  <2>8. Rank(best) <= Rank(leg.source)
    BY <2>3, <2>5, <2>6, <2>7, RankIsNat
  <2> QED
    BY <2>5, <2>8 DEF best
<1> QED
  BY LInit, LStep, <1>1, PTL DEF Spec

\* No step of any plan makes the best row of a pair worse (save_leg's upsert).
THEOREM BestRowKept == Spec => BestRowSurvives
<1>1. LInv /\ LInv' /\ [Next]_vars =>
        [\A p \in Pois \X Pois :
           LET old == Best(estimates, p[1], p[2])
           IN  old # None => /\ Best(estimates', p[1], p[2]) # None
                             /\ Rank(Best(estimates', p[1], p[2])) <= Rank(old)]_vars
  <2> SUFFICES ASSUME LInv, LInv', Next, NEW p \in Pois \X Pois,
                      Best(estimates, p[1], p[2]) # None
               PROVE  /\ Best(estimates', p[1], p[2]) # None
                      /\ Rank(Best(estimates', p[1], p[2])) <= Rank(Best(estimates, p[1], p[2]))
    OBVIOUS
  <2>1. estimates \subseteq estimates'
    BY DEF Next, Begin, LoadCachedLegs, BeginDay, Visit, EndDay, Return, SaveLeg,
           Done, Leave, Upserted
  <2>2. estimates' \in SUBSET Row
    BY DEF LInv, TypeOK, SavedRow
  <2> QED
    BY <2>1, <2>2, BestGrows
<1> QED
  BY LInit, LStep, <1>1, PTL DEF Spec, BestRowSurvives

-----------------------------------------------------------------------------
(* What is defined from one position to the next. *)

\* Counting up to n reaches everything.
LEMMA Counting ==
    ASSUME NEW n \in Nat, NEW P, 0 \in P, \A k \in 1..n : k - 1 \in P => k \in P
    PROVE  0..n \subseteq P
<1> DEFINE R == {ss \in Nat \X Nat : ss[1] < ss[2]}
           Missed == (0..n) \ P
<1>1. R = OpToRel(<, Nat)
  BY DEF OpToRel
<1>2. IsWellFoundedOn(R, Nat)
  BY <1>1, NatLessThanWellFounded
<1>3. SUFFICES ASSUME Missed # {} PROVE FALSE
  OBVIOUS
<1>4. Missed \subseteq Nat
  OBVIOUS
<1> HIDE DEF R, Missed
<1>5. PICK m \in Missed : \A k \in Missed : ~ (<<k, m>> \in R)
  BY <1>2, <1>3, <1>4, WFMin
<1>6. m \in 1..n /\ m - 1 \in 0..n
  BY <1>5 DEF Missed
<1>7. <<m - 1, m>> \in R
  BY <1>6 DEF R
<1>8. m - 1 \in P
  BY <1>5, <1>6, <1>7 DEF Missed
<1> QED
  BY <1>5, <1>6, <1>8 DEF Missed

\* g follows the recursion g[k] = F(k, g[k - 1]).
Follows(g, n, base, F) == g[0] = base /\ \A k \in 1..n : g[k] = F[<<k, g[k - 1]>>]

\* A recursion up to n has a solution.
LEMMA Recursion ==
    ASSUME NEW n \in Nat, NEW A, NEW base \in A, NEW F \in [(1..n) \X A -> A]
    PROVE  \E g \in [0..n -> A] : Follows(g, n, base, F)
<1> DEFINE Solves(g, m) == g[0] = base /\ \A k \in 1..m : g[k] = F[<<k, g[k - 1]>>]
           P == {m \in 0..n : \E g \in [0..m -> A] : Solves(g, m)}
<1>1. 0 \in P
  <2>1. PICK g : g = [k \in 0..0 |-> base]
    OBVIOUS
  <2>2. g \in [0..0 -> A] /\ Solves(g, 0)
    BY <2>1
  <2> QED
    BY <2>2
<1>2. ASSUME NEW k \in 1..n, k - 1 \in P
      PROVE  k \in P
  <2>1. PICK g \in [0..(k - 1) -> A] : Solves(g, k - 1)
    BY <1>2
  <2>2. PICK h : h = [j \in 0..k |-> IF j = k THEN F[<<k, g[k - 1]>>] ELSE g[j]]
    OBVIOUS
  <2>3. F[<<k, g[k - 1]>>] \in A
    BY <2>1
  <2>4. h \in [0..k -> A]
    BY <2>1, <2>2, <2>3
  <2>5. \A j \in 0..(k - 1) : h[j] = g[j]
    BY <2>2
  <2>6. h[k] = F[<<k, h[k - 1]>>]
    <3>1. k \in 0..k /\ k - 1 \in 0..(k - 1)
      OBVIOUS
    <3>2. h[k] = F[<<k, g[k - 1]>>] /\ h[k - 1] = g[k - 1]
      BY <2>2, <2>5, <3>1
    <3> QED
      BY <3>2
  <2>7. ASSUME NEW j \in 1..(k - 1) PROVE h[j] = F[<<j, h[j - 1]>>]
    <3>1. g[j] = F[<<j, g[j - 1]>>]
      BY <2>1
    <3>2. h[j] = g[j] /\ h[j - 1] = g[j - 1]
      BY <2>5
    <3> QED
      BY <3>1, <3>2
  <2>8. Solves(h, k)
    BY <2>1, <2>5, <2>6, <2>7
  <2> QED
    BY <2>4, <2>8
<1> HIDE DEF P
<1>3. n \in P
  BY <1>1, <1>2, Counting
<1> QED
  BY <1>3 DEF P, Follows

\* Minutes are numbers.
LEMMA LengthIsMinutes ==
    ASSUME NEW leg \in Leg
    PROVE  /\ Length(leg.from, leg.to) \in Nat
           /\ (IF leg.to \in Stops THEN Duration[leg.to] ELSE 0) \in Nat
<1>1. Place[leg.from] \in Int /\ Place[leg.to] \in Int
  BY PlacesAssumption DEF Leg
<1>2. Length(leg.from, leg.to) \in Nat
  BY <1>1 DEF Length
<1>3. leg.to \in Stops => Duration[leg.to] \in Nat
  BY PlacesAssumption
<1> QED
  BY <1>2, <1>3

\* The clock starts with the day and only goes on.
LEMMA CursorIs ==
    ASSUME NEW legs \in Seq(Leg)
    PROVE  /\ Cursor(legs)[0] = DayStart
           /\ \A k \in 0..Len(legs) : Cursor(legs)[k] \in Nat
           /\ \A k \in 1..Len(legs) :
                Cursor(legs)[k] = Cursor(legs)[k - 1] + Length(legs[k].from, legs[k].to)
                  + (IF legs[k].to \in Stops THEN Duration[legs[k].to] ELSE 0)
<1>1. PICK n \in Nat : n = Len(legs)
  OBVIOUS
<1>2. PICK cost : cost = [k \in 1..n |-> Length(legs[k].from, legs[k].to)]
  OBVIOUS
<1>3. PICK stop : stop = [k \in 1..n |-> IF legs[k].to \in Stops THEN Duration[legs[k].to] ELSE 0]
  OBVIOUS
<1>4. cost \in [1..n -> Nat] /\ stop \in [1..n -> Nat]
  <2>1. \A k \in 1..n : legs[k] \in Leg
    BY <1>1
  <2>2. \A k \in 1..n : cost[k] \in Nat /\ stop[k] \in Nat
    BY <1>2, <1>3, <2>1, LengthIsMinutes
  <2> QED
    BY <1>2, <1>3, <2>2
<1>5. PICK F : F = [p \in (1..n) \X Nat |-> p[2] + cost[p[1]] + stop[p[1]]]
  OBVIOUS
<1>6. F \in [(1..n) \X Nat -> Nat]
  BY <1>4, <1>5
<1>7. DayStart \in Nat
  BY ClockAssumption
<1>8. PICK g \in [0..n -> Nat] : g[0] = DayStart /\ \A k \in 1..n : g[k] = F[<<k, g[k - 1]>>]
  <2>1. PICK A : A = Nat
    OBVIOUS
  <2>2. F \in [(1..n) \X A -> A] /\ DayStart \in A
    BY <1>6, <1>7, <2>1
  <2>3. \E g \in [0..n -> A] : Follows(g, n, DayStart, F)
    BY <2>2, Recursion
  <2> QED
    BY <2>1, <2>3 DEF Follows
<1>9. ASSUME NEW k \in 1..n
      PROVE  g[k] = g[k - 1] + cost[k] + stop[k]
  <2>1. k - 1 \in 0..n /\ g[k - 1] \in Nat
    BY <1>8
  <2> QED
    BY <1>5, <1>8, <2>1
<1> DEFINE at == CHOOSE c : c = [i \in 0..Len(legs) |->
                   IF i = 0 THEN DayStart
                   ELSE c[i - 1] + Length(legs[i].from, legs[i].to)
                          + (IF legs[i].to \in Stops THEN Duration[legs[i].to] ELSE 0)]
<1>10. g = [i \in 0..Len(legs) |->
              IF i = 0 THEN DayStart
              ELSE g[i - 1] + Length(legs[i].from, legs[i].to)
                     + (IF legs[i].to \in Stops THEN Duration[legs[i].to] ELSE 0)]
  <2>1. ASSUME NEW i \in 0..Len(legs)
        PROVE  g[i] = IF i = 0 THEN DayStart
                      ELSE g[i - 1] + Length(legs[i].from, legs[i].to)
                             + (IF legs[i].to \in Stops THEN Duration[legs[i].to] ELSE 0)
    <3>1. CASE i = 0
      BY <1>8, <3>1
    <3>2. CASE i # 0
      <4>1. i \in 1..n
        BY <1>1, <3>2
      <4>2. /\ cost[i] = Length(legs[i].from, legs[i].to)
            /\ stop[i] = IF legs[i].to \in Stops THEN Duration[legs[i].to] ELSE 0
        BY <1>2, <1>3, <4>1
      <4> QED
        BY <1>9, <3>2, <4>1, <4>2
    <3> QED
      BY <3>1, <3>2
  <2>2. g = [i \in 0..n |-> g[i]]
    BY <1>8
  <2> QED
    BY <1>1, <2>1, <2>2
<1>11. at = [i \in 0..Len(legs) |->
              IF i = 0 THEN DayStart
              ELSE at[i - 1] + Length(legs[i].from, legs[i].to)
                     + (IF legs[i].to \in Stops THEN Duration[legs[i].to] ELSE 0)]
  BY <1>10
<1>12. Cursor(legs) = at
  BY DEF Cursor
<1> HIDE DEF at
<1>13. at[0] = DayStart
  BY <1>1, <1>11
<1>14. ASSUME NEW k \in 1..n
       PROVE  /\ at[k] = at[k - 1] + Length(legs[k].from, legs[k].to)
                  + (IF legs[k].to \in Stops THEN Duration[legs[k].to] ELSE 0)
              /\ at[k] = at[k - 1] + cost[k] + stop[k]
  <2>1. k \in 0..Len(legs) /\ k # 0
    BY <1>1
  <2>2. /\ cost[k] = Length(legs[k].from, legs[k].to)
        /\ stop[k] = IF legs[k].to \in Stops THEN Duration[legs[k].to] ELSE 0
    BY <1>2, <1>3
  <2> QED
    BY <1>11, <2>1, <2>2
<1>15. PICK P : P = {k \in 0..n : at[k] \in Nat}
  OBVIOUS
<1>16. 0 \in P
  BY <1>7, <1>13, <1>15
<1>17. ASSUME NEW k \in 1..n, k - 1 \in P
       PROVE  k \in P
  <2>1. at[k - 1] \in Nat /\ cost[k] \in Nat /\ stop[k] \in Nat
    BY <1>4, <1>15, <1>17
  <2>2. at[k] = at[k - 1] + cost[k] + stop[k]
    BY <1>14
  <2>3. at[k] \in Nat
    BY <2>1, <2>2
  <2> QED
    BY <1>15, <2>3
<1>18. 0..n \subseteq P
  BY <1>16, <1>17, Counting
<1> QED
  BY <1>1, <1>12, <1>13, <1>14, <1>15, <1>18

LEMMA CursorGrows ==
    ASSUME NEW legs \in Seq(Leg), NEW j \in 0..Len(legs), NEW i \in j..Len(legs)
    PROVE  Cursor(legs)[j] <= Cursor(legs)[i]
<1>1. PICK n \in Nat : n = Len(legs)
  OBVIOUS
<1>2. PICK at : at = Cursor(legs)
  OBVIOUS
<1>3. \A k \in 0..n : at[k] \in Nat
  BY <1>1, <1>2, CursorIs
<1>4. ASSUME NEW k \in 1..n
      PROVE  at[k - 1] <= at[k]
  <2>1. legs[k] \in Leg
    BY <1>1
  <2>2. PICK cost \in Nat : cost = Length(legs[k].from, legs[k].to)
    BY <2>1, LengthIsMinutes
  <2>3. PICK stop \in Nat : stop = IF legs[k].to \in Stops THEN Duration[legs[k].to] ELSE 0
    BY <2>1, LengthIsMinutes
  <2>4. at[k] = at[k - 1] + cost + stop /\ at[k - 1] \in Nat
    BY <1>1, <1>2, <1>3, <2>2, <2>3, CursorIs
  <2> QED
    BY <2>4
<1>5. PICK P : P = {k \in 0..n : k >= j => at[j] <= at[k]}
  OBVIOUS
<1>6. 0 \in P
  BY <1>1, <1>3, <1>5
<1>7. ASSUME NEW k \in 1..n, k - 1 \in P
      PROVE  k \in P
  <2>1. CASE k > j
    <3>1. at[j] <= at[k - 1] /\ at[k - 1] <= at[k]
      BY <1>4, <1>5, <1>7, <2>1
    <3>2. at[j] \in Nat /\ at[k - 1] \in Nat /\ at[k] \in Nat
      BY <1>1, <1>3
    <3> QED
      BY <1>5, <3>1, <3>2
  <2>2. CASE k = j
    <3>1. at[k] \in Nat
      BY <1>3
    <3> QED
      BY <1>5, <2>2, <3>1
  <2>3. CASE k < j
    BY <1>5, <2>3
  <2> QED
    BY <2>1, <2>2, <2>3
<1>8. 0..n \subseteq P
  BY <1>6, <1>7, Counting
<1> QED
  BY <1>1, <1>2, <1>5, <1>8

\* Of some positions there is a last one.
LEMMA LastOne ==
    ASSUME NEW n \in Nat, NEW S \in SUBSET (1..n), S # {}
    PROVE  \E m \in S : \A k \in S : k <= m
<1>1. PICK P : P = {b \in 0..n : (\E k \in S : k <= b) =>
                                     \E m \in S : \A k \in S : k <= b => k <= m}
  OBVIOUS
<1>2. 0 \in P
  BY <1>1
<1>3. ASSUME NEW b \in 1..n, b - 1 \in P
      PROVE  b \in P
  <2>1. CASE b \in S
    BY <1>1, <2>1
  <2>2. CASE b \notin S
    <3>1. \A k \in S : k <= b <=> k <= b - 1
      BY <2>2
    <3>2. (\E k \in S : k <= b - 1) => \E m \in S : \A k \in S : k <= b - 1 => k <= m
      BY <1>1, <1>3
    <3> QED
      BY <1>1, <3>1, <3>2
  <2> QED
    BY <2>1, <2>2
<1>4. n \in P
  BY <1>2, <1>3, Counting
<1>5. \A k \in S : k <= n
  OBVIOUS
<1>6. (\E k \in S : k <= n) => \E m \in S : \A k \in S : k <= n => k <= m
  BY <1>1, <1>4
<1> QED
  BY <1>5, <1>6

\* A stop is left no earlier than it is reached, and after the stops before it.
LEMMA StartIs ==
    ASSUME NEW legs \in Seq(Leg), NEW k \in 1..Len(legs)
    PROVE  /\ Start(legs, k) \in Nat
           /\ Cursor(legs)[k - 1] <= Start(legs, k) /\ Start(legs, k) <= Cursor(legs)[k]
<1>1. legs[k] \in Leg
  OBVIOUS
<1>2. PICK drive \in Nat : drive = Length(legs[k].from, legs[k].to)
  BY <1>1, LengthIsMinutes
<1>3. PICK stop \in Nat : stop = IF legs[k].to \in Stops THEN Duration[legs[k].to] ELSE 0
  BY <1>1, LengthIsMinutes
<1>4. PICK at : at = Cursor(legs)
  OBVIOUS
<1>5. at[k - 1] \in Nat /\ at[k] = at[k - 1] + drive + stop
  BY <1>2, <1>3, <1>4, CursorIs
<1>6. Start(legs, k) = at[k - 1] + drive
  BY <1>2, <1>4 DEF Start
<1> QED
  BY <1>2, <1>3, <1>4, <1>5, <1>6

LEMMA ClockOfTheDay ==
    ASSUME NEW legs \in Seq(Leg), NEW i \in DayStops(legs)
    PROVE  /\ \A k \in DayStops(legs) : k < i => Shown(Start(legs, k)) <= Shown(Start(legs, i))
           /\ (Shown(Start(legs, i)) # Start(legs, i) \/ Start(legs, i) > LateFinish) => Warned(legs)
<1>1. PICK n \in Nat : n = Len(legs)
  OBVIOUS
<1>2. DayStops(legs) \subseteq 1..n /\ i \in 1..n
  BY <1>1 DEF DayStops
<1>3. LateFinish \in Nat /\ LastMinute \in Nat /\ LateFinish < LastMinute
  BY ClockAssumption
<1>4. PICK at : at = Cursor(legs)
  OBVIOUS
<1>5. \A k \in 0..n : at[k] \in Nat
  BY <1>1, <1>4, CursorIs
<1>6. PICK start : start = Start(legs, i)
  OBVIOUS
<1>7. start \in Nat /\ at[i - 1] <= start /\ start <= at[i]
  BY <1>1, <1>2, <1>4, <1>6, StartIs
<1>8. ASSUME NEW k \in DayStops(legs), k < i
      PROVE  Shown(Start(legs, k)) <= Shown(start)
  <2>1. PICK before : before = Start(legs, k)
    OBVIOUS
  <2>2. k \in 1..n /\ i - 1 \in k..n /\ k \in 0..n /\ i - 1 \in 0..n
    BY <1>2, <1>8
  <2>3. before \in Nat /\ before <= at[k]
    BY <1>1, <1>4, <2>1, <2>2, StartIs
  <2>4. at[k] <= at[i - 1]
    BY <1>1, <1>4, <2>2, CursorGrows
  <2>5. before <= start
    BY <1>5, <1>7, <2>2, <2>3, <2>4
  <2> QED
    BY <1>3, <1>7, <2>1, <2>3, <2>5 DEF Shown
<1>9. ASSUME Shown(start) # start \/ start > LateFinish
      PROVE  Warned(legs)
  <2>1. start > LateFinish
    BY <1>3, <1>7, <1>9 DEF Shown
  <2>2. PICK m \in DayStops(legs) : \A k \in DayStops(legs) : k <= m
    BY <1>2, LastOne
  <2>3. m \in i..n /\ m \in 0..n /\ i \in 0..n
    BY <1>2, <2>2
  <2>4. at[i] <= at[m]
    BY <1>1, <1>4, <2>3, CursorGrows
  <2>5. at[m] > LateFinish
    BY <1>3, <1>5, <1>7, <2>1, <2>3, <2>4
  <2> QED
    BY <1>4, <2>2, <2>5 DEF Warned
<1> QED
  BY <1>6, <1>8, <1>9

Routed == [legs : Seq(Leg), source : Sources]

\* The times shown of a day never run backwards, and a late or clamped time
\* comes with a warning, whatever the day's legs (assemble.py, _fmt_hhmm).
THEOREM HonestClock == Spec => []ClockIsHonest
<1>1. LInv => ClockIsHonest
  <2> SUFFICES ASSUME LInv, NEW r \in Runs, NEW d \in DOMAIN run[r].days
               PROVE  \A i \in DayStops(run[r].days[d].legs) :
                        /\ \A k \in DayStops(run[r].days[d].legs) :
                              k < i => Shown(Start(run[r].days[d].legs, k))
                                         <= Shown(Start(run[r].days[d].legs, i))
                        /\ (Shown(Start(run[r].days[d].legs, i)) # Start(run[r].days[d].legs, i)
                              \/ Start(run[r].days[d].legs, i) > LateFinish)
                              => Warned(run[r].days[d].legs)
    BY DEF ClockIsHonest
  <2>1. PICK legs : legs = run[r].days[d].legs
    OBVIOUS
  <2>2. legs \in Seq(Leg)
    <3>1. run[r] \in RunState
      BY DEF LInv, TypeOK
    <3>2. run[r].days \in Seq(Routed)
      BY <3>1 DEF RunState, Routed
    <3>3. PICK day \in Routed : day = run[r].days[d]
      BY <3>2
    <3>4. day.legs \in Seq(Leg)
      BY DEF Routed
    <3> QED
      BY <2>1, <3>3, <3>4
  <2> QED
    BY <2>1, <2>2, ClockOfTheDay
<1> QED
  BY LInit, LStep, <1>1, PTL DEF Spec

-----------------------------------------------------------------------------
(* The way. *)

\* Trail, of a plan's state: the days driven, then today.
DrivenDays(days) ==
    LET upTo[d \in 0 .. Len(days)] ==
          IF d = 0 THEN <<>> ELSE upTo[d - 1] \o days[d].legs
    IN  upTo[Len(days)]
Driven(s) == DrivenDays(s.days) \o s.legs

\* Solving the recursion: DrivenDays is its last value.
LEMMA DrivenDaysIs ==
    ASSUME NEW days \in Seq(Routed)
    PROVE  \E g \in [0..Len(days) -> Seq(Leg)] :
              /\ g[0] = <<>> /\ \A k \in 1..Len(days) : g[k] = g[k - 1] \o days[k].legs
              /\ DrivenDays(days) = g[Len(days)]
<1>1. PICK n \in Nat : n = Len(days)
  OBVIOUS
<1>2. PICK A : A = Seq(Leg)
  OBVIOUS
<1>3. PICK F : F = [p \in (1..n) \X A |-> p[2] \o days[p[1]].legs]
  OBVIOUS
<1>4. \A k \in 1..n : days[k].legs \in Seq(Leg)
  <2>1. \A k \in 1..n : days[k] \in Routed
    BY <1>1
  <2> QED
    BY <2>1 DEF Routed
<1>5. F \in [(1..n) \X A -> A]
  <2>1. ASSUME NEW p \in (1..n) \X A PROVE p[2] \o days[p[1]].legs \in A
    <3>1. p[2] \in Seq(Leg) /\ days[p[1]].legs \in Seq(Leg)
      BY <1>2, <1>4
    <3> QED
      BY <1>2, <3>1
  <2> QED
    BY <1>3, <2>1
<1>6. <<>> \in A
  BY <1>2
<1>7. PICK g \in [0..n -> A] : Follows(g, n, <<>>, F)
  BY <1>5, <1>6, Recursion
<1>8. g[0] = <<>>
  BY <1>7 DEF Follows
<1>9. ASSUME NEW k \in 1..n PROVE g[k] = g[k - 1] \o days[k].legs
  <2>1. g[k] = F[<<k, g[k - 1]>>] /\ <<k, g[k - 1]>> \in (1..n) \X A
    BY <1>7 DEF Follows
  <2> QED
    BY <1>3, <2>1
<1> DEFINE upTo == CHOOSE c : c = [d \in 0 .. Len(days) |->
                     IF d = 0 THEN <<>> ELSE c[d - 1] \o days[d].legs]
<1>10. g = [d \in 0 .. Len(days) |-> IF d = 0 THEN <<>> ELSE g[d - 1] \o days[d].legs]
  <2>1. ASSUME NEW d \in 0..n
        PROVE  g[d] = IF d = 0 THEN <<>> ELSE g[d - 1] \o days[d].legs
    <3>1. CASE d = 0
      BY <1>8, <3>1
    <3>2. CASE d # 0
      <4>1. d \in 1..n
        BY <3>2
      <4> QED
        BY <1>9, <3>2, <4>1
    <3> QED
      BY <3>1, <3>2
  <2>2. g = [d \in 0..n |-> g[d]]
    BY <1>7
  <2> QED
    BY <1>1, <2>1, <2>2
<1>11. upTo = [d \in 0 .. Len(days) |-> IF d = 0 THEN <<>> ELSE upTo[d - 1] \o days[d].legs]
  BY <1>10
<1>12. DrivenDays(days) = upTo[n]
  BY <1>1 DEF DrivenDays
<1> HIDE DEF upTo
<1>13. upTo[0] = <<>>
  BY <1>1, <1>11
<1>14. ASSUME NEW k \in 1..n PROVE upTo[k] = upTo[k - 1] \o days[k].legs
  <2>1. k \in 0..Len(days) /\ k # 0
    BY <1>1
  <2> QED
    BY <1>11, <2>1
<1>15. PICK P : P = {k \in 0..n : upTo[k] = g[k]}
  OBVIOUS
<1>16. 0 \in P
  BY <1>8, <1>13, <1>15
<1>17. ASSUME NEW k \in 1..n, k - 1 \in P
       PROVE  k \in P
  <2>1. upTo[k - 1] = g[k - 1]
    BY <1>15, <1>17
  <2>2. upTo[k] = g[k]
    BY <1>9, <1>14, <2>1
  <2> QED
    BY <1>15, <2>2
<1>18. 0..n \subseteq P
  BY <1>16, <1>17, Counting
<1>19. DrivenDays(days) = g[n]
  BY <1>12, <1>15, <1>18
<1> QED
  BY <1>1, <1>2, <1>8, <1>9, <1>19

\* No day, no leg; one day more, its legs after the others.
LEMMA NoDays == DrivenDays(<<>>) = <<>>
<1>1. PICK days : days = <<>>
  OBVIOUS
<1>2. days \in Seq(Routed) /\ Len(days) = 0
  BY <1>1
<1> QED
  BY <1>1, <1>2, DrivenDaysIs

LEMMA OneDayMore ==
    ASSUME NEW days \in Seq(Routed), NEW day \in Routed
    PROVE  /\ DrivenDays(days) \in Seq(Leg)
           /\ DrivenDays(Append(days, day)) = DrivenDays(days) \o day.legs
<1>1. PICK n \in Nat : n = Len(days)
  OBVIOUS
<1>2. PICK more : more = Append(days, day)
  OBVIOUS
<1>3. more \in Seq(Routed) /\ Len(more) = n + 1 /\ more[n + 1] = day
  BY <1>1, <1>2, AppendProperties
<1>4. \A k \in 1..n : more[k] = days[k]
  BY <1>1, <1>2, AppendProperties
<1>5. PICK g \in [0..n -> Seq(Leg)] :
        /\ g[0] = <<>> /\ \A k \in 1..n : g[k] = g[k - 1] \o days[k].legs
        /\ DrivenDays(days) = g[n]
  BY <1>1, DrivenDaysIs
<1>6. PICK h \in [0..(n + 1) -> Seq(Leg)] :
        /\ h[0] = <<>> /\ \A k \in 1..(n + 1) : h[k] = h[k - 1] \o more[k].legs
        /\ DrivenDays(more) = h[n + 1]
  BY <1>3, DrivenDaysIs
<1>7. PICK P : P = {k \in 0..n : g[k] = h[k]}
  OBVIOUS
<1>8. 0 \in P
  BY <1>5, <1>6, <1>7
<1>9. ASSUME NEW k \in 1..n, k - 1 \in P
      PROVE  k \in P
  <2>1. g[k - 1] = h[k - 1]
    BY <1>7, <1>9
  <2>2. g[k] = g[k - 1] \o days[k].legs
    BY <1>5
  <2>3. h[k] = h[k - 1] \o days[k].legs
    <3>1. k \in 1..(n + 1)
      OBVIOUS
    <3> QED
      BY <1>4, <1>6, <3>1
  <2>4. k \in 0..n /\ g[k] = h[k]
    BY <2>1, <2>2, <2>3
  <2> QED
    BY <1>7, <2>4
<1>10. n \in P
  <2>1. 0..n \subseteq P
    BY <1>8, <1>9, Counting
  <2> QED
    BY <2>1
<1>11. h[n + 1] = h[n] \o day.legs
  <2>1. n + 1 \in 1..(n + 1) /\ (n + 1) - 1 = n
    OBVIOUS
  <2> QED
    BY <1>3, <1>6, <2>1
<1> QED
  BY <1>2, <1>5, <1>6, <1>7, <1>10, <1>11

\* Each leg starts where the one before it ended, the first at the origin.
Chained(legs) ==
    \A i \in DOMAIN legs : legs[i].from = IF i = 1 THEN Origin ELSE legs[i - 1].to

EndOf(legs) == IF legs = <<>> THEN Origin ELSE legs[Len(legs)].to

\* One more leg, from where the way ends.
LEMMA Further ==
    ASSUME NEW way \in Seq(Leg), NEW leg \in Leg, Chained(way), leg.from = EndOf(way)
    PROVE  /\ Append(way, leg) \in Seq(Leg) /\ Append(way, leg) # <<>>
           /\ Chained(Append(way, leg)) /\ EndOf(Append(way, leg)) = leg.to
<1>1. PICK n \in Nat : n = Len(way)
  OBVIOUS
<1>2. PICK more : more = Append(way, leg)
  OBVIOUS
<1>3. /\ more \in Seq(Leg) /\ more # <<>> /\ Len(more) = n + 1 /\ more[n + 1] = leg
      /\ \A k \in 1..n : more[k] = way[k]
  BY <1>1, <1>2, AppendProperties
<1>4. ASSUME NEW i \in 1..(n + 1)
      PROVE  more[i].from = IF i = 1 THEN Origin ELSE more[i - 1].to
  <2>1. CASE i <= n
    <3>1. i \in 1..n /\ (i # 1 => i - 1 \in 1..n)
      BY <2>1
    <3>2. way[i].from = IF i = 1 THEN Origin ELSE way[i - 1].to
      BY <1>1, <3>1 DEF Chained
    <3> QED
      BY <1>3, <3>1, <3>2
  <2>2. CASE i = n + 1 /\ n # 0
    <3>1. way # <<>> /\ n \in 1..n /\ i - 1 = n /\ i # 1
      BY <1>1, <2>2
    <3>2. leg.from = way[n].to
      BY <1>1, <3>1 DEF EndOf
    <3> QED
      BY <1>3, <2>2, <3>1, <3>2
  <2>3. CASE i = n + 1 /\ n = 0
    <3>1. way = <<>> /\ i = 1
      <4>1. way # <<>> => Len(way) \in Nat \ {0}
        BY EmptySeq
      <4>2. Len(way) = 0
        BY <1>1, <2>3
      <4>3. way = <<>>
        BY <4>1, <4>2
      <4> QED
        BY <2>3, <4>3
    <3>2. leg.from = Origin
      BY <3>1 DEF EndOf
    <3> QED
      BY <1>3, <2>3, <3>1, <3>2
  <2> QED
    BY <2>1, <2>2, <2>3
<1>5. Chained(more)
  BY <1>3, <1>4 DEF Chained
<1>6. EndOf(more) = leg.to
  BY <1>3 DEF EndOf
<1> QED
  BY <1>2, <1>3, <1>5, <1>6

\* One stands where the way so far ends; nobody has left if no leg is driven,
\* and the way back, once chosen, is from there to the origin.
OnTheWay(s) ==
    /\ Chained(Driven(s)) /\ s.cursor = EndOf(Driven(s))
    /\ s.last = None => Driven(s) = <<>>
    /\ s.at \notin {"save", "assembled"} => s.back = None
    /\ s.at \in {"save", "assembled"} =>
         IF s.back = None THEN Driven(s) = <<>>
         ELSE s.back \in Leg /\ s.back.from = s.cursor /\ s.back.to = Origin

TInv == LInv /\ \A r \in Runs : OnTheWay(run[r])

LEMMA DrivenIs ==
    ASSUME NEW s \in RunState
    PROVE  /\ s.days \in Seq(Routed) /\ s.legs \in Seq(Leg)
           /\ DrivenDays(s.days) \in Seq(Leg) /\ Driven(s) \in Seq(Leg)
<1>1. s.days \in Seq(Routed) /\ s.legs \in Seq(Leg)
  BY DEF RunState, Routed
<1>2. DrivenDays(s.days) \in Seq(Leg)
  <2>1. PICK days \in Seq(Routed) : days = s.days
    BY <1>1
  <2>2. \E g \in [0..Len(days) -> Seq(Leg)] : DrivenDays(days) = g[Len(days)]
    BY <2>1, DrivenDaysIs
  <2>3. Len(days) \in 0..Len(days)
    OBVIOUS
  <2> QED
    BY <2>1, <2>2, <2>3
<1>3. Driven(s) \in Seq(Leg)
  BY <1>1, <1>2, ConcatProperties DEF Driven
<1> QED
  BY <1>1, <1>2, <1>3

LEMMA IdleOnTheWay == OnTheWay(Idle)
<1>1. Driven(Idle) = <<>>
  BY NoDays DEF Driven, Idle
<1>2. Chained(<<>>) /\ EndOf(<<>>) = Origin
  BY DEF Chained, EndOf
<1> QED
  BY <1>1, <1>2 DEF OnTheWay, Idle

\* Nothing of the way changes.
LEMMA SameWay ==
    ASSUME NEW m, NEW s, OnTheWay(m), Driven(s) = Driven(m),
           s.cursor = m.cursor, s.last = m.last, s.back = m.back,
           s.at \in {"save", "assembled"} <=> m.at \in {"save", "assembled"}
    PROVE  OnTheWay(s)
<1> QED
  BY DEF OnTheWay

\* One leg more is driven, from where one stands.
LEMMA OneLegMore ==
    ASSUME NEW m \in RunState, NEW s, NEW leg \in Leg, OnTheWay(m),
           m.at \notin {"save", "assembled"}, s.at \notin {"save", "assembled"},
           leg.from = m.cursor, Driven(s) = Append(Driven(m), leg),
           s.cursor = leg.to, s.last # None, s.back = m.back
    PROVE  OnTheWay(s)
<1>1. Driven(m) \in Seq(Leg) /\ Chained(Driven(m)) /\ leg.from = EndOf(Driven(m)) /\ m.back = None
  BY DrivenIs DEF OnTheWay
<1>2. /\ Append(Driven(m), leg) # <<>>
      /\ Chained(Append(Driven(m), leg)) /\ EndOf(Append(Driven(m), leg)) = leg.to
  BY <1>1, Further
<1> QED
  BY <1>1, <1>2 DEF OnTheWay

\* Asking for a leg moves nobody.
LEMMA AskingIsStaying ==
    ASSUME NEW r \in Runs, run[r] \in RunState, NEW leg
    PROVE  LET m == Remembered(r, leg)
           IN  /\ m.cursor = run[r].cursor /\ m.last = run[r].last /\ m.back = run[r].back
               /\ m.todo = run[r].todo
<1> QED
  BY DEF Remembered, RunState

\* A day that is closed was driven where it was driven before.
LEMMA ClosedWay ==
    ASSUME NEW m \in RunState, NEW legs \in Seq(Leg)
    PROVE  LET s == Closed(m, legs)
           IN  /\ Driven(s) = DrivenDays(m.days) \o legs
               /\ s.cursor = m.cursor /\ s.last = m.last /\ s.back = m.back
               /\ s.at = "route"
<1> DEFINE s == Closed(m, legs)
<1>1. Day(legs) \in Routed /\ Day(legs).legs = legs
  BY DayIsTyped DEF Routed
<1>2. /\ s.days = Append(m.days, Day(legs)) /\ s.legs = <<>>
      /\ s.cursor = m.cursor /\ s.last = m.last /\ s.back = m.back /\ s.at = "route"
  BY DEF Closed, RunState
<1>3. m.days \in Seq(Routed) /\ DrivenDays(m.days) \in Seq(Leg)
  BY DrivenIs
<1> HIDE DEF s
<1>4. DrivenDays(s.days) = DrivenDays(m.days) \o legs
  BY <1>1, <1>2, <1>3, OneDayMore
<1>5. DrivenDays(m.days) \o legs \in Seq(Leg)
  BY <1>3, ConcatProperties
<1>6. Driven(s) = DrivenDays(m.days) \o legs
  BY <1>2, <1>4, <1>5, ConcatEmptySeq DEF Driven
<1> QED
  BY <1>2, <1>6 DEF s

\* A leg after today's is a leg after all.
LEMMA TodayIsLast ==
    ASSUME NEW m \in RunState, NEW leg \in Leg
    PROVE  /\ Append(m.legs, leg) \in Seq(Leg)
           /\ DrivenDays(m.days) \o Append(m.legs, leg) = Append(Driven(m), leg)
<1>1. m.legs \in Seq(Leg) /\ DrivenDays(m.days) \in Seq(Leg) /\ Driven(m) \in Seq(Leg)
  BY DrivenIs
<1>2. <<leg>> \in Seq(Leg)
  OBVIOUS
<1>3. Append(m.legs, leg) = m.legs \o <<leg>> /\ Append(m.legs, leg) \in Seq(Leg)
  BY <1>1, AppendIsConcat
<1>4. Append(Driven(m), leg) = Driven(m) \o <<leg>>
  BY <1>1, AppendIsConcat
<1>5. (DrivenDays(m.days) \o m.legs) \o <<leg>> = DrivenDays(m.days) \o (m.legs \o <<leg>>)
  <2>1. PICK before \in Seq(Leg) : before = DrivenDays(m.days)
    BY <1>1
  <2>2. PICK today \in Seq(Leg) : today = m.legs
    BY <1>1
  <2>3. PICK one \in Seq(Leg) : one = <<leg>>
    BY <1>2
  <2>4. (before \o today) \o one = before \o (today \o one)
    BY ConcatAssociative
  <2> QED
    BY <2>1, <2>2, <2>3, <2>4
<1> QED
  BY <1>3, <1>4, <1>5 DEF Driven

\* One plan moves and stays on its way.
LEMMA OneGoes ==
    ASSUME TInv, LInv', NEW r \in Runs, NEW s, OnTheWay(s), run' = [run EXCEPT ![r] = s]
    PROVE  TInv'
<1>1. \A q \in Runs : run'[q] = IF q = r THEN s ELSE run[q]
  BY DEF TInv, LInv, TypeOK
<1>2. \A q \in Runs : OnTheWay(run'[q])
  BY <1>1 DEF TInv
<1> QED
  BY <1>2 DEF TInv

LEMMA VisitGoesOn ==
    ASSUME TInv, LInv', NEW r \in Runs, Visit(r)
    PROVE  TInv'
<1>0. PICK slot \in run[r].todo :
        LET leg == LegOf(r, run[r].cursor, slot[2])
        IN  run' = [run EXCEPT ![r] = [Remembered(r, leg) EXCEPT
               !.cursor = slot[2], !.last = slot[2], !.todo = @ \ {slot},
               !.legs = Append(@, leg)]]
  BY DEF Visit, Nearest
<1>1. PICK t : /\ t = slot[2]
               /\ LET leg == LegOf(r, run[r].cursor, t)
                  IN  run' = [run EXCEPT ![r] = [Remembered(r, leg) EXCEPT
                         !.cursor = t, !.last = t, !.todo = @ \ {slot},
                         !.legs = Append(@, leg)]]
  BY <1>0
<1> DEFINE leg == LegOf(r, run[r].cursor, t)
           m == Remembered(r, leg)
           s == [m EXCEPT !.cursor = t, !.last = t, !.todo = @ \ {slot},
                          !.legs = Append(@, leg)]
<1>2. /\ TypeOK /\ run[r] \in RunState /\ PlanOK(estimates, run[r]) /\ run[r].at = "day"
      /\ OnTheWay(run[r])
  BY DEF TInv, LInv, TypeOK, Visit
<1>3. run[r].cursor \in Pois \cup {Origin} /\ t \in Stops /\ t \in Pois /\ t # None
  BY <1>1, <1>2, PlacesAssumption DEF RunState, Pois
<1>4. /\ leg \in Leg /\ leg.from = run[r].cursor /\ leg.to = t
      /\ m \in RunState /\ m.legs = run[r].legs /\ m.days = run[r].days /\ m.at = "day"
  <2>1. run[r].at \notin {"assembled", "load"}
    BY <1>2
  <2> QED
    BY <1>2, <1>3, <2>1, AskIsOK
<1>5. m.cursor = run[r].cursor /\ m.last = run[r].last /\ m.back = run[r].back
  BY <1>2, AskingIsStaying
<1>6. run' = [run EXCEPT ![r] = s]
  BY <1>1
<1> HIDE DEF m, leg
<1>7. /\ s.legs = Append(m.legs, leg) /\ s.days = m.days /\ s.at = "day"
      /\ s.cursor = t /\ s.last = t /\ s.back = m.back
  BY <1>4 DEF RunState
<1>8. OnTheWay(m)
  <2>1. Driven(m) = Driven(run[r])
    BY <1>4 DEF Driven
  <2>2. m.at \in {"save", "assembled"} <=> run[r].at \in {"save", "assembled"}
    BY <1>2, <1>4
  <2> QED
    BY <1>2, <1>5, <2>1, <2>2, SameWay
<1> HIDE DEF s
<1>9. Driven(s) = Append(Driven(m), leg)
  <2>1. DrivenDays(m.days) \o Append(m.legs, leg) = Append(Driven(m), leg)
    BY <1>4, TodayIsLast
  <2> QED
    BY <1>7, <2>1 DEF Driven
<1>10. OnTheWay(s)
  <2>1. m.at \notin {"save", "assembled"} /\ s.at \notin {"save", "assembled"}
    BY <1>4, <1>7
  <2>2. leg.from = m.cursor /\ s.cursor = leg.to /\ s.last # None
    BY <1>3, <1>4, <1>5, <1>7
  <2> QED
    BY <1>4, <1>7, <1>8, <1>9, <2>1, <2>2, OneLegMore
<1> QED
  BY <1>6, <1>10, OneGoes

LEMMA EndDayGoesOn ==
    ASSUME TInv, LInv', NEW r \in Runs, EndDay(r)
    PROVE  TInv'
<1>1. /\ TypeOK /\ run[r] \in RunState /\ PlanOK(estimates, run[r]) /\ run[r].at = "day"
      /\ OnTheWay(run[r])
  BY DEF TInv, LInv, TypeOK, EndDay
<1>2. CASE run[r].bed = None
  <2> DEFINE m == run[r]
             s == Closed(m, m.legs)
  <2>1. run' = [run EXCEPT ![r] = s]
    BY <1>2 DEF EndDay
  <2>2. m.legs \in Seq(Leg) /\ m \in RunState /\ OnTheWay(m) /\ m.at = "day"
    BY <1>1 DEF RunState
  <2> HIDE DEF m
  <2>3. /\ Driven(s) = DrivenDays(m.days) \o m.legs
        /\ s.cursor = m.cursor /\ s.last = m.last /\ s.back = m.back /\ s.at = "route"
    BY <2>2, ClosedWay
  <2> HIDE DEF s
  <2>4. OnTheWay(s)
    <3>1. Driven(s) = Driven(m)
      BY <2>3 DEF Driven
    <3>2. s.at \in {"save", "assembled"} <=> m.at \in {"save", "assembled"}
      BY <2>2, <2>3
    <3> QED
      BY <2>2, <2>3, <3>1, <3>2, SameWay
  <2> QED
    BY <2>1, <2>4, OneGoes
<1>3. CASE run[r].bed # None
  <2> DEFINE leg == LegOf(r, run[r].cursor, run[r].bed)
             m == Remembered(r, leg)
             all == Append(run[r].legs, leg)
             c == Closed(m, all)
             s == [c EXCEPT !.cursor = leg.to, !.last = leg.to, !.bed = None]
  <2>1. run' = [run EXCEPT ![r] = s]
    BY <1>3 DEF EndDay
  <2>2. run[r].cursor \in Pois \cup {Origin} /\ run[r].bed \in Pois
    BY <1>1, <1>3 DEF RunState, Pois
  <2>3. /\ leg \in Leg /\ leg.from = run[r].cursor /\ leg.to \in Pois
        /\ m \in RunState /\ m.legs = run[r].legs /\ m.days = run[r].days /\ m.at = "day"
    <3>1. run[r].at \notin {"assembled", "load"}
      BY <1>1
    <3> QED
      BY <1>1, <2>2, <3>1, AskIsOK
  <2>4. m.cursor = run[r].cursor /\ m.last = run[r].last /\ m.back = run[r].back
    BY <1>1, AskingIsStaying
  <2> HIDE DEF m, leg
  <2>5. /\ all \in Seq(Leg)
        /\ DrivenDays(m.days) \o all = Append(Driven(m), leg)
    BY <2>3, TodayIsLast
  <2> HIDE DEF all
  <2>6. /\ Driven(c) = DrivenDays(m.days) \o all
        /\ c.back = m.back /\ c.at = "route"
    BY <2>3, <2>5, ClosedWay
  <2>7. c \in RunState
    BY <2>3, <2>5, ClosedDay
  <2> HIDE DEF c
  <2>8. /\ s.days = c.days /\ s.legs = c.legs /\ s.at = "route"
        /\ s.cursor = leg.to /\ s.last = leg.to /\ s.back = m.back
    BY <2>6, <2>7 DEF RunState
  <2>9. OnTheWay(m)
    <3>1. Driven(m) = Driven(run[r])
      BY <2>3 DEF Driven
    <3>2. m.at \in {"save", "assembled"} <=> run[r].at \in {"save", "assembled"}
      BY <1>1, <2>3
    <3> QED
      BY <1>1, <2>4, <3>1, <3>2, SameWay
  <2> HIDE DEF s
  <2>10. Driven(s) = Append(Driven(m), leg)
    BY <2>5, <2>6, <2>8 DEF Driven
  <2>11. OnTheWay(s)
    <3>1. m.at \notin {"save", "assembled"} /\ s.at \notin {"save", "assembled"}
      BY <2>3, <2>8
    <3>2. leg.from = m.cursor /\ s.last # None
      BY <2>3, <2>4, <2>8, PlacesAssumption
    <3> QED
      BY <2>3, <2>8, <2>9, <2>10, <3>1, <3>2, OneLegMore
  <2> QED
    BY <2>1, <2>11, OneGoes
<1> QED
  BY <1>2, <1>3

LEMMA ReturnGoesOn ==
    ASSUME TInv, LInv', NEW r \in Runs, Return(r)
    PROVE  TInv'
<1> DEFINE m == run[r]
           back == IF m.last = None THEN None
                   ELSE [from |-> m.cursor, to |-> Origin,
                         source |-> Measured(r, m.cursor, Origin)]
           s == [m EXCEPT !.at = "save", !.back = back]
<1>1. m \in RunState /\ OnTheWay(m)
  BY DEF TInv, LInv, TypeOK
<1>2. run' = [run EXCEPT ![r] = s]
  BY DEF Return
<1>3. m.last # None => back \in Leg /\ back.from = m.cursor /\ back.to = Origin
  BY <1>1 DEF RunState, Leg, Measured, Sources
<1>4. m.last # None => back # None
  BY <1>3, NoneIsNoLeg
<1>5. /\ s.legs = m.legs /\ s.days = m.days /\ s.at = "save"
      /\ s.cursor = m.cursor /\ s.last = m.last /\ s.back = back
  BY <1>1 DEF RunState
<1>6. m.last = None => back = None
  OBVIOUS
<1> HIDE DEF s, m, back
<1>7. Driven(s) = Driven(m)
  BY <1>5 DEF Driven
<1>8. OnTheWay(s)
  BY <1>1, <1>3, <1>4, <1>5, <1>6, <1>7 DEF OnTheWay
<1> QED
  BY <1>2, <1>8, OneGoes

\* The steps that drive nowhere.
LEMMA OthersGoOn ==
    ASSUME TInv, LInv', NEW r \in Runs,
           \/ Begin(r) \/ LoadCachedLegs(r) \/ BeginDay(r)
           \/ SaveLeg(r) \/ Done(r) \/ Leave(r)
    PROVE  TInv'
<1>1. run[r] \in RunState /\ OnTheWay(run[r])
  BY DEF TInv, LInv, TypeOK
<1>2. ASSUME NEW s, run' = [run EXCEPT ![r] = s], s.legs = run[r].legs, s.days = run[r].days,
             s.cursor = run[r].cursor, s.last = run[r].last, s.back = run[r].back,
             s.at \in {"save", "assembled"} <=> run[r].at \in {"save", "assembled"}
      PROVE  TInv'
  <2>1. Driven(s) = Driven(run[r])
    BY <1>2 DEF Driven
  <2>2. OnTheWay(s)
    BY <1>1, <1>2, <2>1, SameWay
  <2> QED
    BY <1>2, <2>2, OneGoes
<1>3. CASE Begin(r)
  <2>1. PICK provider, matrix, draft :
          run' = [run EXCEPT ![r] = [Idle EXCEPT !.at = "load", !.provider = provider,
                                                 !.matrix = matrix, !.draft = draft]]
    BY <1>3 DEF Begin
  <2> DEFINE s == [Idle EXCEPT !.at = "load", !.provider = provider,
                               !.matrix = matrix, !.draft = draft]
  <2>2. /\ s.legs = Idle.legs /\ s.days = Idle.days /\ s.cursor = Idle.cursor
        /\ s.last = Idle.last /\ s.back = Idle.back /\ s.at = "load" /\ Idle.at = "idle"
    BY DEF Idle
  <2>3. run' = [run EXCEPT ![r] = s]
    BY <2>1
  <2> HIDE DEF s
  <2>4. Driven(s) = Driven(Idle)
    BY <2>2 DEF Driven
  <2>5. OnTheWay(s)
    BY <2>2, <2>4, IdleOnTheWay, SameWay
  <2> QED
    BY <2>3, <2>5, OneGoes
<1>4. CASE LoadCachedLegs(r)
  <2>1. PICK cached :
          run' = [run EXCEPT ![r] = [@ EXCEPT !.at = "route", !.read = estimates,
                                              !.cached = cached]]
    BY <1>4 DEF LoadCachedLegs
  <2> DEFINE s == [run[r] EXCEPT !.at = "route", !.read = estimates, !.cached = cached]
  <2>2. /\ s.legs = run[r].legs /\ s.days = run[r].days /\ s.cursor = run[r].cursor
        /\ s.last = run[r].last /\ s.back = run[r].back /\ s.at = "route"
    BY <1>1 DEF RunState
  <2>3. run' = [run EXCEPT ![r] = s] /\ run[r].at = "load"
    BY <1>4, <2>1 DEF LoadCachedLegs
  <2> HIDE DEF s
  <2> QED
    BY <1>2, <2>2, <2>3
<1>5. CASE BeginDay(r)
  <2>1. PICK todo, bed :
          run' = [run EXCEPT ![r] = [@ EXCEPT !.at = "day", !.todo = todo, !.bed = bed]]
    BY <1>5 DEF BeginDay
  <2> DEFINE s == [run[r] EXCEPT !.at = "day", !.todo = todo, !.bed = bed]
  <2>2. /\ s.legs = run[r].legs /\ s.days = run[r].days /\ s.cursor = run[r].cursor
        /\ s.last = run[r].last /\ s.back = run[r].back /\ s.at = "day"
    BY <1>1 DEF RunState
  <2>3. run' = [run EXCEPT ![r] = s] /\ run[r].at = "route"
    BY <1>5, <2>1 DEF BeginDay
  <2> HIDE DEF s
  <2> QED
    BY <1>2, <2>2, <2>3
<1>6. CASE SaveLeg(r)
  <2> DEFINE s == [run[r] EXCEPT !.computed = Tail(run[r].computed)]
  <2>1. run' = [run EXCEPT ![r] = s]
    <3>1. run' = [run EXCEPT ![r].computed = Tail(@)]
      BY <1>6 DEF SaveLeg
    <3> QED
      BY <3>1
  <2>2. /\ s.legs = run[r].legs /\ s.days = run[r].days /\ s.cursor = run[r].cursor
        /\ s.last = run[r].last /\ s.back = run[r].back /\ s.at = run[r].at
    BY <1>1 DEF RunState
  <2> HIDE DEF s
  <2> QED
    BY <1>2, <2>1, <2>2
<1>7. CASE Done(r)
  <2> DEFINE s == [run[r] EXCEPT !.at = "assembled"]
  <2>1. run' = [run EXCEPT ![r] = s] /\ run[r].at = "save"
    <3>1. run' = [run EXCEPT ![r].at = "assembled"]
      BY <1>7 DEF Done
    <3> QED
      BY <1>7, <3>1 DEF Done
  <2>2. /\ s.legs = run[r].legs /\ s.days = run[r].days /\ s.cursor = run[r].cursor
        /\ s.last = run[r].last /\ s.back = run[r].back /\ s.at = "assembled"
    BY <1>1 DEF RunState
  <2> HIDE DEF s
  <2> QED
    BY <1>2, <2>1, <2>2
<1>8. CASE Leave(r)
  <2>1. run' = [run EXCEPT ![r] = Idle]
    BY <1>8 DEF Leave
  <2> QED
    BY <2>1, IdleOnTheWay, OneGoes
<1> QED
  BY <1>3, <1>4, <1>5, <1>6, <1>7, <1>8

\* What the way of each plan says of its trail.
LEMMA TheWayIsContinuous == TInv => TripIsContinuous
<1> SUFFICES ASSUME TInv, NEW r \in Runs
             PROVE  LET legs == IF run[r].back = None THEN Trail(r)
                                ELSE Append(Trail(r), run[r].back)
                    IN  /\ \A i \in DOMAIN legs :
                             legs[i].from = IF i = 1 THEN Origin ELSE legs[i - 1].to
                        /\ run[r].at \in {"save", "assembled"} /\ legs # <<>> =>
                             legs[Len(legs)].to = Origin
  BY DEF TripIsContinuous
<1>1. PICK s \in RunState : s = run[r]
  BY DEF TInv, LInv, TypeOK
<1>2. OnTheWay(s)
  BY <1>1 DEF TInv
<1>3. Trail(r) = Driven(s)
  BY <1>1 DEF Trail, Driven, DrivenDays
<1>4. PICK way \in Seq(Leg) : way = Driven(s)
  BY DrivenIs
<1>5. CASE s.back = None
  <2>1. Chained(way) /\ (s.at \in {"save", "assembled"} => way = <<>>)
    BY <1>2, <1>4, <1>5 DEF OnTheWay
  <2> QED
    BY <1>1, <1>3, <1>4, <1>5, <2>1 DEF Chained
<1>6. CASE s.back # None
  <2>1. PICK leg \in Leg : leg = s.back /\ leg.from = EndOf(way) /\ leg.to = Origin
    BY <1>2, <1>4, <1>6 DEF OnTheWay
  <2>2. Chained(way)
    BY <1>2, <1>4 DEF OnTheWay
  <2>3. PICK all : all = Append(way, leg)
    OBVIOUS
  <2>4. all # <<>> /\ Chained(all) /\ EndOf(all) = leg.to
    BY <2>1, <2>2, <2>3, Further
  <2>5. all[Len(all)].to = Origin
    BY <2>1, <2>4 DEF EndOf
  <2> QED
    BY <1>1, <1>3, <1>4, <1>6, <2>1, <2>3, <2>4, <2>5 DEF Chained
<1> QED
  BY <1>5, <1>6

\* A plan is one drive: every leg starts where the one before it ended, over the
\* nights and after a lost worker too, the first at the origin and the last back
\* there (routing.py, route).
THEOREM ContinuousTrip == Spec => []TripIsContinuous
<1>1. Init => TInv
  <2> SUFFICES ASSUME Init PROVE TInv
    OBVIOUS
  <2>1. \A r \in Runs : run[r] = Idle
    BY DEF Init
  <2> QED
    BY <2>1, LInit, IdleOnTheWay DEF TInv
<1>2. TInv /\ [Next]_vars => TInv'
  <2> SUFFICES ASSUME TInv, [Next]_vars PROVE TInv'
    OBVIOUS
  <2>1. LInv'
    BY LStep DEF TInv
  <2>2. CASE Next
    <3>1. PICK r \in Runs :
            \/ Begin(r) \/ LoadCachedLegs(r) \/ BeginDay(r) \/ Visit(r) \/ EndDay(r)
            \/ Return(r) \/ SaveLeg(r) \/ Done(r) \/ Leave(r)
      BY <2>2 DEF Next
    <3> QED
      BY <2>1, <3>1, VisitGoesOn, EndDayGoesOn, ReturnGoesOn, OthersGoOn
  <2>3. CASE UNCHANGED vars
    <3>1. run' = run
      BY <2>3 DEF vars
    <3>2. \A r \in Runs : OnTheWay(run'[r])
      BY <3>1 DEF TInv
    <3> QED
      BY <2>1, <3>2 DEF TInv
  <2> QED
    BY <2>2, <2>3
<1> QED
  BY <1>1, <1>2, TheWayIsContinuous, PTL DEF Spec

=============================================================================
