--------------------------- MODULE Planning_proofs ---------------------------
(* Theorems about Planning, for every catalogue, form and number of changes.  *)
EXTENDS Planning, FiniteSetTheorems, WellFoundedInduction, TLAPS

-----------------------------------------------------------------------------
(* The queries.                                                              *)

\* Some naturals have a smallest: min(cost_band) is one of the bands.
LEMMA Least ==
    ASSUME NEW S \in SUBSET Nat, S # {}
    PROVE  \E n \in S : \A k \in S : n <= k
<1> DEFINE R == {ss \in Nat \X Nat : ss[1] < ss[2]}
<1>1. R = OpToRel(<, Nat)
  BY DEF OpToRel
<1>2. IsWellFoundedOn(R, Nat)
  BY <1>1, NatLessThanWellFounded
<1> HIDE DEF R
<1>3. PICK n \in S : \A k \in S : ~ (<<k, n>> \in R)
  BY <1>2, WFMin
<1>4. ASSUME NEW k \in S PROVE n <= k
  <2>1. ~(<<k, n>> \in R)
    BY <1>3
  <2>2. ~(k < n)
    BY <2>1 DEF R
  <2> QED BY <2>2
<1> QED BY <1>3, <1>4

\* The catalogue is finite, so that its rows can be counted.
LEMMA RowsAreFinite ==
    ASSUME NEW S \in SUBSET Pois
    PROVE  IsFiniteSet(S) /\ Cardinality(S) \in Nat /\ (Cardinality(S) = 0 <=> S = {})
BY CatalogueAssumption, FS_Subset, FS_CardinalityType, FS_EmptySet

Catalogued == published \subseteq Pois /\ facts \in [Pois -> Fact]

LEMMA QueriesArePois ==
    ASSUME Catalogued, NEW b, NEW kind
    PROVE  /\ Candidates(kind, b) \subseteq Pois
           /\ Scoped(b) \subseteq Pois /\ Exact(b) \subseteq Scoped(b)
           /\ \A km : Within(b, km) \subseteq Pois
BY DEF Catalogued, Candidates, Scoped, Exact, Within

LEMMA CappedIs ==
    ASSUME NEW S \in SUBSET Pois, NEW n \in Nat, NEW T \in Capped(S, n)
    PROVE  /\ T \subseteq S
           /\ Cardinality(S) \in Nat /\ Cardinality(T) \in Nat
           /\ Cardinality(T) = Cardinality(S) \/ Cardinality(T) = n
<1>1. T \in SUBSET S /\ T \in SUBSET Pois
  BY DEF Capped
<1>2. Cardinality(S) \in Nat /\ Cardinality(T) \in Nat
  BY <1>1, RowsAreFinite
<1> QED BY <1>1, <1>2 DEF Capped

\* What fetch_candidates asks for, kind by kind, is what feasibility counts.
LEMMA CandidatesAreExact ==
    ASSUME Catalogued, NEW b
    PROVE  /\ b.district \in Districts =>
                Candidates("place", b) \cup Candidates("activity", b) = Exact(b)
           /\ b.district \notin Districts => \A kind : Candidates(kind, b) = {}
           /\ Candidates("place", b) \cap Candidates("activity", b) = {}
           /\ Cardinality(Candidates("place", b) \cup Candidates("activity", b))
                = Cardinality(Candidates("place", b)) + Cardinality(Candidates("activity", b))
<1> DEFINE P == Candidates("place", b)
           A == Candidates("activity", b)
<1>1. \A p \in published : facts[p].kind \in {"place", "stay", "activity"}
  BY DEF Catalogued, Fact, Kinds
<1>2. b.district \in Districts => P \cup A = Exact(b)
  BY <1>1 DEF Candidates, Exact, Scoped
<1>3. b.district \notin Districts => \A kind : Candidates(kind, b) = {}
  BY DEF Candidates
<1>4. P \cap A = {}
  BY DEF Candidates
<1>5. P \subseteq Pois /\ A \subseteq Pois
  BY QueriesArePois
<1>6. /\ IsFiniteSet(P) /\ IsFiniteSet(A)
      /\ Cardinality(P) \in Nat /\ Cardinality(A) \in Nat
  BY <1>5, RowsAreFinite
<1> HIDE DEF P, A
<1>7. Cardinality(P \cup A) = Cardinality(P) + Cardinality(A) - Cardinality(P \cap A)
  BY <1>6, FS_Union
<1>8. Cardinality(P \cup A) = Cardinality(P) + Cardinality(A)
  BY <1>4, <1>6, <1>7, FS_EmptySet
<1> QED BY <1>2, <1>3, <1>4, <1>8 DEF P, A

\* The verdict names one cause, and accepts what has a stop for every day.
LEMMA ReasonIs ==
    ASSUME Catalogued, NEW b, b.days \in Nat \ {0}
    PROVE  /\ Reason(b) \in Reasons
           /\ Reason(b) = "ok" <=>
                b.district \in Districts /\ Cardinality(Exact(b)) >= b.days
           /\ (b.district \in Districts /\ Exact(b) # {} /\ Reason(b) # "ok")
                => Reason(b) = "not_enough_for_days"
           /\ Reason(b) = "not_enough_for_days" =>
                /\ b.district \in Districts /\ Exact(b) # {}
                /\ Cardinality(Exact(b)) \in Nat /\ Cardinality(Exact(b)) < b.days
           /\ Reason(b) = "nothing_in_radius" => b.mode = "location"
           /\ Reason(b) \notin {"no_data"} => b.district \in Districts
<1> DEFINE tagged == {p \in Scoped(b) : Wanted(p, b)}
<1>0. /\ Exact(b) \subseteq Pois /\ Cardinality(Exact(b)) \in Nat
      /\ Cardinality(Exact(b)) = 0 <=> Exact(b) = {}
  <2>1. Exact(b) \subseteq Pois
    BY QueriesArePois
  <2> QED BY <2>1, RowsAreFinite
<1>1. CASE b.district \notin Districts
  <2>1. Reason(b) = "no_data"
    BY <1>1 DEF Reason
  <2> QED BY <1>1, <2>1 DEF Reasons
<1>2. CASE b.district \in Districts /\ Cardinality(Exact(b)) >= b.days
  <2>1. Reason(b) = "ok"
    BY <1>2 DEF Reason
  <2> QED BY <1>2, <2>1 DEF Reasons
<1>3. CASE b.district \in Districts /\ ~(Cardinality(Exact(b)) >= b.days) /\ Exact(b) # {}
  <2>1. Reason(b) = "not_enough_for_days"
    BY <1>3 DEF Reason
  <2> QED BY <1>0, <1>3, <2>1 DEF Reasons
<1>4. CASE b.district \in Districts /\ ~(Cardinality(Exact(b)) >= b.days) /\ Exact(b) = {}
  <2>1. CASE Scoped(b) = {}
    <3>1. Reason(b) = IF b.mode = "location" THEN "nothing_in_radius" ELSE "no_data"
      BY <1>4, <2>1 DEF Reason
    <3> QED BY <1>4, <3>1 DEF Reasons
  <2>2. CASE Scoped(b) # {} /\ tagged = {}
    <3>1. Reason(b) = "nothing_tagged"
      BY <1>4, <2>2 DEF Reason
    <3> QED BY <1>4, <3>1 DEF Reasons
  <2>3. CASE Scoped(b) # {} /\ tagged # {} /\ \A p \in tagged : ~InSeason(p, b.month)
    <3>1. Reason(b) = "out_of_season"
      BY <1>4, <2>3 DEF Reason
    <3> QED BY <1>4, <3>1 DEF Reasons
  <2>4. CASE Scoped(b) # {} /\ tagged # {} /\ ~(\A p \in tagged : ~InSeason(p, b.month))
    <3>1. Reason(b) = "budget_too_low"
      BY <1>4, <2>4 DEF Reason
    <3> QED BY <1>4, <3>1 DEF Reasons
  <2> QED BY <2>1, <2>2, <2>3, <2>4
<1> QED BY <1>0, <1>1, <1>2, <1>3, <1>4

\* An advised budget is that of a row the filters leave.
LEMMA BandAdvisedIs ==
    ASSUME Catalogued, NEW b, BandAdvised(b) # None
    PROVE  /\ BandAdvised(b) \in Bands
           /\ \E p \in Scoped(b) : Wanted(p, b) /\ InSeason(p, b.month)
                                    /\ facts[p].band = BandAdvised(b)
<1> DEFINE rows == {q \in Scoped(b) : Wanted(q, b) /\ InSeason(q, b.month)}
           bands == {facts[p].band : p \in rows} \ {0}
<1>1. bands \subseteq Bands
  BY DEF Catalogued, Fact, Scoped
<1>2. bands # {}
  BY DEF BandAdvised
<1>3. BandAdvised(b) = CHOOSE n \in bands : \A k \in bands : n <= k
  BY <1>2 DEF BandAdvised
<1> HIDE DEF bands
<1>4. \E n \in bands : \A k \in bands : n <= k
  BY <1>1, <1>2, Least, CatalogueAssumption
<1>5. BandAdvised(b) \in bands
  BY <1>3, <1>4
<1> QED BY <1>1, <1>5 DEF bands

\* The queries depend on the catalogue only.
LEMMA CatalogueStays ==
    ASSUME published' = published, facts' = facts, NEW b, NEW kind
    PROVE  /\ Candidates(kind, b)' = Candidates(kind, b)
           /\ Reason(b)' = Reason(b)
           /\ Exact(b)' = Exact(b) /\ Scoped(b)' = Scoped(b)
           /\ \A km : Within(b, km)' = Within(b, km)
           /\ \A slug : Resolved(slug)' = Resolved(slug)
<1>1. /\ Candidates(kind, b)' = Candidates(kind, b)
      /\ Exact(b)' = Exact(b) /\ Scoped(b)' = Scoped(b)
  BY DEF Candidates, Exact, Scoped, Affordable, InSeason, InScope, Wanted, Tagged
<1>2. /\ \A km : Within(b, km)' = Within(b, km)
      /\ \A slug : Resolved(slug)' = Resolved(slug)
  BY DEF Within, Affordable, InSeason, Resolved
<1>3. Reason(b)' = Reason(b)
  BY DEF Reason, Exact, Scoped, Affordable, InSeason, InScope, Wanted, Tagged
<1> QED BY <1>1, <1>2, <1>3

-----------------------------------------------------------------------------
(* The inductive invariant.                                                  *)

\* What build_brief makes: an anchor is a known place, a trip around one has it
\* and a radius, and a trip by interests has some.
WellMade(b) ==
    /\ b \in Brief
    /\ b.anchor # None => /\ b.anchor.slug \in Slugs
                          /\ b.anchor.kind = "poi" => b.anchor.slug \in Pois
    /\ b.mode = "location" => b.anchor # None /\ b.radius \in Nat
    /\ b.mode = "interest" => b.tags # {}

\* The pre-flight's answer is about the catalogue it saw.
AskInv ==
    /\ ask.seen <= changes
    /\ ask.brief = None <=> ask.at \in {"form", "resolving", "rejected"}
    /\ ask.brief # None => WellMade(ask.brief)
    /\ ask.at \in {"storing", "accepted"} => ask.brief.district \in Districts
    /\ changes = ask.seen =>
         \A b \in {ask.brief} :
            /\ ask.at \in {"storing", "accepted"} => Reason(b) = "ok"
            /\ ask.at \in {"months", "interests", "radius", "refused"} => Reason(b) # "ok"
    /\ verdict.days # None => verdict.days \in 1 .. MaxDays

\* The row and its job are those of the accepted brief.
StoreInv ==
    /\ request # None <=> ask.at = "accepted"
    /\ request # None => request = RequestOf(ask.brief)
    /\ job.at # "none" <=> ask.at = "accepted"

\* What an attempt has retrieved, if the catalogue stood still for it.
JobInv ==
    /\ job.brief = None <=> job.at \in {"none", "queued"}
    /\ job.brief # None => /\ job.brief = Loaded(request)
                           /\ ask.seen <= job.seen /\ job.seen <= changes
    /\ job.at \in {"diagnose", "failed"} => job.places = {} /\ job.activities = {}
    /\ changes = job.seen =>
         \A b \in {job.brief} :
            /\ job.at \in {"stays", "activities", "diagnose", "retrieved", "failed"} =>
                  job.places \in Capped(Candidates("place", b), MaxPlaces)
            /\ job.at \in {"diagnose", "retrieved", "failed"} =>
                  job.activities \in Capped(Candidates("activity", b), MaxActivities)
    /\ job.at # "failed" => job.error = None
    /\ job.at = "failed" /\ changes = job.seen =>
         job.error # "ok" /\ (job.error = None => job.brief.tags = {})

PlanInv == TypeOK /\ AskInv /\ StoreInv /\ JobInv

\* What a form leads to: the places its anchor may resolve to.
Choices(f) == IF f.mode = "location" THEN Resolved(f.anchor) ELSE {None}

\* A brief that is not refused for want of candidates, nor at all after two clicks.
Leads(b, n) ==
    /\ b.district \in Districts
    /\ Exact(b) # {}
    /\ n = 2 => Reason(b) = "ok"

\* Each suggestion leaves a candidate behind under every filter.
AdviceInv(b) ==
    /\ b.district \in Districts \/ (verdict.months = {} /\ verdict.interests = {} /\ verdict.band = None
                                      /\ verdict.radius = None /\ verdict.days = None)
    /\ \A m \in verdict.months : \E p \in Scoped(b) :
          Affordable(p, b.band) /\ InSeason(p, m) /\ (b.tags = {} \/ Tagged(p, b.tags))
    /\ \A t \in verdict.interests : \E p \in Scoped(b) :
          Tagged(p, {t}) /\ Affordable(p, b.band) /\ InSeason(p, b.month)
    /\ verdict.band # None =>
          \E p \in Scoped(b) : Wanted(p, b) /\ InSeason(p, b.month) /\ Affordable(p, verdict.band)
    /\ verdict.radius # None => b.mode = "location" /\ Within(b, verdict.radius) # {}
    /\ verdict.days # None => Exact(b) # {} /\ verdict.days = Cardinality(Exact(b))

Advised == {"months", "interests", "radius", "refused"}

\* On a catalogue that stands still, a suggestion taken is a promise kept.
ClickInv ==
    changes = 0 =>
        /\ clicks <= 2
        /\ ask.brief # None => \E place \in Choices(form) : ask.brief = BriefOf(form, place)
        /\ ask.at \in {"form", "resolving"} /\ clicks # 0 =>
              \A place \in Choices(form) : Leads(BriefOf(form, place), clicks)
        /\ \A b \in {ask.brief} :
             /\ ask.at \in {"counting", "refused"} /\ clicks # 0 => Leads(b, clicks)
             /\ ask.at \in Advised => AdviceInv(b) /\ clicks < 2
             /\ ask.at = "radius" => b.mode = "location" /\ b.district \in Districts
             /\ ask.at \in {"months", "interests"} => b.district \in Districts
        /\ ask.at \in Advised /\ clicks # 0 =>
              /\ ask.at = "refused"
              /\ verdict.months = {} /\ verdict.interests = {}
              /\ verdict.band = None /\ verdict.radius = None

-----------------------------------------------------------------------------
(* The briefs.                                                               *)

\* An anchor resolves to one place, a POI or a town.
LEMMA ResolvedIs ==
    ASSUME Catalogued, NEW slug, NEW place \in Resolved(slug)
    PROVE  /\ place.kind \in {"poi", "region"} /\ place.slug = slug /\ slug \in Slugs
           /\ place.point \in Points /\ place.district \in Districts
           /\ place.kind = "poi" => slug \in Pois
           /\ \A other \in Resolved(slug) : other = place
<1>1. CASE slug \in published
  <2>1. slug \in Pois /\ slug \notin Towns /\ facts[slug] \in Fact
    BY <1>1, CatalogueAssumption DEF Catalogued
  <2>2. Resolved(slug) = {[kind |-> "poi", slug |-> slug, point |-> facts[slug].at,
                           district |-> facts[slug].district]}
    BY <1>1, <2>1 DEF Resolved
  <2> QED BY <2>1, <2>2 DEF Fact, Slugs
<1>2. CASE slug \notin published
  <2>1. slug \in Towns
    BY <1>2 DEF Resolved
  <2>2. Resolved(slug) = {[kind |-> "region", slug |-> slug, point |-> TownFact[slug].at,
                           district |-> TownFact[slug].district]}
    BY <1>2, <2>1 DEF Resolved
  <2>3. TownFact[slug] \in [district : Districts, at : Points]
    BY <2>1, CatalogueAssumption
  <2> QED BY <2>1, <2>2, <2>3 DEF Slugs
<1> QED BY <1>1, <1>2

\* build_brief of a form that is not a 422.
LEMMA BriefIsMade ==
    ASSUME Catalogued, NEW f \in Form, ~Rejected(f), NEW place \in Choices(f)
    PROVE  WellMade(BriefOf(f, place))
<1> DEFINE b == BriefOf(f, place)
<1>1. Today \in Months /\ DefaultRadius \in Nat
  BY NumbersAssumption
<1>2. CASE f.mode = "location"
  <2>1. place \in Resolved(f.anchor)
    BY <1>2 DEF Choices
  <2>2. /\ place.kind \in {"poi", "region"} /\ place.slug \in Slugs
        /\ place.point \in Points /\ place.district \in Districts
        /\ place.kind = "poi" => place.slug \in Pois
    BY <2>1, ResolvedIs
  <2> DEFINE anchor == [kind |-> place.kind, slug |-> place.slug, point |-> place.point]
  <2>3. anchor \in Anchor /\ anchor # None
    BY <2>2, NullAssumption DEF Anchor
  <2>4. b.anchor = anchor /\ b.mode = "location" /\ b.district = place.district
    BY <1>2 DEF BriefOf
  <2>5. b.radius \in Nat
    BY <1>1, <1>2 DEF BriefOf, Form
  <2>6. b \in Brief
    BY <1>1, <1>2, <2>2, <2>3 DEF BriefOf, Form, Brief
  <2> QED BY <2>2, <2>3, <2>4, <2>5, <2>6 DEF WellMade
<1>3. CASE f.mode # "location"
  <2>1. f.district \in Districts \cup {"nowhere"}
    BY <1>3 DEF Rejected, Form
  <2>2. b.anchor = None /\ b.mode = f.mode /\ b.tags = f.tags
    BY <1>3 DEF BriefOf
  <2>3. b \in Brief
    BY <1>1, <1>3, <2>1 DEF BriefOf, Form, Brief
  <2> QED BY <1>3, <2>2, <2>3 DEF WellMade, Rejected
<1> QED BY <1>2, <1>3

\* create_request and load_brief keep everything of a brief but the slugs that
\* have no row.
LEMMA RoundTrip ==
    ASSUME NEW b, WellMade(b), b.district \in Districts
    PROVE  LET l == Loaded(RequestOf(b)) IN
           /\ RequestOf(b) \in Request
           /\ RequestOf(b).days = b.days
           /\ l \in Brief
           /\ <<l.mode, l.district, l.radius, l.days, l.band, l.month>>
                = <<b.mode, b.district, b.radius, b.days, b.band, b.month>>
           /\ l.tags = b.tags \cap Tags
           /\ (l.anchor = None) <=> (b.anchor = None)
           /\ b.anchor # None => l.anchor.kind = b.anchor.kind /\ l.anchor.point = b.anchor.point
<1> DEFINE r == RequestOf(b)
           l == Loaded(r)
<1>0. /\ b \in Brief /\ None \notin Pois /\ None \notin Points /\ None \notin Anchor
      /\ b.anchor # None /\ b.anchor.kind = "poi" => b.anchor.slug \in Pois
      /\ b.anchor # None => b.anchor.slug \in Slugs
  BY NullAssumption, CatalogueAssumption DEF WellMade, Slugs
<1>1. CASE b.anchor = None
  <2>1. /\ r = [mode |-> b.mode, tags |-> b.tags \cap Tags, district |-> b.district,
                anchorPoi |-> None, anchorLabel |-> None, anchorPoint |-> None,
                radius |-> b.radius, days |-> b.days, band |-> b.band, month |-> b.month]
    BY <1>1 DEF RequestOf
  <2>2. r \in Request
    BY <1>0, <2>1 DEF Brief, Request
  <2>3. l = [mode |-> b.mode, tags |-> b.tags \cap Tags, district |-> b.district,
             anchor |-> None, radius |-> b.radius, days |-> b.days, band |-> b.band,
             month |-> b.month]
    BY <2>1 DEF Loaded
  <2>4. l \in Brief
    BY <1>0, <2>3 DEF Brief
  <2> HIDE DEF r, l
  <2>5. r.days = b.days /\ l.anchor = None
    BY <2>1, <2>3
  <2> QED BY <1>1, <2>2, <2>3, <2>4, <2>5 DEF r, l
<1>2. CASE b.anchor # None
  <2> DEFINE a == b.anchor
             poi == IF a.kind # "poi" THEN None ELSE a.slug
             anchor == [kind |-> IF poi = None THEN "region" ELSE "poi",
                        slug |-> IF poi = None THEN "label" ELSE poi, point |-> a.point]
  <2>0. a \in Anchor /\ a.kind \in {"poi", "region"} /\ a.slug \in Slugs
        /\ a.point \in Points
    BY <1>0, <1>2 DEF Brief, Anchor
  <2>1. r = [mode |-> b.mode, tags |-> b.tags \cap Tags, district |-> b.district,
             anchorPoi |-> poi, anchorLabel |-> a.slug, anchorPoint |-> a.point,
             radius |-> b.radius, days |-> b.days, band |-> b.band, month |-> b.month]
    BY <1>2 DEF RequestOf
  <2>2. l = [mode |-> b.mode, tags |-> b.tags \cap Tags, district |-> b.district,
             anchor |-> anchor, radius |-> b.radius, days |-> b.days, band |-> b.band,
             month |-> b.month]
    BY <1>0, <2>0, <2>1 DEF Loaded
  <2>3. poi \in Pois \cup {None} /\ (poi = None <=> a.kind = "region")
    BY <1>0, <1>2, <2>0
  <2>4. anchor \in Anchor /\ anchor.kind = a.kind /\ anchor.point = a.point /\ anchor # None
    BY <1>0, <2>0, <2>3 DEF Anchor, Slugs
  <2> HIDE DEF a, poi, anchor
  <2>5. r \in Request
    BY <1>0, <2>0, <2>1, <2>3 DEF Brief, Request
  <2>6. l \in Brief
    BY <1>0, <2>2, <2>4 DEF Brief
  <2> HIDE DEF r, l
  <2>7. r.days = b.days /\ l.anchor = anchor
    BY <2>1, <2>2
  <2> QED BY <1>2, <2>2, <2>4, <2>5, <2>6, <2>7 DEF r, l, a
<1> QED BY <1>1, <1>2

\* The worker searches what the pre-flight weighed.
LEMMA SameCandidates ==
    ASSUME Catalogued, NEW b, WellMade(b), b.district \in Districts, NEW kind
    PROVE  Candidates(kind, Loaded(RequestOf(b))) = Candidates(kind, b)
<1> DEFINE l == Loaded(RequestOf(b))
<1>1. /\ l.mode = b.mode /\ l.district = b.district /\ l.radius = b.radius
      /\ l.band = b.band /\ l.month = b.month
      /\ l.tags = b.tags \cap Tags
      /\ (l.anchor = None) <=> (b.anchor = None)
      /\ b.anchor # None => l.anchor.point = b.anchor.point
  BY RoundTrip
<1> HIDE DEF l
<1>2. ASSUME NEW p \in published
      PROVE  /\ InScope(p, l) = InScope(p, b)
             /\ Wanted(p, l) = Wanted(p, b)
  <2>1. facts[p].tags \subseteq Tags
    BY <1>2 DEF Catalogued, Fact
  <2>2. Tagged(p, l.tags) <=> Tagged(p, b.tags)
    BY <1>1, <2>1 DEF Tagged
  <2>3. InScope(p, l) = InScope(p, b)
    <3>1. CASE b.mode = "location" /\ b.anchor # None /\ b.radius # None
      <4>1. InScope(p, b) = (Distance(facts[p].at, b.anchor.point) <= b.radius)
        BY <3>1 DEF InScope
      <4>2. InScope(p, l) = (Distance(facts[p].at, l.anchor.point) <= l.radius)
        BY <1>1, <3>1 DEF InScope
      <4>3. l.anchor.point = b.anchor.point /\ l.radius = b.radius
        BY <1>1, <3>1
      <4> QED BY <4>1, <4>2, <4>3
    <3>2. CASE ~(b.mode = "location" /\ b.anchor # None /\ b.radius # None)
      BY <1>1, <3>2 DEF InScope
    <3> QED BY <3>1, <3>2
  <2>4. Wanted(p, l) = Wanted(p, b)
    BY <1>1, <2>2 DEF Wanted
  <2> QED BY <2>3, <2>4
<1>3. Candidates(kind, l) = Candidates(kind, b)
  BY <1>1, <1>2 DEF Candidates, Affordable, InSeason
<1> QED BY <1>3 DEF l

-----------------------------------------------------------------------------
(* The steps.                                                                *)

LEMMA CatalogueTyped == TypeOK => Catalogued
BY DEF TypeOK, Catalogued

LEMMA NoneIsNoBrief ==
    /\ None \notin Brief /\ None \notin Request /\ None \notin Nat /\ None \notin Reasons
    /\ None \notin Points /\ None \notin Months /\ None \notin Bands /\ None \notin Anchor
BY NullAssumption, CatalogueAssumption

LEMMA InitPlan == Init => PlanInv
<1> SUFFICES ASSUME Init PROVE PlanInv
  OBVIOUS
<1>1. facts \in [Pois -> Fact]
  BY CatalogueAssumption DEF Init
<1>2. ask \in Ask /\ verdict \in Verdict /\ job \in Job /\ changes \in 0 .. MaxChanges
      /\ clicks \in 0 .. MaxClicks
  BY NumbersAssumption
     DEF Init, Ask, Asking, Verdict, Verdicted, Reasons, Job, NoJob, Attempting
<1>3. TypeOK
  BY <1>1, <1>2, FormsAssumption DEF Init, TypeOK
<1>4. AskInv /\ StoreInv /\ JobInv
  BY NumbersAssumption DEF Init, AskInv, StoreInv, JobInv, Verdicted, NoJob
<1> QED BY <1>3, <1>4 DEF PlanInv

\* The catalogue moves: what was seen of it is no longer what it is.
LEMMA CatalogueStep ==
    ASSUME PlanInv, Publish \/ Reseed
    PROVE  PlanInv'
<1>0. TypeOK /\ changes \in Nat /\ ask.seen \in Nat /\ ask.seen <= changes /\ job.seen \in Nat
      /\ MaxChanges \in Nat
  BY NumbersAssumption DEF PlanInv, TypeOK, AskInv, Ask, Job
<1>1. changes' = changes + 1 /\ changes' \in 0 .. MaxChanges
  BY <1>0, NumbersAssumption DEF Publish, Reseed, PlanInv, TypeOK
<1>2. UNCHANGED <<form, clicks, ask, verdict, request, job>>
  BY DEF Publish, Reseed, wizard
<1>3. published' \subseteq Pois /\ facts' \in [Pois -> Fact]
  <2>1. CASE Publish
    BY <1>0, <2>1 DEF Publish, TypeOK
  <2>2. CASE Reseed
    <3>1. PICK p \in Pois : \E f \in Facts[p] \ {facts[p]} : facts' = [facts EXCEPT ![p] = f]
      BY <2>2 DEF Reseed
    <3>2. Facts[p] \subseteq Fact
      BY CatalogueAssumption
    <3> QED BY <1>0, <2>2, <3>1, <3>2 DEF Reseed, TypeOK
  <2> QED BY <2>1, <2>2
<1>4. TypeOK'
  BY <1>0, <1>1, <1>2, <1>3 DEF TypeOK
<1>5. changes' # ask'.seen /\ ask'.seen <= changes'
  BY <1>0, <1>1, <1>2
<1>6. AskInv'
  <2>1. WellMade(ask.brief)' <=> WellMade(ask.brief)
    BY <1>2 DEF WellMade
  <2> QED BY <1>2, <1>5, <2>1 DEF PlanInv, AskInv
<1>7. StoreInv'
  BY <1>2 DEF PlanInv, StoreInv, RequestOf
<1>8. job.brief # None => job.seen <= changes
  BY DEF PlanInv, JobInv
<1>9. job.at \in {"none", "queued"} <=> job.brief = None
  BY DEF PlanInv, JobInv
<1>10. JobInv'
  <2>1. job.brief # None => changes' # job'.seen /\ job'.seen <= changes'
    BY <1>0, <1>1, <1>2, <1>8
  <2>2. Loaded(request)' = Loaded(request)
    BY <1>2 DEF Loaded
  <2> QED BY <1>2, <1>9, <2>1, <2>2 DEF PlanInv, JobInv
<1> QED BY <1>4, <1>6, <1>7, <1>10 DEF PlanInv

\* A step of create_plan, or of the wizard: no job is there to be disturbed.
LEMMA AskStep ==
    ASSUME PlanInv, ask.at # "accepted", ask'.at # "accepted",
           published' = published, facts' = facts, changes' = changes, request' = request, job' = job,
           form' \in Form, clicks' \in 0 .. MaxClicks, ask' \in Ask, verdict' \in Verdict,
           AskInv'
    PROVE  PlanInv'
<1>1. TypeOK'
  BY DEF PlanInv, TypeOK
<1>2. request = None /\ job.at = "none" /\ job.brief = None /\ job.error = None
  BY DEF PlanInv, StoreInv, JobInv
<1>3. StoreInv'
  BY <1>2 DEF StoreInv
<1>4. JobInv'
  BY <1>2 DEF JobInv
<1> QED BY <1>1, <1>3, <1>4 DEF PlanInv

\* A step of the worker: the request stays what it is.
LEMMA JobStep ==
    ASSUME PlanInv, job' \in Job, job.at # "none", job'.at # "none", JobInv',
           UNCHANGED <<published, facts, changes, form, clicks, ask, verdict, request>>
    PROVE  PlanInv'
<1>1. TypeOK'
  BY DEF PlanInv, TypeOK
<1>2. AskInv'
  <2>1. changes = ask.seen =>
         \A b \in {ask.brief} :
            /\ ask.at \in {"storing", "accepted"} => Reason(b)' = "ok"
            /\ ask.at \in {"months", "interests", "radius", "refused"} => Reason(b)' # "ok"
    BY CatalogueStays DEF PlanInv, AskInv
  <2>2. WellMade(ask.brief)' <=> WellMade(ask.brief)
    BY DEF WellMade
  <2> QED BY <2>1, <2>2 DEF PlanInv, AskInv
<1>3. StoreInv'
  BY DEF PlanInv, StoreInv, RequestOf
<1> QED BY <1>1, <1>2, <1>3 DEF PlanInv

\* The steps of create_plan and of the wizard.
LEMMA CreatePlanStep ==
    ASSUME PlanInv, CreatePlan \/ Suggestion
    PROVE  PlanInv'
<1>0. /\ TypeOK /\ AskInv /\ Catalogued /\ form \in Form /\ ask \in Ask /\ verdict \in Verdict
      /\ clicks \in 0 .. MaxClicks /\ changes \in 0 .. MaxChanges /\ changes \in Nat
      /\ ask.brief # None => WellMade(ask.brief) /\ ask.brief \in Brief
  BY CatalogueTyped, NumbersAssumption DEF PlanInv, TypeOK, AskInv, WellMade
<1>b. ASSUME NEW b \in Brief
      PROVE  b.days \in 1 .. MaxDays /\ b.days \in Nat \ {0} /\ MaxDays \in Nat
  BY CapsCoverDays DEF Brief
<1>1. CASE Submit
  <2>1. ask' = [ask EXCEPT !.at = "resolving"] /\ ask.at = "form"
        /\ UNCHANGED <<published, facts, changes, form, clicks, verdict, request, job>>
    BY <1>1 DEF Submit, Goto, catalogue, wizard
  <2>2. ask' \in Ask /\ ask'.at = "resolving" /\ ask'.brief = ask.brief /\ ask'.seen = ask.seen
    BY <1>0, <2>1 DEF Ask, Asking
  <2>3. AskInv'
    BY <1>0, <2>1, <2>2 DEF AskInv
  <2> QED BY <1>0, <2>1, <2>2, <2>3, AskStep
<1>2. CASE Reject
  <2>1. ask' = [ask EXCEPT !.at = "rejected"] /\ ask.at = "resolving"
        /\ UNCHANGED <<published, facts, changes, form, clicks, verdict, request, job>>
    BY <1>2 DEF Reject, Goto, catalogue, wizard
  <2>2. ask' \in Ask /\ ask'.at = "rejected" /\ ask'.brief = ask.brief /\ ask'.seen = ask.seen
    BY <1>0, <2>1 DEF Ask, Asking
  <2>3. AskInv'
    BY <1>0, <2>1, <2>2 DEF AskInv
  <2> QED BY <1>0, <2>1, <2>2, <2>3, AskStep
<1>3. CASE BuildBrief
  <2>1. PICK place \in Choices(form) :
          ask' = [ask EXCEPT !.at = "counting", !.brief = BriefOf(form, place)]
    BY <1>3 DEF BuildBrief, Choices
  <2>2. ask.at = "resolving" /\ ~Rejected(form)
        /\ UNCHANGED <<published, facts, changes, form, clicks, verdict, request, job>>
    BY <1>3 DEF BuildBrief, catalogue, wizard
  <2>3. PICK b : b = BriefOf(form, place)
    OBVIOUS
  <2>4. WellMade(b) /\ b \in Brief /\ b # None
    BY <1>0, <2>2, <2>3, BriefIsMade, NoneIsNoBrief DEF WellMade
  <2>5. ask' \in Ask /\ ask'.at = "counting" /\ ask'.brief = b /\ ask'.seen = ask.seen
    BY <1>0, <2>1, <2>3, <2>4 DEF Ask, Asking
  <2>6. WellMade(ask'.brief)
    BY <2>4, <2>5
  <2>7. WellMade(ask.brief)'
    BY <2>6 DEF WellMade
  <2>8. AskInv'
    BY <1>0, <2>2, <2>4, <2>5, <2>7 DEF AskInv
  <2> QED BY <1>0, <2>2, <2>5, <2>8, AskStep
<1>4. CASE Count
  <2>1. PICK b : b = ask.brief
    OBVIOUS
  <2>2. PICK reason : reason = Reason(b)
    OBVIOUS
  <2>3. /\ ask.at = "counting"
        /\ UNCHANGED <<published, facts, changes, form, clicks, request, job>>
        /\ verdict' = [Verdicted(reason) EXCEPT
                !.band = IF reason = "budget_too_low" THEN BandAdvised(b) ELSE None,
                !.days = IF reason = "not_enough_for_days" THEN Cardinality(Exact(b)) ELSE None]
        /\ ask' = [ask EXCEPT !.seen = changes,
                !.tried = IF b.radius = None THEN 0 ELSE b.radius, !.at =
                CASE reason = "ok" -> "storing"
                  [] reason = "nothing_in_radius" -> "radius"
                  [] reason \in AdviseMonthsFor -> "months"
                  [] OTHER -> "refused"]
    BY <1>4, <2>1, <2>2 DEF Count, catalogue, wizard
  <2>4. WellMade(b) /\ b \in Brief /\ b # None
    BY <1>0, <2>1, <2>3 DEF AskInv
  <2>5. /\ reason \in Reasons
        /\ reason = "ok" => b.district \in Districts
        /\ reason = "not_enough_for_days" =>
             /\ Exact(b) # {} /\ Cardinality(Exact(b)) \in Nat /\ Cardinality(Exact(b)) < b.days
    BY <1>0, <1>b, <2>2, <2>4, ReasonIs
  <2>6. reason = "not_enough_for_days" => Cardinality(Exact(b)) \in 1 .. MaxDays
    <3>1. Exact(b) \subseteq Pois
      BY <1>0, QueriesArePois
    <3>2. Exact(b) # {} => Cardinality(Exact(b)) # 0
      BY <3>1, RowsAreFinite
    <3> QED BY <1>b, <2>4, <2>5, <3>2
  <2>7. verdict' \in Verdict /\ (verdict'.days # None => verdict'.days \in 1 .. MaxDays)
    <3>1. BandAdvised(b) \in Bands \cup {None}
      BY <1>0, BandAdvisedIs
    <3> QED BY <1>b, <2>3, <2>4, <2>5, <2>6, <3>1 DEF Verdicted, Verdict
  <2>8. /\ ask' \in Ask /\ ask'.brief = b /\ ask'.seen = changes
        /\ ask'.at \in {"storing", "radius", "months", "refused"}
        /\ ask'.at = "storing" <=> reason = "ok"
    <3>1. b.radius \in Nat \cup {None}
      BY <2>4 DEF Brief
    <3>2. PICK at : at = CASE reason = "ok" -> "storing"
                  [] reason = "nothing_in_radius" -> "radius"
                  [] reason \in AdviseMonthsFor -> "months"
                  [] OTHER -> "refused"
      OBVIOUS
    <3>3. at \in {"storing", "radius", "months", "refused"} /\ (at = "storing" <=> reason = "ok")
      BY <3>2 DEF AdviseMonthsFor
    <3>4. ask' = [ask EXCEPT !.seen = changes,
                             !.tried = IF b.radius = None THEN 0 ELSE b.radius, !.at = at]
      BY <2>3, <3>2
    <3> QED BY <1>0, <2>1, <3>1, <3>3, <3>4 DEF Ask, Asking
  <2>9. WellMade(ask.brief)' /\ Reason(b)' = reason
    BY <2>2, <2>3, <2>4, <2>8, CatalogueStays DEF WellMade
  <2>10. AskInv'
    BY <1>0, <2>3, <2>4, <2>5, <2>7, <2>8, <2>9 DEF AskInv
  <2> QED BY <1>0, <2>3, <2>7, <2>8, <2>10, AskStep
<1>5. ASSUME ask.at \in Advised, ask' \in Ask, ask'.at \in Advised \cup {"raised"},
             ask'.brief = ask.brief, ask'.seen = ask.seen,
             verdict' \in Verdict, verdict'.days = verdict.days,
             UNCHANGED <<published, facts, changes, form, clicks, request, job>>
      PROVE  PlanInv'
  <2>1. ask.brief # None /\ WellMade(ask.brief)
    BY <1>5 DEF PlanInv, AskInv, Advised
  <2>2. WellMade(ask.brief)'
    BY <1>5, <2>1 DEF WellMade
  <2>3. changes = ask.seen => \A b \in {ask.brief} : Reason(b)' # "ok"
    BY <1>5, CatalogueStays DEF PlanInv, AskInv, Advised
  <2>4. AskInv'
    BY <1>5, <2>1, <2>2, <2>3 DEF PlanInv, AskInv, Advised
  <2> QED BY <1>0, <1>5, <2>4, AskStep DEF Advised
<1>6. CASE AdviseMonths
  <2>1. /\ ask.at = "months" /\ ask' = [ask EXCEPT !.at = "interests"]
        /\ verdict' = [verdict EXCEPT !.months = MonthsAdvised(ask.brief)]
        /\ UNCHANGED <<published, facts, changes, form, clicks, request, job>>
    BY <1>6 DEF AdviseMonths, Goto, catalogue, wizard
  <2>2. verdict' \in Verdict /\ verdict'.days = verdict.days
    BY <1>0, <2>1 DEF Verdict, MonthsAdvised
  <2> QED BY <1>0, <1>5, <2>1, <2>2 DEF Ask, Asking, Advised
<1>7. CASE AdviceRaises
  <2>1. /\ ask.at = "months" /\ ask' = [ask EXCEPT !.at = "raised"]
        /\ UNCHANGED <<published, facts, changes, form, clicks, verdict, request, job>>
    BY <1>7 DEF AdviceRaises, Goto, catalogue, wizard
  <2> QED BY <1>0, <1>5, <2>1 DEF Ask, Asking, Advised
<1>8. CASE AdviseInterests
  <2>1. /\ ask.at = "interests" /\ ask' = [ask EXCEPT !.at = "refused"]
        /\ verdict' = [verdict EXCEPT !.interests = InterestsAdvised(ask.brief)]
        /\ UNCHANGED <<published, facts, changes, form, clicks, request, job>>
    BY <1>8 DEF AdviseInterests, Goto, catalogue, wizard
  <2>2. verdict' \in Verdict /\ verdict'.days = verdict.days
    BY <1>0, <2>1 DEF Verdict, InterestsAdvised
  <2> QED BY <1>0, <1>5, <2>1, <2>2 DEF Ask, Asking, Advised
<1>9. CASE TryRadius
  <2>1. PICK km \in NextIncrement(ask.tried) : \E found \in BOOLEAN :
          /\ ask' = [ask EXCEPT !.tried = km, !.at = IF found THEN "refused" ELSE "radius"]
          /\ verdict' = [verdict EXCEPT !.radius = IF found THEN km ELSE None]
    BY <1>9 DEF TryRadius
  <2>2. ask.at = "radius" /\ UNCHANGED <<published, facts, changes, form, clicks, request, job>>
    BY <1>9 DEF TryRadius, catalogue, wizard
  <2>3. km \in Nat
    BY NumbersAssumption DEF NextIncrement
  <2>4. verdict' \in Verdict /\ verdict'.days = verdict.days
    BY <1>0, <2>1, <2>3 DEF Verdict
  <2>5. ask' \in Ask /\ ask'.at \in Advised /\ ask'.brief = ask.brief /\ ask'.seen = ask.seen
    BY <1>0, <2>1, <2>3 DEF Ask, Asking, Advised
  <2> QED BY <1>5, <2>2, <2>4, <2>5 DEF Advised
<1>10. CASE NoRadiusWorks
  <2>1. /\ ask.at = "radius" /\ ask' = [ask EXCEPT !.at = "refused"]
        /\ UNCHANGED <<published, facts, changes, form, clicks, verdict, request, job>>
    BY <1>10 DEF NoRadiusWorks, Goto, catalogue, wizard
  <2> QED BY <1>0, <1>5, <2>1 DEF Ask, Asking, Advised
<1>11. CASE Accept
  <2>1. /\ ask.at = "storing" /\ request' = RequestOf(ask.brief)
        /\ job' = [job EXCEPT !.at = "queued"]
        /\ ask' = [ask EXCEPT !.at = "accepted"]
        /\ UNCHANGED <<published, facts, changes, form, clicks, verdict>>
    BY <1>11 DEF Accept, Goto, catalogue, wizard
  <2>2. PICK b : b = ask.brief
    OBVIOUS
  <2>3. b # None /\ WellMade(b) /\ b.district \in Districts
    BY <2>1, <2>2 DEF PlanInv, AskInv
  <2>4. RequestOf(b) \in Request
    BY <2>3, RoundTrip
  <2>5. job.at = "none" /\ job.brief = None /\ job.error = None
    BY <2>1 DEF PlanInv, StoreInv, JobInv
  <2>6. /\ job' \in Job /\ job'.at = "queued" /\ job'.brief = None /\ job'.error = None
        /\ ask' \in Ask /\ ask'.at = "accepted" /\ ask'.brief = b /\ ask'.seen = ask.seen
    BY <1>0, <2>1, <2>2, <2>5 DEF TypeOK, Job, Attempting, Ask, Asking
  <2>7. TypeOK'
    BY <1>0, <2>1, <2>2, <2>4, <2>6 DEF TypeOK
  <2>8. WellMade(ask.brief)'
    BY <2>3, <2>6 DEF WellMade
  <2>9. changes = ask.seen => Reason(b)' = "ok"
    BY <2>1, <2>2, CatalogueStays DEF PlanInv, AskInv
  <2>10. AskInv'
    BY <1>0, <2>1, <2>3, <2>6, <2>8, <2>9 DEF AskInv
  <2>11. request' = RequestOf(b) /\ request' # None
    BY <2>1, <2>2, <2>4, NoneIsNoBrief
  <2>12. StoreInv'
    BY <2>6, <2>11 DEF StoreInv, RequestOf
  <2>13. JobInv'
    BY <2>6 DEF JobInv
  <2> QED BY <2>7, <2>10, <2>12, <2>13 DEF PlanInv
<1>12. ASSUME NEW f \in Form, Click(f)
       PROVE  PlanInv'
  <2>1. /\ ask.at = "refused" /\ clicks < MaxClicks /\ clicks' = clicks + 1 /\ form' = f
        /\ ask' = [ask EXCEPT !.at = "form", !.brief = None, !.tried = 0]
        /\ UNCHANGED <<published, facts, changes, verdict, request, job>>
    BY <1>12 DEF Click, catalogue
  <2>2. ask' \in Ask /\ ask'.at = "form" /\ ask'.brief = None /\ ask'.seen = ask.seen
    BY <1>0, <2>1 DEF Ask, Asking
  <2>3. clicks' \in 0 .. MaxClicks
    BY <1>0, <2>1, NumbersAssumption
  <2>4. AskInv'
    BY <1>0, <2>1, <2>2 DEF AskInv
  <2> QED BY <1>0, <2>1, <2>2, <2>3, <2>4, AskStep
<1>13. CASE Suggestion
  <2>1. CASE PickMonth
    <3>1. PICK m \in verdict.months : Click([form EXCEPT !.month = m])
      BY <2>1 DEF PickMonth
    <3>2. [form EXCEPT !.month = m] \in Form
      BY <1>0, <3>1 DEF Form, Verdict
    <3> QED BY <1>12, <3>1, <3>2
  <2>2. CASE PickInterest
    <3>1. PICK t \in verdict.interests : Click([form EXCEPT !.tags = {t}])
      BY <2>2 DEF PickInterest
    <3>2. t \in Tags
      BY <1>0, <3>1, CatalogueAssumption DEF Verdict
    <3>3. [form EXCEPT !.tags = {t}] \in Form
      BY <1>0, <3>2 DEF Form
    <3> QED BY <1>12, <3>1, <3>3
  <2>3. CASE RaiseBudget
    <3>1. [form EXCEPT !.band = verdict.band] \in Form
      BY <1>0, <2>3 DEF RaiseBudget, Form, Verdict
    <3> QED BY <1>12, <2>3, <3>1 DEF RaiseBudget
  <2>4. CASE Widen
    <3>1. [form EXCEPT !.radius = verdict.radius] \in Form
      BY <1>0, <2>4 DEF Widen, Form, Verdict
    <3> QED BY <1>12, <2>4, <3>1 DEF Widen
  <2>5. CASE Shorten
    <3>1. [form EXCEPT !.days = verdict.days] \in Form
      BY <1>0, <2>5 DEF Shorten, Form, AskInv
    <3> QED BY <1>12, <2>5, <3>1 DEF Shorten
  <2> QED BY <1>13, <2>1, <2>2, <2>3, <2>4, <2>5 DEF Suggestion
<1> QED
  BY <1>1, <1>2, <1>3, <1>4, <1>6, <1>7, <1>8, <1>9, <1>10, <1>11, <1>13 DEF CreatePlan

\* The steps of an attempt.
LEMMA RetrieveStep ==
    ASSUME PlanInv, Retrieve
    PROVE  PlanInv'
<1>0. /\ TypeOK /\ AskInv /\ StoreInv /\ JobInv /\ Catalogued /\ job \in Job
      /\ changes \in 0 .. MaxChanges /\ changes \in Nat /\ ask.seen \in Nat
      /\ MaxPlaces \in Nat /\ MaxStays \in Nat /\ MaxActivities \in Nat /\ MaxAttempts \in Nat
  BY CatalogueTyped, NumbersAssumption, CapsCoverDays DEF PlanInv, TypeOK, Ask
<1>1. UNCHANGED <<published, facts, changes, form, clicks, ask, verdict, request>>
  BY DEF Retrieve, LoadBrief, FetchPlaces, FetchStays, FetchActivities, Diagnose,
         DiagnoseInVain, AttemptEnds, catalogue, wizard
<1>2. \A b, kind : /\ Candidates(kind, b)' = Candidates(kind, b) /\ Candidates(kind, b) \subseteq Pois
                   /\ Reason(b)' = Reason(b)
  BY <1>0, <1>1, CatalogueStays, QueriesArePois
<1>3. \A r : Loaded(r)' = Loaded(r)
  BY <1>1 DEF Loaded
<1>4. CASE LoadBrief
  <2>1. PICK b : b = Loaded(request)
    OBVIOUS
  <2>2. /\ job.at = "queued" /\ job.attempts < MaxAttempts
        /\ job' = [NoJob EXCEPT !.at = "places", !.attempts = job.attempts + 1,
                                !.seen = changes, !.brief = b]
    BY <1>4, <2>1 DEF LoadBrief
  <2>3. request # None /\ request = RequestOf(ask.brief) /\ ask.at = "accepted"
    BY <1>0, <2>2 DEF StoreInv
  <2>4. PICK a : a = ask.brief
    OBVIOUS
  <2>5. WellMade(a) /\ a.district \in Districts
    BY <1>0, <2>3, <2>4 DEF AskInv
  <2>6. b \in Brief /\ b # None
    BY <2>1, <2>3, <2>4, <2>5, RoundTrip, NoneIsNoBrief
  <2>7. /\ job' \in Job /\ job'.at = "places" /\ job'.brief = b /\ job'.seen = changes
        /\ job'.error = None
    <3>1. job.attempts + 1 \in 0 .. MaxAttempts
      BY <1>0, <2>2 DEF Job
    <3>2. NoJob \in Job
      BY <1>0, NumbersAssumption DEF Job, NoJob, Attempting
    <3>3. "places" \in Attempting /\ NoJob.error = None
      BY DEF Attempting, NoJob
    <3> QED BY <1>0, <2>2, <2>6, <3>1, <3>2, <3>3 DEF Job
  <2>8. Loaded(request)' = b
    BY <1>1, <2>1 DEF Loaded
  <2>9. JobInv'
    BY <1>0, <1>1, <2>6, <2>7, <2>8 DEF JobInv, AskInv
  <2> QED BY <1>1, <2>2, <2>7, <2>9, JobStep
<1>5. ASSUME job.brief # None, job'.brief = job.brief, job'.seen = job.seen,
             job'.at \notin {"none", "queued"}
      PROVE  /\ job'.brief # None /\ (job'.at \in {"none", "queued"} <=> job'.brief = None)
             /\ job'.brief = Loaded(request)'
             /\ ask'.seen <= job'.seen /\ job'.seen <= changes'
  <2>1. Loaded(request)' = Loaded(request)
    BY <1>1 DEF Loaded
  <2> QED BY <1>0, <1>1, <1>5, <2>1 DEF JobInv
<1>6. CASE FetchPlaces
  <2>1. PICK b : b = job.brief
    OBVIOUS
  <2>2. job.at = "places" /\ job.brief # None
    BY <1>0, <1>6 DEF FetchPlaces, JobInv
  <2>3. PICK S \in Capped(Candidates("place", b), MaxPlaces) :
          job' = [job EXCEPT !.at = "stays", !.places = S]
    BY <1>6, <2>1 DEF FetchPlaces
  <2>4. S \subseteq Pois
    BY <1>2, <2>3 DEF Capped
  <2>5. /\ job' \in Job /\ job'.at = "stays" /\ job'.brief = job.brief /\ job'.seen = job.seen
        /\ job'.places = S /\ job'.error = None
    BY <1>0, <2>2, <2>3, <2>4 DEF JobInv, Job, Attempting
  <2>6. job'.places \in Capped(Candidates("place", b)', MaxPlaces)
    BY <1>2, <2>3, <2>5
  <2>7. JobInv'
    BY <1>5, <2>1, <2>2, <2>5, <2>6 DEF JobInv, Capped
  <2> QED BY <1>1, <2>2, <2>5, <2>7, JobStep
<1>7. CASE FetchStays
  <2>1. PICK b : b = job.brief
    OBVIOUS
  <2>2. job.at = "stays" /\ job.brief # None
    BY <1>0, <1>7 DEF FetchStays, JobInv
  <2>3. PICK S \in Capped(Candidates("stay", b), MaxStays) :
          job' = [job EXCEPT !.at = "activities", !.stays = S]
    BY <1>7, <2>1 DEF FetchStays
  <2>4. S \subseteq Pois
    BY <1>2, <2>3 DEF Capped
  <2>5. /\ job' \in Job /\ job'.at = "activities" /\ job'.brief = job.brief /\ job'.seen = job.seen
        /\ job'.places = job.places /\ job'.error = None
    BY <1>0, <2>2, <2>3, <2>4 DEF JobInv, Job, Attempting
  <2>6. changes = job.seen => job'.places \in Capped(Candidates("place", b)', MaxPlaces)
    BY <1>0, <1>2, <2>1, <2>2, <2>5 DEF JobInv
  <2>7. JobInv'
    BY <1>1, <1>5, <2>1, <2>2, <2>5, <2>6 DEF JobInv, Capped
  <2> QED BY <1>1, <2>2, <2>5, <2>7, JobStep
<1>8. CASE FetchActivities
  <2>1. PICK b : b = job.brief
    OBVIOUS
  <2>2. job.at = "activities" /\ job.brief # None
    BY <1>0, <1>8 DEF FetchActivities, JobInv
  <2>3. PICK S \in Capped(Candidates("activity", b), MaxActivities) :
          job' = [job EXCEPT !.activities = S, !.at =
                    IF job.places = {} /\ S = {} THEN "diagnose" ELSE "retrieved"]
    BY <1>8, <2>1 DEF FetchActivities
  <2>4. S \subseteq Pois
    BY <1>2, <2>3 DEF Capped
  <2>5. /\ job' \in Job /\ job'.at \in {"diagnose", "retrieved"} /\ job'.brief = job.brief
        /\ job'.seen = job.seen /\ job'.places = job.places /\ job'.activities = S
        /\ job'.at = "diagnose" => job.places = {} /\ S = {}
        /\ job'.error = None
    BY <1>0, <2>2, <2>3, <2>4 DEF JobInv, Job, Attempting
  <2>6. changes = job.seen =>
          /\ job'.places \in Capped(Candidates("place", b)', MaxPlaces)
          /\ job'.activities \in Capped(Candidates("activity", b)', MaxActivities)
    BY <1>0, <1>2, <2>1, <2>2, <2>3, <2>5 DEF JobInv
  <2>7. JobInv'
    BY <1>1, <1>5, <2>1, <2>2, <2>5, <2>6 DEF JobInv, Capped
  <2> QED BY <1>1, <2>2, <2>5, <2>7, JobStep
<1>9. ASSUME job.at = "diagnose", job' \in Job, job'.at = "failed",
             job'.brief = job.brief, job'.seen = job.seen,
             job'.places = job.places, job'.activities = job.activities,
             changes = job.seen => job'.error # "ok" /\ (job'.error = None => job.brief.tags = {})
      PROVE  PlanInv'
  <2>1. PICK b : b = job.brief
    OBVIOUS
  <2>2. job.brief # None /\ job.places = {} /\ job.activities = {}
    BY <1>0, <1>9 DEF JobInv
  <2>3. changes = job.seen =>
          /\ job'.places \in Capped(Candidates("place", b)', MaxPlaces)
          /\ job'.activities \in Capped(Candidates("activity", b)', MaxActivities)
    BY <1>0, <1>2, <1>9, <2>1 DEF JobInv
  <2>4. JobInv'
    BY <1>1, <1>5, <1>9, <2>1, <2>2, <2>3 DEF JobInv, Capped
  <2> QED BY <1>1, <1>9, <2>4, JobStep
<1>10. CASE Diagnose
  <2>1. PICK b : b = job.brief
    OBVIOUS
  <2>2. job.at = "diagnose" /\ job' = [job EXCEPT !.at = "failed", !.error = Reason(b)]
    BY <1>10, <2>1 DEF Diagnose
  <2>3. job.brief # None /\ job.places = {} /\ job.activities = {}
    BY <1>0, <2>2 DEF JobInv
  <2>4. b \in Brief /\ b.days \in 1 .. MaxDays /\ b.days \in Nat \ {0}
    BY <1>0, <2>1, <2>3, CapsCoverDays DEF Job, Brief
  <2>5. Reason(b) \in Reasons
    BY <1>0, <2>4, ReasonIs
  <2>6. Reason(b) # "ok" \/ changes # job.seen
    <3> SUFFICES ASSUME changes = job.seen, Reason(b) = "ok" PROVE FALSE
      OBVIOUS
    <3> DEFINE P == Candidates("place", b)
               A == Candidates("activity", b)
    <3>1. {} \in Capped(P, MaxPlaces) /\ {} \in Capped(A, MaxActivities)
      BY <1>0, <2>1, <2>2, <2>3 DEF JobInv
    <3>2. P \subseteq Pois /\ A \subseteq Pois
      BY <1>2
    <3>3. b.district \in Districts /\ Cardinality(Exact(b)) >= b.days
      BY <1>0, <2>4, ReasonIs
    <3>4. Cardinality(Exact(b)) = Cardinality(P) + Cardinality(A)
      BY <1>0, <3>3, CandidatesAreExact
    <3> HIDE DEF P, A
    <3>5. MaxPlaces \in Nat \ {0} /\ MaxActivities \in Nat \ {0}
      BY <2>4, CapsCoverDays
    <3>6. Cardinality(P) = 0 /\ Cardinality(A) = 0
      <4>1. Cardinality({}) = 0
        BY FS_EmptySet
      <4>2. Cardinality(P) \in Nat /\ (Cardinality({}) = Cardinality(P) \/ Cardinality({}) = MaxPlaces)
        BY <1>0, <3>1, <3>2, CappedIs
      <4>3. Cardinality(A) \in Nat /\ (Cardinality({}) = Cardinality(A) \/ Cardinality({}) = MaxActivities)
        BY <1>0, <3>1, <3>2, CappedIs
      <4> QED BY <3>5, <4>1, <4>2, <4>3
    <3> QED BY <2>4, <3>3, <3>4, <3>6
  <2>7. job' \in Job /\ job'.at = "failed" /\ job'.error = Reason(b)
        /\ job'.brief = job.brief /\ job'.seen = job.seen
        /\ job'.places = job.places /\ job'.activities = job.activities
    BY <1>0, <2>2, <2>5 DEF Job, Attempting
  <2> QED BY <1>9, <2>2, <2>5, <2>6, <2>7, NoneIsNoBrief
<1>11. CASE DiagnoseInVain
  <2>1. job.at = "diagnose" /\ job' = [job EXCEPT !.at = "failed"] /\ job.brief.tags = {}
    BY <1>11 DEF DiagnoseInVain, DiagnosisRaises, MonthsRaise
  <2>2. job' \in Job /\ job'.at = "failed" /\ job'.error = job.error
        /\ job'.brief = job.brief /\ job'.seen = job.seen
        /\ job'.places = job.places /\ job'.activities = job.activities
    BY <1>0, <2>1 DEF Job, Attempting
  <2>3. job.error = None
    BY <1>0, <2>1 DEF JobInv
  <2> QED BY <1>9, <2>1, <2>2, <2>3, NoneIsNoBrief DEF Reasons
<1>12. CASE AttemptEnds
  <2>1. /\ job.at \in {"places", "stays", "activities", "diagnose", "retrieved"}
        /\ job' = [NoJob EXCEPT !.at = "queued", !.attempts = job.attempts]
    BY <1>12 DEF AttemptEnds
  <2>2. job' \in Job /\ job'.at = "queued" /\ job'.brief = None /\ job'.error = None
    <3>1. NoJob \in Job /\ job.attempts \in 0 .. MaxAttempts
      BY <1>0, NumbersAssumption DEF Job, NoJob, Attempting
    <3>2. "queued" \in Attempting /\ NoJob.error = None /\ NoJob.brief = None
      BY DEF Attempting, NoJob
    <3> QED BY <2>1, <3>1, <3>2 DEF Job
  <2>3. JobInv'
    BY <2>2 DEF JobInv
  <2> QED BY <1>1, <2>1, <2>2, <2>3, JobStep
<1> QED
  BY <1>4, <1>6, <1>7, <1>8, <1>10, <1>11, <1>12 DEF Retrieve

LEMMA NextPlan == PlanInv /\ [Next]_vars => PlanInv'
<1> SUFFICES ASSUME PlanInv, [Next]_vars
             PROVE  PlanInv'
  OBVIOUS
<1>1. CASE UNCHANGED vars
  <2>1. /\ published' = published /\ facts' = facts /\ changes' = changes /\ form' = form
        /\ clicks' = clicks /\ ask' = ask /\ verdict' = verdict /\ request' = request /\ job' = job
    BY <1>1 DEF vars
  <2>2. CASE job.at = "none"
    <3>1. TypeOK'
      BY <2>1 DEF PlanInv, TypeOK
    <3>2. WellMade(ask.brief)' <=> WellMade(ask.brief)
      BY <2>1 DEF WellMade
    <3>3. AskInv'
      BY <2>1, <3>2, CatalogueStays DEF PlanInv, AskInv
    <3>4. StoreInv'
      BY <2>1 DEF PlanInv, StoreInv, RequestOf
    <3>5. JobInv'
      BY <2>1, <2>2 DEF PlanInv, JobInv
    <3> QED BY <3>1, <3>3, <3>4, <3>5 DEF PlanInv
  <2>3. CASE job.at # "none"
    <3>1. Loaded(request)' = Loaded(request)
      BY <2>1 DEF Loaded
    <3>2. \A b, kind : Candidates(kind, b)' = Candidates(kind, b)
      BY <2>1, CatalogueStays
    <3>3. JobInv'
      BY <2>1, <3>1, <3>2 DEF PlanInv, JobInv, Capped
    <3>4. job' \in Job
      BY <2>1 DEF PlanInv, TypeOK
    <3> QED BY <2>1, <2>3, <3>3, <3>4, JobStep
  <2> QED BY <2>2, <2>3
<1> QED BY <1>1, CatalogueStep, CreatePlanStep, RetrieveStep DEF Next

-----------------------------------------------------------------------------
(* Theorems.                                                                 *)

LEMMA PlanAlways == Spec => []PlanInv
BY InitPlan, NextPlan, PTL DEF Spec

\* The form, the brief, the row and the attempt stay well typed, whatever is
\* suggested, reseeded or retried; in particular a suggested number of days is
\* one the schema admits, and a stored trip names a known district.
THEOREM PlanningTypeCorrect == Spec => []TypeOK
BY PlanAlways, PTL DEF PlanInv

\* Every attempt of a job plans what was asked (store/itineraries.py): the row
\* load_brief reads back holds all of it but the interests without a row.
THEOREM ReplayIsFaithful == Spec => []ReplayKeepsTheAsk
<1>1. PlanInv => ReplayKeepsTheAsk
  <2> SUFFICES ASSUME PlanInv, job.brief # None
               PROVE  LET b == job.brief
                          a == ask.brief
                      IN  /\ <<b.mode, b.district, b.radius, b.days, b.band, b.month>>
                                = <<a.mode, a.district, a.radius, a.days, a.band, a.month>>
                          /\ b.tags = a.tags \cap Tags
                          /\ (b.anchor = None) <=> (a.anchor = None)
                          /\ b.anchor # None => /\ b.anchor.kind = a.anchor.kind
                                                /\ b.anchor.point = a.anchor.point
    BY DEF ReplayKeepsTheAsk
  <2>1. PICK a : a = ask.brief
    OBVIOUS
  <2>2. ask.at = "accepted" /\ request = RequestOf(a) /\ job.brief = Loaded(request)
    BY <2>1 DEF PlanInv, StoreInv, JobInv
  <2>3. WellMade(a) /\ a.district \in Districts
    BY <2>1, <2>2 DEF PlanInv, AskInv
  <2> QED BY <2>1, <2>2, <2>3, RoundTrip
<1> QED BY <1>1, PlanAlways, PTL

\* An empty retrieval is explained: only a catalogue that moved can make the
\* diagnosis say "ok", and only a trip without interests leaves it speechless.
THEOREM EmptinessIsExplained == Spec => []EmptyIsExplained
<1>1. PlanInv => EmptyIsExplained
  BY DEF PlanInv, JobInv, EmptyIsExplained
<1> QED BY <1>1, PlanAlways, PTL

\* The pre-flight and the retrieval agree on a catalogue that stands still: what
\* is refused could not have been planned, what is accepted has a stop a day.
THEOREM VerdictAgrees == Spec => []VerdictIsRight
<1>1. PlanInv => VerdictIsRight
  <2> SUFFICES ASSUME PlanInv, changes = ask.seen
               PROVE  /\ ask.at = "refused" =>
                           Cardinality(Candidates("place", ask.brief))
                             + Cardinality(Candidates("activity", ask.brief)) < ask.brief.days
                      /\ job.at \in {"retrieved", "failed"} =>
                           Cardinality(job.places) + Cardinality(job.activities) >= request.days
    BY DEF VerdictIsRight
  <2> DEFINE P(b) == Candidates("place", b)
             A(b) == Candidates("activity", b)
  <2>0. Catalogued /\ AskInv /\ StoreInv /\ JobInv
    BY CatalogueTyped DEF PlanInv
  <2>1. PICK a : a = ask.brief
    OBVIOUS
  <2>2. ASSUME WellMade(a)
        PROVE  a.days \in 1 .. MaxDays /\ a.days \in Nat \ {0}
    BY <2>2, CapsCoverDays DEF WellMade, Brief
  <2>3. P(a) \subseteq Pois /\ A(a) \subseteq Pois
    BY <2>0, QueriesArePois
  <2>4. Cardinality(P(a)) \in Nat /\ Cardinality(A(a)) \in Nat
    BY <2>3, RowsAreFinite
  <2>5. ASSUME ask.at = "refused"
        PROVE  Cardinality(P(a)) + Cardinality(A(a)) < a.days
    <3>1. WellMade(a) /\ Reason(a) # "ok"
      BY <2>0, <2>1, <2>5 DEF AskInv
    <3>2. CASE a.district \in Districts
      <4>1. Cardinality(Exact(a)) = Cardinality(P(a)) + Cardinality(A(a))
        BY <2>0, <3>2, CandidatesAreExact
      <4>2. ~(Cardinality(Exact(a)) >= a.days)
        BY <2>0, <2>2, <3>1, <3>2, ReasonIs
      <4> HIDE DEF P, A
      <4> QED BY <2>2, <2>4, <3>1, <4>1, <4>2
    <3>3. CASE a.district \notin Districts
      <4>1. P(a) = {} /\ A(a) = {}
        BY <2>0, <3>3, CandidatesAreExact
      <4>2. Cardinality(P(a)) = 0 /\ Cardinality(A(a)) = 0
        BY <4>1, FS_EmptySet
      <4> HIDE DEF P, A
      <4> QED BY <2>2, <3>1, <4>2
    <3> QED BY <3>2, <3>3
  <2>6. ASSUME job.at \in {"retrieved", "failed"}
        PROVE  Cardinality(job.places) + Cardinality(job.activities) >= request.days
    <3>1. /\ ask.at = "accepted" /\ request = RequestOf(a) /\ job.brief = Loaded(RequestOf(a))
          /\ changes = job.seen
      <4>1. ask.seen \in Nat /\ job.seen \in Nat /\ changes \in Nat
        BY NumbersAssumption DEF PlanInv, TypeOK, Ask, Job
      <4>2. job.brief # None /\ ask.at = "accepted"
        BY <2>0, <2>6 DEF JobInv, StoreInv
      <4>3. ask.seen <= job.seen /\ job.seen <= changes
        BY <2>0, <4>2 DEF JobInv
      <4> QED BY <2>0, <2>1, <4>1, <4>2, <4>3 DEF JobInv, StoreInv
    <3>2. WellMade(a) /\ Reason(a) = "ok" /\ a.district \in Districts
      BY <2>0, <2>1, <3>1 DEF AskInv
    <3>3. P(job.brief) = P(a) /\ A(job.brief) = A(a)
      BY <2>0, <3>1, <3>2, SameCandidates
    <3>4. job.places \in Capped(P(a), MaxPlaces) /\ job.activities \in Capped(A(a), MaxActivities)
      BY <2>0, <2>6, <3>1, <3>3 DEF JobInv
    <3>5. request.days = a.days
      BY <3>1, <3>2, RoundTrip
    <3>6. Cardinality(P(a)) + Cardinality(A(a)) >= a.days
      <4>1. Cardinality(Exact(a)) = Cardinality(P(a)) + Cardinality(A(a))
        BY <2>0, <3>2, CandidatesAreExact
      <4>2. Cardinality(Exact(a)) >= a.days
        BY <2>0, <2>2, <3>2, ReasonIs
      <4> QED BY <4>1, <4>2
    <3> HIDE DEF P, A
    <3>7. /\ MaxPlaces \in Nat /\ MaxActivities \in Nat /\ MaxDays \in Nat
          /\ MaxPlaces >= MaxDays /\ MaxActivities >= MaxDays
      BY CapsCoverDays
    <3>8. /\ Cardinality(job.places) \in Nat
          /\ Cardinality(job.places) = Cardinality(P(a)) \/ Cardinality(job.places) = MaxPlaces
      BY <2>3, <3>4, <3>7, CappedIs
    <3>9. /\ Cardinality(job.activities) \in Nat
          /\ \/ Cardinality(job.activities) = Cardinality(A(a))
             \/ Cardinality(job.activities) = MaxActivities
      BY <2>3, <3>4, <3>7, CappedIs
    <3> QED BY <2>2, <2>4, <3>2, <3>5, <3>6, <3>7, <3>8, <3>9
  <2> QED BY <2>1, <2>5, <2>6
<1> QED BY <1>1, PlanAlways, PTL

-----------------------------------------------------------------------------
(* The suggestions.                                                          *)

LEMMA SameScope ==
    ASSUME NEW b, NEW c, c.mode = b.mode, c.anchor = b.anchor, c.radius = b.radius,
           c.district = b.district
    PROVE  Scoped(c) = Scoped(b)
BY DEF Scoped, InScope

LEMMA LeadsStay ==
    ASSUME published' = published, facts' = facts
    PROVE  /\ \A b, n : Leads(b, n)' <=> Leads(b, n)
           /\ \A f : Choices(f)' = Choices(f)
<1>1. \A b : Reason(b)' = Reason(b) /\ Exact(b)' = Exact(b)
  BY CatalogueStays
<1>2. \A slug : Resolved(slug)' = Resolved(slug)
  BY CatalogueStays
<1> QED BY <1>1, <1>2 DEF Leads, Choices

LEMMA AdviceStays ==
    ASSUME published' = published, facts' = facts, verdict' = verdict, NEW b
    PROVE  AdviceInv(b)' <=> AdviceInv(b)
<1>1. Exact(b)' = Exact(b) /\ Scoped(b)' = Scoped(b) /\ \A km : Within(b, km)' = Within(b, km)
  BY CatalogueStays
<1> QED BY <1>1 DEF AdviceInv, Affordable, InSeason, Tagged, Wanted

\* A form resolves to one brief.
LEMMA OneChoice ==
    ASSUME Catalogued, NEW f, NEW place \in Choices(f)
    PROVE  \A other \in Choices(f) : other = place
BY ResolvedIs DEF Choices

\* Whichever suggestion is taken, it leaves a candidate; the days always fit.
LEMMA MonthLeads ==
    ASSUME Catalogued, NEW f \in Form, NEW place, NEW b, b = BriefOf(f, place),
           WellMade(b), AdviceInv(b), NEW m \in verdict.months, m \in Months, NEW n, n # 2
    PROVE  Leads(BriefOf([f EXCEPT !.month = m], place), n)
<1>1. PICK c : c = BriefOf([f EXCEPT !.month = m], place)
  OBVIOUS
<1>2. /\ c.mode = b.mode /\ c.anchor = b.anchor /\ c.radius = b.radius /\ c.district = b.district
      /\ c.tags = b.tags /\ c.band = b.band /\ c.month = m
  BY <1>1, NoneIsNoBrief DEF BriefOf, Form
<1>3. Scoped(c) = Scoped(b)
  BY <1>2, SameScope
<1>4. b.district \in Districts
  BY DEF AdviceInv
<1>5. PICK p \in Scoped(b) :
        Affordable(p, b.band) /\ InSeason(p, m) /\ (b.tags = {} \/ Tagged(p, b.tags))
  BY DEF AdviceInv
<1>6. Wanted(p, c)
  BY <1>2, <1>5 DEF Wanted, WellMade
<1>7. p \in Exact(c)
  BY <1>2, <1>3, <1>5, <1>6 DEF Exact
<1> QED BY <1>1, <1>2, <1>4, <1>7 DEF Leads

LEMMA InterestLeads ==
    ASSUME Catalogued, NEW f \in Form, NEW place, NEW b, b = BriefOf(f, place),
           WellMade(b), AdviceInv(b), NEW t \in verdict.interests, NEW n, n # 2
    PROVE  Leads(BriefOf([f EXCEPT !.tags = {t}], place), n)
<1>1. PICK c : c = BriefOf([f EXCEPT !.tags = {t}], place)
  OBVIOUS
<1>2. /\ c.mode = b.mode /\ c.anchor = b.anchor /\ c.radius = b.radius /\ c.district = b.district
      /\ c.tags = {t} /\ c.band = b.band /\ c.month = b.month
  BY <1>1 DEF BriefOf, Form
<1>3. Scoped(c) = Scoped(b)
  BY <1>2, SameScope
<1>4. b.district \in Districts
  BY DEF AdviceInv
<1>5. PICK p \in Scoped(b) : Tagged(p, {t}) /\ Affordable(p, b.band) /\ InSeason(p, b.month)
  BY DEF AdviceInv
<1>6. Wanted(p, c)
  BY <1>2, <1>5 DEF Wanted
<1>7. p \in Exact(c)
  BY <1>2, <1>3, <1>5, <1>6 DEF Exact
<1> QED BY <1>1, <1>2, <1>4, <1>7 DEF Leads

LEMMA BudgetLeads ==
    ASSUME Catalogued, NEW f \in Form, NEW place, NEW b, b = BriefOf(f, place),
           WellMade(b), AdviceInv(b), verdict.band # None, NEW n, n # 2
    PROVE  Leads(BriefOf([f EXCEPT !.band = verdict.band], place), n)
<1>1. PICK c : c = BriefOf([f EXCEPT !.band = verdict.band], place)
  OBVIOUS
<1>2. /\ c.mode = b.mode /\ c.anchor = b.anchor /\ c.radius = b.radius /\ c.district = b.district
      /\ c.tags = b.tags /\ c.band = verdict.band /\ c.month = b.month
  BY <1>1 DEF BriefOf, Form
<1>3. Scoped(c) = Scoped(b)
  BY <1>2, SameScope
<1>4. b.district \in Districts
  BY DEF AdviceInv
<1>5. PICK p \in Scoped(b) : Wanted(p, b) /\ InSeason(p, b.month) /\ Affordable(p, verdict.band)
  BY DEF AdviceInv
<1>6. Wanted(p, c)
  BY <1>2, <1>5 DEF Wanted
<1>7. p \in Exact(c)
  BY <1>2, <1>3, <1>5, <1>6 DEF Exact
<1> QED BY <1>1, <1>2, <1>4, <1>7 DEF Leads

LEMMA RadiusLeads ==
    ASSUME Catalogued, NEW f \in Form, NEW place, NEW b, b = BriefOf(f, place),
           WellMade(b), AdviceInv(b), NEW km \in Nat, verdict.radius = km, NEW n, n # 2
    PROVE  Leads(BriefOf([f EXCEPT !.radius = km], place), n)
<1>0. km # None
  BY NoneIsNoBrief
<1>1. PICK c : c = BriefOf([f EXCEPT !.radius = km], place)
  OBVIOUS
<1>2. b.mode = "location" /\ b.district \in Districts /\ Within(b, km) # {}
  BY <1>0 DEF AdviceInv
<1>3. f.mode = "location"
  BY <1>2 DEF BriefOf
<1>4. /\ c.mode = b.mode /\ c.anchor = b.anchor /\ c.radius = km /\ c.district = b.district
      /\ c.tags = b.tags /\ c.band = b.band /\ c.month = b.month
  BY <1>0, <1>1, <1>3 DEF BriefOf, Form
<1>5. PICK p \in published : /\ facts[p].kind # "stay"
                             /\ Affordable(p, b.band) /\ InSeason(p, b.month)
                             /\ Distance(facts[p].at, b.anchor.point) <= km
  BY <1>2 DEF Within
<1>6. b.anchor # None
  BY <1>2 DEF WellMade
<1>7. InScope(p, c)
  BY <1>0, <1>2, <1>4, <1>5, <1>6 DEF InScope
<1>8. Wanted(p, c)
  BY <1>2, <1>4 DEF Wanted
<1>9. p \in Exact(c)
  BY <1>4, <1>5, <1>7, <1>8 DEF Exact, Scoped
<1> QED BY <1>1, <1>2, <1>4, <1>9 DEF Leads

LEMMA DaysLead ==
    ASSUME Catalogued, NEW f \in Form, NEW place, NEW b, b = BriefOf(f, place),
           WellMade(b), AdviceInv(b), verdict.days # None, verdict.days \in 1 .. MaxDays, NEW n
    PROVE  Leads(BriefOf([f EXCEPT !.days = verdict.days], place), n)
<1>1. PICK c : c = BriefOf([f EXCEPT !.days = verdict.days], place)
  OBVIOUS
<1>2. /\ c.mode = b.mode /\ c.anchor = b.anchor /\ c.radius = b.radius /\ c.district = b.district
      /\ c.tags = b.tags /\ c.band = b.band /\ c.month = b.month /\ c.days = verdict.days
  BY <1>1 DEF BriefOf, Form
<1>3. Scoped(c) = Scoped(b)
  BY <1>2, SameScope
<1>4. Exact(c) = Exact(b)
  BY <1>2, <1>3 DEF Exact, Wanted
<1>5. b.district \in Districts /\ Exact(b) # {} /\ verdict.days = Cardinality(Exact(b))
  BY DEF AdviceInv
<1>6. c.days \in Nat \ {0} /\ Cardinality(Exact(c)) >= c.days
  BY <1>2, <1>4, <1>5, CapsCoverDays
<1>7. Reason(c) = "ok"
  BY <1>2, <1>5, <1>6, ReasonIs
<1> QED BY <1>1, <1>2, <1>4, <1>5, <1>7 DEF Leads

\* ClickInv after a step that leaves the catalogue alone, in terms of the queries
\* as they were.
LEMMA ClickNow ==
    ASSUME published' = published, facts' = facts,
           NEW b, ask'.brief = b, NEW n, clicks' = n, NEW f, form' = f, n <= 2,
           b # None => \E place \in Choices(f) : b = BriefOf(f, place),
           (ask'.at \in {"form", "resolving"} /\ n # 0) =>
              \A place \in Choices(f) : Leads(BriefOf(f, place), n),
           (ask'.at \in {"counting", "refused"} /\ n # 0) => Leads(b, n),
           ask'.at \in Advised => AdviceInv(b)' /\ n < 2,
           ask'.at = "radius" => b.mode = "location" /\ b.district \in Districts,
           ask'.at \in {"months", "interests"} => b.district \in Districts,
           (ask'.at \in Advised /\ n # 0) =>
              /\ ask'.at = "refused"
              /\ verdict'.months = {} /\ verdict'.interests = {}
              /\ verdict'.band = None /\ verdict'.radius = None
    PROVE  ClickInv'
<1>1. Choices(form)' = Choices(f)
  <2>1. \A g : Choices(g)' = Choices(g)
    BY LeadsStay
  <2>2. Choices(form)' = IF form'.mode = "location" THEN Resolved(form.anchor)' ELSE {None}
    BY DEF Choices
  <2>3. Resolved(form.anchor)' = Resolved(form'.anchor)
    BY DEF Resolved
  <2> QED BY <2>2, <2>3 DEF Choices
<1>2. ASSUME NEW place
      PROVE  BriefOf(form, place)' = BriefOf(f, place)
  BY DEF BriefOf
<1>3. \A c : Leads(c, n)' <=> Leads(c, n)
  BY LeadsStay
<1>4. \A place : Leads(BriefOf(form, place), clicks)' <=> Leads(BriefOf(f, place), n)
  <2>1. TAKE place
  <2>2. PICK c : c = BriefOf(f, place)
    OBVIOUS
  <2>3. Leads(BriefOf(form, place), clicks)' <=> Leads(c, n)'
    BY <1>2, <2>2 DEF Leads, Reason, Exact, Scoped, Affordable, InSeason, InScope, Wanted, Tagged
  <2> QED BY <1>3, <2>2, <2>3
<1> QED BY <1>1, <1>2, <1>3, <1>4 DEF ClickInv

LEMMA InitClick == Init => ClickInv
BY DEF Init, ClickInv, Advised

\* The worker, and a stuttering step, leave the ask and the wizard alone.
LEMMA StillClick ==
    ASSUME ClickInv, UNCHANGED <<published, facts, changes, form, clicks, ask, verdict>>
    PROVE  ClickInv'
<1> SUFFICES ASSUME changes = 0
             PROVE  ClickInv'
  BY DEF ClickInv
<1>1. PICK b : b = ask.brief
  OBVIOUS
<1>2. AdviceInv(b)' <=> AdviceInv(b)
  BY AdviceStays
<1>3. PICK f : f = form
  OBVIOUS
<1>4. PICK n : n = clicks
  OBVIOUS
<1>5. ask'.brief = b /\ form' = f /\ clicks' = n /\ ask'.at = ask.at /\ verdict' = verdict
  BY <1>1, <1>3, <1>4
<1> QED BY <1>1, <1>2, <1>3, <1>4, <1>5, ClickNow DEF ClickInv

\* A suggestion taken leads to a brief that is not refused for want of rows.
LEMMA SuggestionClick ==
    ASSUME PlanInv, ClickInv, Suggestion, changes = 0
    PROVE  ClickInv'
<1>1. PICK b : b = ask.brief
  OBVIOUS
<1>2. PICK field : Click(field) /\
        \/ \E m \in verdict.months : field = [form EXCEPT !.month = m]
        \/ \E t \in verdict.interests : field = [form EXCEPT !.tags = {t}]
        \/ verdict.band # None /\ field = [form EXCEPT !.band = verdict.band]
        \/ verdict.radius # None /\ field = [form EXCEPT !.radius = verdict.radius]
        \/ verdict.days # None /\ field = [form EXCEPT !.days = verdict.days]
  BY DEF Suggestion, PickMonth, PickInterest, RaiseBudget, Widen, Shorten
<1>3. /\ ask.at = "refused" /\ clicks' = clicks + 1 /\ form' = field
      /\ ask' = [ask EXCEPT !.at = "form", !.brief = None, !.tried = 0]
      /\ published' = published /\ facts' = facts /\ changes' = changes /\ verdict' = verdict
  BY <1>2 DEF Click, catalogue
<1>4. /\ Catalogued /\ form \in Form /\ ask \in Ask /\ verdict \in Verdict /\ clicks \in Nat
      /\ b # None /\ WellMade(b)
      /\ verdict.days # None => verdict.days \in 1 .. MaxDays
  BY <1>1, <1>3, CatalogueTyped, NumbersAssumption DEF PlanInv, TypeOK, AskInv
<1>5. PICK place \in Choices(form) : b = BriefOf(form, place)
  BY <1>1, <1>4 DEF ClickInv
<1>6. AdviceInv(b) /\ clicks < 2
  BY <1>1, <1>3 DEF ClickInv, Advised
<1>7. clicks # 0 => /\ verdict.months = {} /\ verdict.interests = {}
                    /\ verdict.band = None /\ verdict.radius = None
  BY <1>3 DEF ClickInv, Advised
<1>8. PICK n : n = clicks + 1
  OBVIOUS
<1>9. n <= 2 /\ n # 0 /\ (clicks = 0 => n # 2)
  BY <1>4, <1>6, <1>8
<1>10. Leads(BriefOf(field, place), n)
  <2>1. CASE \E m \in verdict.months : field = [form EXCEPT !.month = m]
    <3>1. PICK m \in verdict.months : field = [form EXCEPT !.month = m]
      BY <2>1
    <3>2. m \in Months /\ n # 2
      BY <1>4, <1>7, <1>9 DEF Verdict
    <3> QED BY <1>4, <1>5, <1>6, <3>1, <3>2, MonthLeads
  <2>2. CASE \E t \in verdict.interests : field = [form EXCEPT !.tags = {t}]
    <3>1. PICK t \in verdict.interests : field = [form EXCEPT !.tags = {t}]
      BY <2>2
    <3>2. n # 2
      BY <1>7, <1>9
    <3> QED BY <1>4, <1>5, <1>6, <3>1, <3>2, InterestLeads
  <2>3. CASE verdict.band # None /\ field = [form EXCEPT !.band = verdict.band]
    <3>1. n # 2
      BY <1>7, <1>9, <2>3
    <3> QED BY <1>4, <1>5, <1>6, <2>3, <3>1, BudgetLeads
  <2>4. CASE verdict.radius # None /\ field = [form EXCEPT !.radius = verdict.radius]
    <3>1. n # 2
      BY <1>7, <1>9, <2>4
    <3>2. PICK km : km = verdict.radius
      OBVIOUS
    <3>3. km \in Nat
      BY <1>4, <2>4, <3>2 DEF Verdict
    <3> QED BY <1>4, <1>5, <1>6, <2>4, <3>1, <3>2, <3>3, RadiusLeads
  <2>5. CASE verdict.days # None /\ field = [form EXCEPT !.days = verdict.days]
    BY <1>4, <1>5, <1>6, <2>5, DaysLead
  <2> QED BY <1>2, <2>1, <2>2, <2>3, <2>4, <2>5
<1>11. Choices(field) = Choices(form)
  <2>1. field.mode = form.mode /\ field.anchor = form.anchor
    BY <1>2, <1>4 DEF Form
  <2> QED BY <2>1 DEF Choices
<1>12. \A other \in Choices(field) : Leads(BriefOf(field, other), n)
  BY <1>4, <1>5, <1>10, <1>11, OneChoice
<1>13. ask'.at = "form" /\ ask'.brief = None
  BY <1>3, <1>4 DEF Ask
<1>14. "form" \notin Advised
  BY DEF Advised
<1> QED BY <1>3, <1>8, <1>9, <1>12, <1>13, <1>14, ClickNow

\* A step of create_plan that is not the pre-flight's first statement.
LEMMA CreatePlanClick ==
    ASSUME PlanInv, PlanInv', ClickInv, CreatePlan, ~Count, changes = 0
    PROVE  ClickInv'
<1>1. PICK b : b = ask.brief
  OBVIOUS
<1>2. PICK f : f = form
  OBVIOUS
<1>3. PICK n : n = clicks
  OBVIOUS
<1>4. /\ Catalogued /\ f \in Form /\ ask \in Ask /\ verdict \in Verdict /\ n \in Nat
      /\ b # None => WellMade(b)
      /\ b = None <=> ask.at \in {"form", "resolving", "rejected"}
  BY <1>1, <1>2, <1>3, CatalogueTyped, NumbersAssumption DEF PlanInv, TypeOK, AskInv
<1>5. /\ n <= 2
      /\ b # None => \E place \in Choices(f) : b = BriefOf(f, place)
      /\ (ask.at \in {"form", "resolving"} /\ n # 0) =>
            \A place \in Choices(f) : Leads(BriefOf(f, place), n)
      /\ (ask.at \in {"counting", "refused"} /\ n # 0) => Leads(b, n)
      /\ ask.at \in Advised => AdviceInv(b) /\ n < 2
      /\ ask.at = "radius" => b.mode = "location" /\ b.district \in Districts
      /\ ask.at \in {"months", "interests"} => b.district \in Districts
      /\ (ask.at \in Advised /\ n # 0) =>
            /\ ask.at = "refused"
            /\ verdict.months = {} /\ verdict.interests = {}
            /\ verdict.band = None /\ verdict.radius = None
  BY <1>1, <1>2, <1>3 DEF ClickInv
<1>6. CASE Submit \/ Reject \/ AdviceRaises \/ Accept
  <2>1. /\ published' = published /\ facts' = facts /\ form' = f /\ clicks' = n
        /\ \E at \in {"resolving", "rejected", "raised", "accepted"} :
             /\ ask' = [ask EXCEPT !.at = at]
             /\ at = "resolving" => ask.at = "form"
    BY <1>2, <1>3, <1>6 DEF Submit, Reject, AdviceRaises, Accept, Goto, catalogue, wizard
  <2>2. /\ ask'.at \in {"resolving", "rejected", "raised", "accepted"}
        /\ ask'.at = "resolving" => ask.at = "form"
        /\ ask'.brief = b
    BY <1>1, <1>4, <2>1 DEF Ask
  <2>3. ask'.at \notin Advised
    BY <2>2 DEF Advised
  <2> QED BY <1>5, <2>1, <2>2, <2>3, ClickNow
<1>7. CASE BuildBrief
  <2>0. \E place \in Choices(form) :
          ask' = [ask EXCEPT !.at = "counting", !.brief = BriefOf(form, place)]
    BY <1>7 DEF BuildBrief, Choices
  <2>1. PICK place \in Choices(f) :
          ask' = [ask EXCEPT !.at = "counting", !.brief = BriefOf(f, place)]
    BY <1>2, <2>0
  <2>2. /\ published' = published /\ facts' = facts /\ form' = f /\ clicks' = n
        /\ ask.at = "resolving"
    BY <1>2, <1>3, <1>7 DEF BuildBrief, catalogue, wizard
  <2>3. PICK c : c = BriefOf(f, place)
    OBVIOUS
  <2>4. ask'.at = "counting" /\ ask'.brief = c
    BY <1>4, <2>1, <2>3 DEF Ask
  <2>5. ask'.at \notin Advised
    BY <2>4 DEF Advised
  <2> QED BY <1>5, <2>1, <2>2, <2>3, <2>4, <2>5, ClickNow
<1>8. ASSUME NEW at, ask.at \in {"months", "interests", "radius"},
             published' = published, facts' = facts, form' = f, clicks' = n,
             ask'.at = at, ask'.brief = b, AdviceInv(b)',
             at \in {"interests", "radius", "refused"},
             at = "radius" => ask.at = "radius"
      PROVE  ClickInv'
  <2>1. ask.at \in Advised
    BY <1>8 DEF Advised
  <2>2. n = 0
    BY <1>5, <1>8, <2>1
  <2>3. at = "interests" => b.district \in Districts
    BY <1>5, <1>8
  <2> QED BY <1>5, <1>8, <2>1, <2>2, <2>3, ClickNow
<1>9. \A c : /\ Exact(c)' = Exact(c) /\ Scoped(c)' = Scoped(c)
             /\ \A km : Within(c, km)' = Within(c, km)
      \/ ~(published' = published /\ facts' = facts)
  BY CatalogueStays
<1>10. CASE AdviseMonths
  <2>1. /\ published' = published /\ facts' = facts /\ form' = f /\ clicks' = n
        /\ ask.at = "months" /\ ask' = [ask EXCEPT !.at = "interests"]
        /\ verdict' = [verdict EXCEPT !.months = MonthsAdvised(b)]
    BY <1>1, <1>2, <1>3, <1>10 DEF AdviseMonths, Goto, catalogue, wizard
  <2>2. ask'.at = "interests" /\ ask'.brief = b
    BY <1>1, <1>4, <2>1 DEF Ask
  <2>3. /\ verdict'.months = MonthsAdvised(b) /\ verdict'.interests = verdict.interests
        /\ verdict'.band = verdict.band /\ verdict'.radius = verdict.radius
        /\ verdict'.days = verdict.days
    BY <1>4, <2>1 DEF Verdict
  <2>4. AdviceInv(b) /\ b.district \in Districts
    BY <1>5, <2>1 DEF Advised
  <2>5. \A m \in MonthsAdvised(b) : \E p \in Scoped(b) :
          Affordable(p, b.band) /\ InSeason(p, m) /\ (b.tags = {} \/ Tagged(p, b.tags))
    BY DEF MonthsAdvised
  <2>6. AdviceInv(b)'
    BY <1>9, <2>1, <2>3, <2>4, <2>5 DEF AdviceInv, Affordable, InSeason, Tagged, Wanted
  <2> QED BY <1>8, <2>1, <2>2, <2>6
<1>11. CASE AdviseInterests
  <2>1. /\ published' = published /\ facts' = facts /\ form' = f /\ clicks' = n
        /\ ask.at = "interests" /\ ask' = [ask EXCEPT !.at = "refused"]
        /\ verdict' = [verdict EXCEPT !.interests = InterestsAdvised(b)]
    BY <1>1, <1>2, <1>3, <1>11 DEF AdviseInterests, Goto, catalogue, wizard
  <2>2. ask'.at = "refused" /\ ask'.brief = b
    BY <1>1, <1>4, <2>1 DEF Ask
  <2>3. /\ verdict'.interests = InterestsAdvised(b) /\ verdict'.months = verdict.months
        /\ verdict'.band = verdict.band /\ verdict'.radius = verdict.radius
        /\ verdict'.days = verdict.days
    BY <1>4, <2>1 DEF Verdict
  <2>4. AdviceInv(b) /\ b.district \in Districts
    BY <1>5, <2>1 DEF Advised
  <2>5. ASSUME NEW t \in InterestsAdvised(b)
        PROVE  \E p \in Scoped(b) : Tagged(p, {t}) /\ Affordable(p, b.band) /\ InSeason(p, b.month)
    <3> DEFINE S == {p \in Scoped(b) :
                       Tagged(p, {t}) /\ Affordable(p, b.band) /\ InSeason(p, b.month)}
    <3>1. Enough <= Cardinality(S) /\ Enough \in Nat \ {0}
      BY NumbersAssumption DEF InterestsAdvised
    <3>2. S \subseteq Pois
      BY <1>4, QueriesArePois
    <3> HIDE DEF S
    <3>3. S # {}
      BY <3>1, <3>2, RowsAreFinite
    <3> QED BY <3>3 DEF S
  <2>6. AdviceInv(b)'
    BY <1>9, <2>1, <2>3, <2>4, <2>5 DEF AdviceInv, Affordable, InSeason, Tagged, Wanted
  <2> QED BY <1>8, <2>1, <2>2, <2>6
<1>12. CASE TryRadius
  <2>1. PICK km \in NextIncrement(ask.tried) :
          LET found == Cardinality(Within(b, km)) >= Enough
          IN  /\ ask' = [ask EXCEPT !.tried = km, !.at = IF found THEN "refused" ELSE "radius"]
              /\ verdict' = [verdict EXCEPT !.radius = IF found THEN km ELSE None]
    <3>1. PICK km \in NextIncrement(ask.tried) :
            /\ ask' = [ask EXCEPT !.tried = km, !.at =
                         IF Cardinality(Within(ask.brief, km)) >= Enough THEN "refused" ELSE "radius"]
            /\ verdict' = [verdict EXCEPT !.radius =
                         IF Cardinality(Within(ask.brief, km)) >= Enough THEN km ELSE None]
      BY <1>12 DEF TryRadius
    <3> QED BY <1>1, <3>1
  <2>2. /\ published' = published /\ facts' = facts /\ form' = f /\ clicks' = n
        /\ ask.at = "radius"
    BY <1>2, <1>3, <1>12 DEF TryRadius, catalogue, wizard
  <2>3. /\ ask'.at \in {"refused", "radius"} /\ ask'.brief = b
        /\ verdict'.months = verdict.months /\ verdict'.interests = verdict.interests
        /\ verdict'.band = verdict.band /\ verdict'.days = verdict.days
        /\ \/ verdict'.radius = None
           \/ verdict'.radius = km /\ Cardinality(Within(b, km)) >= Enough
    BY <1>1, <1>4, <2>1 DEF Ask, Verdict
  <2>4. AdviceInv(b) /\ b.mode = "location" /\ b.district \in Districts
    BY <1>5, <2>2 DEF Advised
  <2>5. verdict'.radius # None => Within(b, verdict'.radius) # {}
    <3>1. Within(b, km) \subseteq Pois
      BY <1>4, QueriesArePois
    <3>2. Cardinality(Within(b, km)) >= Enough => Within(b, km) # {}
      BY <3>1, RowsAreFinite, NumbersAssumption
    <3> QED BY <2>3, <3>2
  <2>6. PICK km2 : km2 = verdict'.radius
    OBVIOUS
  <2>7. AdviceInv(b)'
    <3>1. km2 # None => Within(b, km2)' # {}
      BY <1>9, <2>2, <2>5, <2>6
    <3>2. (verdict.radius # None => Within(b, verdict.radius) # {})'
      BY <2>6, <3>1 DEF Within, Affordable, InSeason
    <3> QED BY <1>9, <2>2, <2>3, <2>4, <3>2 DEF AdviceInv, Affordable, InSeason, Tagged, Wanted
  <2> QED BY <1>8, <2>2, <2>3, <2>7
<1>13. CASE NoRadiusWorks
  <2>1. /\ published' = published /\ facts' = facts /\ form' = f /\ clicks' = n
        /\ ask.at = "radius" /\ ask' = [ask EXCEPT !.at = "refused"] /\ verdict' = verdict
    BY <1>2, <1>3, <1>13 DEF NoRadiusWorks, Goto, catalogue, wizard
  <2>2. ask'.at = "refused" /\ ask'.brief = b
    BY <1>1, <1>4, <2>1 DEF Ask
  <2>3. AdviceInv(b)
    BY <1>5, <2>1 DEF Advised
  <2> QED BY <1>8, <2>1, <2>2, <2>3, AdviceStays
<1> QED BY <1>6, <1>7, <1>10, <1>11, <1>12, <1>13 DEF CreatePlan

\* The pre-flight's first statement: the causes that get advice have a district,
\* and a brief that leads somewhere is short of days at most.
LEMMA CountClick ==
    ASSUME PlanInv, PlanInv', ClickInv, Count, changes = 0
    PROVE  ClickInv'
<1>1. PICK b : b = ask.brief
  OBVIOUS
<1>2. PICK f : f = form
  OBVIOUS
<1>3. PICK n : n = clicks
  OBVIOUS
<1>4. PICK reason : reason = Reason(b)
  OBVIOUS
<1>5. /\ ask.at = "counting"
      /\ published' = published /\ facts' = facts /\ form' = f /\ clicks' = n
      /\ verdict' = [Verdicted(reason) EXCEPT
              !.band = IF reason = "budget_too_low" THEN BandAdvised(b) ELSE None,
              !.days = IF reason = "not_enough_for_days" THEN Cardinality(Exact(b)) ELSE None]
      /\ ask' = [ask EXCEPT !.seen = changes,
              !.tried = IF b.radius = None THEN 0 ELSE b.radius, !.at =
              CASE reason = "ok" -> "storing"
                [] reason = "nothing_in_radius" -> "radius"
                [] reason \in AdviseMonthsFor -> "months"
                [] OTHER -> "refused"]
  BY <1>1, <1>2, <1>3, <1>4 DEF Count, catalogue, wizard
<1>6. /\ Catalogued /\ ask \in Ask /\ n \in Nat /\ b # None /\ WellMade(b)
      /\ b.days \in Nat \ {0}
  <2>1. Catalogued /\ ask \in Ask /\ n \in Nat /\ b # None /\ WellMade(b)
    BY <1>1, <1>3, <1>5, CatalogueTyped, NumbersAssumption DEF PlanInv, TypeOK, AskInv
  <2> QED BY <2>1, CapsCoverDays DEF WellMade, Brief
<1>7. /\ n <= 2
      /\ \E place \in Choices(f) : b = BriefOf(f, place)
      /\ n # 0 => Leads(b, n)
  BY <1>1, <1>2, <1>3, <1>5, <1>6 DEF ClickInv
<1>8. /\ reason = "nothing_in_radius" => b.mode = "location"
      /\ reason # "no_data" => b.district \in Districts
      /\ (b.district \in Districts /\ Exact(b) # {} /\ reason # "ok")
           => reason = "not_enough_for_days"
      /\ reason = "not_enough_for_days" => Exact(b) # {}
      /\ reason \in Reasons
  BY <1>4, <1>6, ReasonIs
<1>9. /\ ask'.brief = b /\ ask'.at \in {"storing", "radius", "months", "refused"}
      /\ ask'.at = "storing" <=> reason = "ok"
      /\ ask'.at = "radius" => reason = "nothing_in_radius"
      /\ ask'.at = "months" => reason \in AdviseMonthsFor
      /\ reason = "not_enough_for_days" => ask'.at = "refused"
  <2>1. PICK at : at = CASE reason = "ok" -> "storing"
                [] reason = "nothing_in_radius" -> "radius"
                [] reason \in AdviseMonthsFor -> "months"
                [] OTHER -> "refused"
    OBVIOUS
  <2>2. /\ at \in {"storing", "radius", "months", "refused"}
        /\ at = "storing" <=> reason = "ok"
        /\ at = "radius" => reason = "nothing_in_radius"
        /\ at = "months" => reason \in AdviseMonthsFor
        /\ reason = "not_enough_for_days" => at = "refused"
    BY <2>1 DEF AdviseMonthsFor
  <2>3. ask'.brief = ask.brief /\ ask'.at = at
    BY <1>5, <1>6, <2>1 DEF Ask
  <2> QED BY <1>1, <2>2, <2>3
<1>10. /\ verdict'.months = {} /\ verdict'.interests = {} /\ verdict'.radius = None
       /\ verdict'.band = IF reason = "budget_too_low" THEN BandAdvised(b) ELSE None
       /\ verdict'.days = IF reason = "not_enough_for_days" THEN Cardinality(Exact(b)) ELSE None
  BY <1>5 DEF Verdicted
<1>11. AdviceInv(b)'
  <2>1. PICK band : band = verdict'.band
    OBVIOUS
  <2>2. band # None => \E p \in Scoped(b) : Wanted(p, b) /\ InSeason(p, b.month)
                                              /\ Affordable(p, band)
    <3>1. SUFFICES ASSUME band # None
                   PROVE  \E p \in Scoped(b) : Wanted(p, b) /\ InSeason(p, b.month)
                                                 /\ Affordable(p, band)
      OBVIOUS
    <3>2. band = BandAdvised(b)
      BY <1>10, <2>1, <3>1
    <3>3. BandAdvised(b) \in Bands
          /\ \E p \in Scoped(b) : Wanted(p, b) /\ InSeason(p, b.month)
                                    /\ facts[p].band = BandAdvised(b)
      BY <1>6, <3>1, <3>2, BandAdvisedIs
    <3>4. band \in Nat
      BY <3>2, <3>3, CatalogueAssumption
    <3> QED BY <3>2, <3>3, <3>4 DEF Affordable
  <2>3. (verdict'.band # None => b.district \in Districts)
        /\ (verdict'.days # None => b.district \in Districts /\ Exact(b) # {}
                                      /\ verdict'.days = Cardinality(Exact(b)))
    BY <1>8, <1>10
  <2>4. Exact(b)' = Exact(b) /\ Scoped(b)' = Scoped(b)
    BY <1>5, CatalogueStays
  <2>5. (verdict.band # None =>
          \E p \in Scoped(b) : Wanted(p, b) /\ InSeason(p, b.month) /\ Affordable(p, verdict.band))'
    BY <1>5, <2>1, <2>2, <2>4 DEF Wanted, InSeason, Affordable, Tagged
  <2> QED BY <1>10, <2>3, <2>4, <2>5 DEF AdviceInv
<1>12. ASSUME n # 0
       PROVE  /\ Leads(b, n)
              /\ ask'.at \in Advised =>
                   ask'.at = "refused" /\ n < 2 /\ reason = "not_enough_for_days"
  <2>1. /\ Leads(b, n) /\ b.district \in Districts /\ Exact(b) # {}
        /\ n = 2 => reason = "ok"
    BY <1>4, <1>7, <1>12 DEF Leads
  <2>2. ask'.at \in Advised => reason # "ok"
    BY <1>9 DEF Advised
  <2> QED BY <1>6, <1>7, <1>8, <1>9, <2>1, <2>2
<1>13. ask'.at \in Advised => n < 2
  BY <1>6, <1>12
<1>14. ask'.at = "radius" => b.mode = "location" /\ b.district \in Districts
  BY <1>8, <1>9
<1>15. ask'.at \in {"months", "interests"} => b.district \in Districts
  BY <1>8, <1>9 DEF AdviseMonthsFor
<1>16. (ask'.at \in Advised /\ n # 0) =>
              /\ ask'.at = "refused"
              /\ verdict'.months = {} /\ verdict'.interests = {}
              /\ verdict'.band = None /\ verdict'.radius = None
  BY <1>10, <1>12
<1>17. (ask'.at \in {"form", "resolving"} /\ n # 0) =>
              \A place \in Choices(f) : Leads(BriefOf(f, place), n)
  BY <1>9
<1>18. (ask'.at \in {"counting", "refused"} /\ n # 0) => Leads(b, n)
  BY <1>12
<1> QED
  BY <1>5, <1>7, <1>9, <1>11, <1>13, <1>14, <1>15, <1>16, <1>17, <1>18, ClickNow

LEMMA NextClick == PlanInv /\ PlanInv' /\ ClickInv /\ [Next]_vars => ClickInv'
<1> SUFFICES ASSUME PlanInv, PlanInv', ClickInv, [Next]_vars, changes' = 0
             PROVE  ClickInv'
  BY DEF ClickInv
<1>1. changes \in Nat
  BY NumbersAssumption DEF PlanInv, TypeOK
<1>2. CASE Publish \/ Reseed
  <2>1. changes' = changes + 1
    BY <1>2 DEF Publish, Reseed
  <2> QED BY <1>1, <2>1
<1>3. CASE UNCHANGED vars
  BY <1>3, StillClick DEF vars
<1>4. CASE Retrieve
  <2>1. UNCHANGED <<published, facts, changes, form, clicks, ask, verdict>>
    BY <1>4 DEF Retrieve, LoadBrief, FetchPlaces, FetchStays, FetchActivities, Diagnose,
                DiagnoseInVain, AttemptEnds, catalogue, wizard
  <2> QED BY <2>1, StillClick
<1>5. CASE Suggestion
  <2>1. UNCHANGED catalogue
    BY <1>5 DEF Suggestion, PickMonth, PickInterest, RaiseBudget, Widen, Shorten, Click
  <2> QED BY <1>5, <2>1, SuggestionClick DEF catalogue
<1>6. CASE CreatePlan
  <2>1. UNCHANGED catalogue
    BY <1>6 DEF CreatePlan, Submit, Reject, BuildBrief, Count, AdviseMonths, AdviceRaises,
                AdviseInterests, TryRadius, NoRadiusWorks, Accept
  <2> QED BY <1>6, <2>1, CreatePlanClick, CountClick DEF catalogue
<1> QED BY <1>2, <1>3, <1>4, <1>5, <1>6 DEF Next

\* On a catalogue that stands still, whoever takes two suggestions of NoMatches,
\* whichever they are, gets a plan: the first leaves a candidate, so that at most
\* the days are too many, and the second can only be about the days.
THEOREM TwoClicks == Spec => []TwoClicksSuffice
<1>1. PlanInv /\ ClickInv => TwoClicksSuffice
  BY DEF ClickInv, TwoClicksSuffice, Advised
<1>2. Spec => []ClickInv
  BY PlanAlways, InitClick, NextClick, PTL DEF Spec
<1> QED BY <1>1, <1>2, PlanAlways, PTL

=============================================================================
