------------------------------ MODULE Planning ------------------------------
(***************************************************************************)
(* From the wizard's form to the candidates of a plan: the request as the  *)
(* API normalises and refuses it (api/app.py create_plan, engine/brief.py, *)
(* store/pois.py), the row it leaves (store/itineraries.py) and the        *)
(* retrieval the worker does from that row (engine/pipeline.py, stage 1).  *)
(*                                                                         *)
(* Each statement reads the catalogue as it is at that moment; the seed    *)
(* loader and `publish' commit between any two of them.                    *)
(*                                                                         *)
(* Points lie on a line and haversine_km is their distance.  A region path *)
(* is reduced to the district it lies in, tag weights to "is tagged", and  *)
(* the ORDER BY of a capped query to "some rows, as many as the cap".      *)
(***************************************************************************)
EXTENDS Integers, FiniteSets

CONSTANTS
    Pois,           \* slugs of points of interest
    Towns,          \* slugs of regions with a centroid
    Districts,      \* slugs of districts with a regions row
    Tags,           \* slugs of interest_tags
    Interests,      \* those of kind 'interest' and active
    Months, Bands,  \* 1..12 and 1..5 in the schema
    MaxDays,        \* longest trip the schema admits (14)
    Points,         \* positions on the line
    Increments,     \* the radii the API may suggest
    DefaultRadius,  \* brief.py's radius when none is given
    Enough,         \* candidates that make a suggestion worthwhile (3)
    MaxPlaces, MaxStays, MaxActivities,     \* config.retrieval
    Today,          \* the month it is
    Facts,          \* Facts[p]: what the seed files may say of p
    TownFact,       \* TownFact[t]: district and centroid of a town
    Forms,          \* what the wizard, or another caller, posts first
    MaxAttempts,    \* bound: attempts of the job
    MaxChanges,     \* bound: transactions that change the catalogue
    MaxClicks,      \* bound: suggestions the user takes
    None            \* NULL

Kinds == {"place", "stay", "activity"}
Modes == {"interest", "location", "district"}
Slugs == Pois \cup Towns

\* A band of 0 stands for NULL (free to everybody), all of Months for NULL.
Fact == [kind : Kinds, district : Districts, at : Points,
         band : Bands \cup {0}, months : SUBSET Months, tags : SUBSET Tags]

ASSUME CatalogueAssumption ==
    /\ IsFiniteSet(Pois) /\ IsFiniteSet(Tags) /\ Pois \cap Towns = {}
    /\ Facts \in [Pois -> SUBSET Fact]
    /\ TownFact \in [Towns -> [district : Districts, at : Points]]
    /\ Points \subseteq Int /\ Bands \subseteq Nat \ {0} /\ Interests \subseteq Tags
    /\ None \notin Slugs /\ None \notin Districts

\* config.retrieval ships caps of 30, 12 and 20 against trips of 14 days.
ASSUME CapsCoverDays ==
    /\ {MaxPlaces, MaxStays, MaxActivities, MaxDays} \subseteq Nat
    /\ MaxPlaces >= MaxDays /\ MaxActivities >= MaxDays

ASSUME NumbersAssumption ==
    /\ Increments \subseteq Nat /\ DefaultRadius \in Nat /\ Enough \in Nat \ {0}
    /\ Today \in Months
    /\ MaxAttempts \in Nat /\ MaxChanges \in Nat /\ MaxClicks \in Nat

VARIABLES
    published,  \* the POIs with status 'published'
    facts,      \* the rest of each POI's row
    changes,    \* transactions that changed the catalogue
    form,       \* the wizard's state
    clicks,     \* suggestions taken
    ask,        \* the running or last create_plan: its step and its brief
    verdict,    \* its Feasibility
    request,    \* the trip_requests row
    job         \* the job's attempt: its step, brief and candidates

vars == <<published, facts, changes, form, clicks, ask, verdict, request, job>>
catalogue == <<published, facts, changes>>
wizard == <<form, clicks>>

Form == [mode : Modes, tags : SUBSET (Tags \cup {"unknown"}),
         district : Districts \cup {None, "nowhere"}, anchor : Slugs \cup {None, "nowhere"},
         radius : Nat \cup {None}, days : 1 .. MaxDays, band : Bands,
         month : Months \cup {None}]
Anchor == [kind : {"poi", "region"}, slug : Slugs \cup {"label"}, point : Points]
Brief == [mode : Modes, tags : SUBSET (Tags \cup {"unknown"}),
          district : Districts \cup {"nowhere"}, anchor : Anchor \cup {None},
          radius : Nat \cup {None}, days : 1 .. MaxDays, band : Bands, month : Months]

Distance(a, b) == IF a < b THEN b - a ELSE a - b

-----------------------------------------------------------------------------
(* The clauses of the queries. *)

\* _scope_for
InScope(p, b) ==
    IF b.mode = "location" /\ b.anchor # None /\ b.radius # None
    THEN Distance(facts[p].at, b.anchor.point) <= b.radius
    ELSE facts[p].district = b.district

Tagged(p, S) == facts[p].tags \cap S # {}
InSeason(p, m) == m \in facts[p].months
Affordable(p, band) == facts[p].band <= band

\* Outside interest mode interests rank and do not filter.
Wanted(p, b) == b.mode # "interest" \/ Tagged(p, b.tags)

\* Mutant of Candidates: the budget is not part of the query.
CandidatesOfAnyBand(kind, b) ==
    {p \in published : /\ b.district \in Districts
                       /\ facts[p].kind = kind
                       /\ InSeason(p, b.month)
                       /\ InScope(p, b)
                       /\ kind = "stay" \/ Wanted(p, b)}

\* Mutant of Candidates: interests filter in every mode.
CandidatesByTag(kind, b) ==
    {p \in published : /\ b.district \in Districts
                       /\ facts[p].kind = kind
                       /\ Affordable(p, b.band)
                       /\ InSeason(p, b.month)
                       /\ InScope(p, b)
                       /\ kind = "stay" \/ b.tags = {} \/ Tagged(p, b.tags)}

\* The rows fetch_candidates selects before LIMIT.
Candidates(kind, b) ==
    {p \in published : /\ b.district \in Districts
                       /\ facts[p].kind = kind
                       /\ Affordable(p, b.band)
                       /\ InSeason(p, b.month)
                       /\ InScope(p, b)
                       /\ kind = "stay" \/ Wanted(p, b)}

Capped(S, n) ==
    {T \in SUBSET S : Cardinality(T) = IF Cardinality(S) < n THEN Cardinality(S) ELSE n}

\* feasibility's `scoped' rows, and its `exact' ones.
Scoped(b) == {p \in published : facts[p].kind # "stay" /\ InScope(p, b)}

Exact(b) ==
    {p \in Scoped(b) : Wanted(p, b) /\ InSeason(p, b.month) /\ Affordable(p, b.band)}

\* The single cause a failure is attributed to, in the code's order.
Reason(b) ==
    LET tagged == {p \in Scoped(b) : Wanted(p, b)}
    IN  IF b.district \notin Districts THEN "no_data"
        ELSE IF Cardinality(Exact(b)) >= b.days THEN "ok"
        ELSE IF Exact(b) # {} THEN "not_enough_for_days"
        ELSE IF Scoped(b) = {} THEN IF b.mode = "location" THEN "nothing_in_radius" ELSE "no_data"
        ELSE IF tagged = {} THEN "nothing_tagged"
        ELSE IF \A p \in tagged : ~InSeason(p, b.month) THEN "out_of_season"
        ELSE "budget_too_low"

\* Mutant of MonthsAdvised: the budget is forgotten.
MonthsAdvisedAtAnyBand(b) ==
    {m \in Months : \E p \in Scoped(b) :
        InSeason(p, m) /\ (b.tags = {} \/ Tagged(p, b.tags))}

\* _months_for_interests: here given interests filter in every mode.
MonthsAdvised(b) ==
    {m \in Months : \E p \in Scoped(b) :
        Affordable(p, b.band) /\ InSeason(p, m) /\ (b.tags = {} \/ Tagged(p, b.tags))}

\* Without interests the text of that statement has no $1, which is bound all
\* the same: PostgreSQL cannot determine its type and refuses the statement.
MonthsRaise(b) == b.tags = {}

\* The reasons whose advice starts with the months.
AdviseMonthsFor == {"nothing_tagged", "out_of_season", "budget_too_low"}

\* _interests_for_month
InterestsAdvised(b) ==
    {t \in Interests : Enough <= Cardinality(
        {p \in Scoped(b) : Tagged(p, {t}) /\ Affordable(p, b.band) /\ InSeason(p, b.month)})}

\* min(cost_band) of the rows in season: NULL bands do not count.
BandAdvised(b) ==
    LET bands == {facts[p].band : p \in {q \in Scoped(b) : Wanted(q, b) /\ InSeason(q, b.month)}}
                   \ {0}
    IN  IF bands = {} THEN None ELSE CHOOSE n \in bands : \A k \in bands : n <= k

\* One query of _radius_that_would_work.
Within(b, km) ==
    {p \in published : /\ facts[p].kind # "stay"
                       /\ Affordable(p, b.band) /\ InSeason(p, b.month)
                       /\ Distance(facts[p].at, b.anchor.point) <= km}

-----------------------------------------------------------------------------
(* The states. *)

Asking == {"form", "resolving", "counting", "months", "interests", "radius",
           "storing", "refused", "rejected", "raised", "accepted"}
Ask == [at : Asking, brief : Brief \cup {None}, seen : 0 .. MaxChanges,
        tried : Nat]        \* the increment tried last

Reasons == {"ok", "out_of_season", "budget_too_low", "nothing_tagged",
            "nothing_in_radius", "not_enough_for_days", "no_data"}
Verdict == [reason : Reasons, months : SUBSET Months, interests : SUBSET Interests,
            radius : Nat \cup {None}, band : Bands \cup {None}, days : Nat \cup {None}]
Verdicted(reason) == [reason |-> reason, months |-> {}, interests |-> {},
                      radius |-> None, band |-> None, days |-> None]

\* trip_requests.  The anchor is a label and a point; its POI is an extra.
Request == [mode : Modes, tags : SUBSET Tags, district : Districts,
            anchorPoi : Pois \cup {None}, anchorLabel : Slugs \cup {None},
            anchorPoint : Points \cup {None}, radius : Nat \cup {None},
            days : 1 .. MaxDays, band : Bands, month : Months]

\* What schemas.PlanRequestIn lets through; NULL is not a value of any column.
ASSUME FormsAssumption == Forms \subseteq Form
ASSUME NullAssumption ==
    /\ None \notin Points \cup Months \cup Nat \cup Reasons
    /\ None \notin Anchor /\ None \notin Brief /\ None \notin Request

Attempting == {"none", "queued", "places", "stays", "activities",
               "diagnose", "retrieved", "failed"}
Job == [at : Attempting, attempts : 0 .. MaxAttempts, seen : 0 .. MaxChanges,
        brief : Brief \cup {None}, places : SUBSET Pois, stays : SUBSET Pois,
        activities : SUBSET Pois, error : Reasons \cup {None}]
NoJob == [at |-> "none", attempts |-> 0, seen |-> 0, brief |-> None, places |-> {},
          stays |-> {}, activities |-> {}, error |-> None]

Init ==
    /\ published \in SUBSET Pois
    /\ facts \in {f \in [Pois -> UNION {Facts[p] : p \in Pois}] : \A p \in Pois : f[p] \in Facts[p]}
    /\ changes = 0
    /\ form \in Forms
    /\ clicks = 0
    /\ ask = [at |-> "form", brief |-> None, seen |-> 0, tried |-> 0]
    /\ verdict = Verdicted("ok")
    /\ request = None
    /\ job = NoJob

-----------------------------------------------------------------------------
(* The catalogue moves: whole transactions of seed.py. *)

Publish ==
    /\ changes < MaxChanges
    /\ \E S \in SUBSET (Pois \ published) :
          S # {} /\ published' = published \cup S
    /\ changes' = changes + 1
    /\ UNCHANGED <<facts, wizard, ask, verdict, request, job>>

\* load_pois overwrites every fact of the rows of its files, never the status.
Reseed ==
    /\ changes < MaxChanges
    /\ \E p \in Pois : \E f \in Facts[p] \ {facts[p]} : facts' = [facts EXCEPT ![p] = f]
    /\ changes' = changes + 1
    /\ UNCHANGED <<published, wizard, ask, verdict, request, job>>

-----------------------------------------------------------------------------
(* create_plan. *)

Goto(at) == ask' = [ask EXCEPT !.at = at]

\* PlanWizard's submit, with what is then on the form.
Submit ==
    /\ ask.at = "form"
    /\ Goto("resolving")
    /\ UNCHANGED <<catalogue, wizard, verdict, request, job>>

\* resolve_anchor: two SELECTs joined by UNION ALL, one row taken.
Resolved(slug) ==
    {[kind |-> "poi", slug |-> p, point |-> facts[p].at, district |-> facts[p].district]
        : p \in published \cap {slug}}
    \cup {[kind |-> "region", slug |-> t, point |-> TownFact[t].at,
           district |-> TownFact[t].district] : t \in Towns \cap {slug}}

\* The 422s before the catalogue is weighed: no district named, no anchor or an
\* unknown one, no interest in interest mode (BriefError).
Rejected(f) ==
    \/ f.mode # "location" /\ f.district = None
    \/ f.mode = "location" /\ (f.anchor = None \/ Resolved(f.anchor) = {})
    \/ f.mode = "interest" /\ f.tags = {}

Reject ==
    /\ ask.at = "resolving"
    /\ Rejected(form)
    /\ Goto("rejected")
    /\ UNCHANGED <<catalogue, wizard, verdict, request, job>>

\* build_brief.  An anchor posted in another mode is never resolved.
BriefOf(f, place) ==
    [mode |-> f.mode, tags |-> f.tags,
     district |-> IF f.mode = "location" THEN place.district ELSE f.district,
     anchor |-> IF f.mode = "location"
                THEN [kind |-> place.kind, slug |-> place.slug, point |-> place.point]
                ELSE None,
     radius |-> IF f.mode # "location" THEN None
                ELSE IF f.radius = None THEN DefaultRadius ELSE f.radius,
     days |-> f.days, band |-> f.band,
     month |-> IF f.month = None THEN Today ELSE f.month]

BuildBrief ==
    /\ ask.at = "resolving"
    /\ ~Rejected(form)
    /\ \E place \in IF form.mode = "location" THEN Resolved(form.anchor) ELSE {None} :
          ask' = [ask EXCEPT !.at = "counting", !.brief = BriefOf(form, place)]
    /\ UNCHANGED <<catalogue, wizard, verdict, request, job>>

\* feasibility's first SELECT: every slice counted in one statement.
Count ==
    /\ ask.at = "counting"
    /\ LET b == ask.brief
           reason == Reason(b)
       IN  /\ verdict' = [Verdicted(reason) EXCEPT
                !.band = IF reason = "budget_too_low" THEN BandAdvised(b) ELSE None,
                !.days = IF reason = "not_enough_for_days" THEN Cardinality(Exact(b)) ELSE None]
           /\ ask' = [ask EXCEPT !.seen = changes,
                !.tried = IF b.radius = None THEN 0 ELSE b.radius, !.at =
                CASE reason = "ok" -> "storing"
                  [] reason = "nothing_in_radius" -> "radius"
                  [] reason \in AdviseMonthsFor -> "months"
                  [] OTHER -> "refused"]
    /\ UNCHANGED <<catalogue, wizard, request, job>>

AdviseMonths ==
    /\ ask.at = "months"
    /\ ~MonthsRaise(ask.brief)
    /\ verdict' = [verdict EXCEPT !.months = MonthsAdvised(ask.brief)]
    /\ Goto("interests")
    /\ UNCHANGED <<catalogue, wizard, request, job>>

\* The refusal becomes a 500 and its advice is lost.
AdviceRaises ==
    /\ ask.at = "months"
    /\ MonthsRaise(ask.brief)
    /\ Goto("raised")
    /\ UNCHANGED <<catalogue, wizard, verdict, request, job>>

AdviseInterests ==
    /\ ask.at = "interests"
    /\ verdict' = [verdict EXCEPT !.interests = InterestsAdvised(ask.brief)]
    /\ Goto("refused")
    /\ UNCHANGED <<catalogue, wizard, request, job>>

\* One round of the loop over the increments wider than the radius asked.
NextIncrement(km) == {r \in Increments : r > km /\ \A q \in Increments : q > km => r <= q}

TryRadius ==
    /\ ask.at = "radius"
    /\ \E km \in NextIncrement(ask.tried) :
         LET found == Cardinality(Within(ask.brief, km)) >= Enough
         IN  /\ ask' = [ask EXCEPT !.tried = km, !.at = IF found THEN "refused" ELSE "radius"]
             /\ verdict' = [verdict EXCEPT !.radius = IF found THEN km ELSE None]
    /\ UNCHANGED <<catalogue, wizard, request, job>>

NoRadiusWorks ==
    /\ ask.at = "radius"
    /\ NextIncrement(ask.tried) = {}
    /\ Goto("refused")
    /\ UNCHANGED <<catalogue, wizard, verdict, request, job>>

\* create_request: slugs become ids, and a slug without a row is dropped.
RequestOf(b) ==
    [mode |-> b.mode, tags |-> b.tags \cap Tags, district |-> b.district,
     anchorPoi |-> IF b.anchor = None \/ b.anchor.kind # "poi" THEN None ELSE b.anchor.slug,
     anchorLabel |-> IF b.anchor = None THEN None ELSE b.anchor.slug,
     anchorPoint |-> IF b.anchor = None THEN None ELSE b.anchor.point,
     radius |-> b.radius, days |-> b.days, band |-> b.band, month |-> b.month]

\* One transaction: the request and its job.
Accept ==
    /\ ask.at = "storing"
    /\ request' = RequestOf(ask.brief)
    /\ job' = [job EXCEPT !.at = "queued"]
    /\ Goto("accepted")
    /\ UNCHANGED <<catalogue, wizard, verdict>>

-----------------------------------------------------------------------------
(* The suggestions of a refusal (NoMatches): a click changes one field. *)

Click(field) ==
    /\ ask.at = "refused"
    /\ clicks < MaxClicks
    /\ clicks' = clicks + 1
    /\ form' = field
    /\ ask' = [ask EXCEPT !.at = "form", !.brief = None, !.tried = 0]
    /\ UNCHANGED <<catalogue, verdict, request, job>>

PickMonth == \E m \in verdict.months : Click([form EXCEPT !.month = m])
PickInterest == \E t \in verdict.interests : Click([form EXCEPT !.tags = {t}])
RaiseBudget == verdict.band # None /\ Click([form EXCEPT !.band = verdict.band])
Widen == verdict.radius # None /\ Click([form EXCEPT !.radius = verdict.radius])
Shorten == verdict.days # None /\ Click([form EXCEPT !.days = verdict.days])

-----------------------------------------------------------------------------
(* The worker: load_brief, then retrieve, kind by kind. *)

\* Mutant of Loaded: a POI anchor is read from the POI as it now stands.
LoadedFromPoi(r) ==
    [mode |-> r.mode, tags |-> r.tags, district |-> r.district,
     anchor |-> IF r.anchorPoint = None THEN None
                ELSE [kind |-> IF r.anchorPoi = None THEN "region" ELSE "poi",
                      slug |-> IF r.anchorPoi = None THEN "label"
                               ELSE r.anchorPoi,
                      point |-> IF r.anchorPoi = None THEN r.anchorPoint
                                ELSE facts[r.anchorPoi].at],
     radius |-> r.radius, days |-> r.days, band |-> r.band, month |-> r.month]

\* The point is read back; a town's slug is not stored, its label stands in.
Loaded(r) ==
    [mode |-> r.mode, tags |-> r.tags, district |-> r.district,
     anchor |-> IF r.anchorPoint = None THEN None
                ELSE [kind |-> IF r.anchorPoi = None THEN "region" ELSE "poi",
                      slug |-> IF r.anchorPoi = None THEN "label"
                               ELSE r.anchorPoi,
                      point |-> r.anchorPoint],
     radius |-> r.radius, days |-> r.days, band |-> r.band, month |-> r.month]

LoadBrief ==
    /\ job.at = "queued"
    /\ job.attempts < MaxAttempts
    /\ job' = [NoJob EXCEPT !.at = "places", !.attempts = job.attempts + 1,
                            !.seen = changes, !.brief = Loaded(request)]
    /\ UNCHANGED <<catalogue, wizard, ask, verdict, request>>

FetchPlaces ==
    /\ job.at = "places"
    /\ \E S \in Capped(Candidates("place", job.brief), MaxPlaces) :
          job' = [job EXCEPT !.at = "stays", !.places = S]
    /\ UNCHANGED <<catalogue, wizard, ask, verdict, request>>

FetchStays ==
    /\ job.at = "stays"
    /\ \E S \in Capped(Candidates("stay", job.brief), MaxStays) :
          job' = [job EXCEPT !.at = "activities", !.stays = S]
    /\ UNCHANGED <<catalogue, wizard, ask, verdict, request>>

FetchActivities ==
    /\ job.at = "activities"
    /\ \E S \in Capped(Candidates("activity", job.brief), MaxActivities) :
          job' = [job EXCEPT !.activities = S, !.at =
                    IF job.places = {} /\ S = {} THEN "diagnose" ELSE "retrieved"]
    /\ UNCHANGED <<catalogue, wizard, ask, verdict, request>>

\* candidates.is_empty(): the pre-flight's diagnosis, asked again.  Its text is
\* the EngineError, and that is final.
DiagnosisRaises(b) == Reason(b) \in AdviseMonthsFor /\ MonthsRaise(b)

Diagnose ==
    /\ job.at = "diagnose"
    /\ ~DiagnosisRaises(job.brief)
    /\ job' = [job EXCEPT !.at = "failed", !.error = Reason(job.brief)]
    /\ UNCHANGED <<catalogue, wizard, ask, verdict, request>>

\* A diagnosis that raises is no EngineError: the last attempt fails with it,
\* the earlier ones are repeated (AttemptEnds).
DiagnoseInVain ==
    /\ job.at = "diagnose"
    /\ DiagnosisRaises(job.brief)
    /\ job.attempts = MaxAttempts
    /\ job' = [job EXCEPT !.at = "failed"]
    /\ UNCHANGED <<catalogue, wizard, ask, verdict, request>>

\* Any later failure of the attempt, or its worker's end: the job is queued again.
AttemptEnds ==
    /\ job.at \in {"places", "stays", "activities", "diagnose", "retrieved"}
    /\ job.attempts < MaxAttempts
    /\ job' = [NoJob EXCEPT !.at = "queued", !.attempts = job.attempts]
    /\ UNCHANGED <<catalogue, wizard, ask, verdict, request>>

-----------------------------------------------------------------------------
CreatePlan ==
    \/ Submit \/ Reject \/ BuildBrief \/ Count
    \/ AdviseMonths \/ AdviceRaises \/ AdviseInterests \/ TryRadius \/ NoRadiusWorks \/ Accept
Suggestion == PickMonth \/ PickInterest \/ RaiseBudget \/ Widen \/ Shorten
Retrieve ==
    \/ LoadBrief \/ FetchPlaces \/ FetchStays \/ FetchActivities
    \/ Diagnose \/ DiagnoseInVain \/ AttemptEnds

Next == Publish \/ Reseed \/ CreatePlan \/ Suggestion \/ Retrieve

Spec == Init /\ [][Next]_vars

-----------------------------------------------------------------------------
(* Properties. *)

TypeOK ==
    /\ published \subseteq Pois /\ facts \in [Pois -> Fact] /\ changes \in 0 .. MaxChanges
    /\ form \in Form /\ clicks \in 0 .. MaxClicks
    /\ ask \in Ask /\ verdict \in Verdict
    /\ request \in Request \cup {None} /\ job \in Job

\* A refusal leads somewhere: on a catalogue that stays as it is, whoever takes
\* two suggestions, whichever they are, is not refused a third time.  Each one
\* has to leave at least a candidate behind under every filter it was not
\* about, and the day count then leads to a plan (NoMatches, PlanWizard.tsx).
TwoClicksSuffice == (ask.at = "refused" /\ changes = 0) => clicks < 2

\* The verdict agrees with what is planned, the catalogue staying as it is.
\* What the pre-flight refuses, retrieval could not have planned: the two read
\* the same scope "so the two can never disagree about what was considered".
\* What it accepts, the worker finds a stop a day for, through row and caps.
VerdictIsRight ==
    changes = ask.seen =>
        /\ ask.at = "refused" =>
              Cardinality(Candidates("place", ask.brief))
                + Cardinality(Candidates("activity", ask.brief)) < ask.brief.days
        /\ job.at \in {"retrieved", "failed"} =>
              Cardinality(job.places) + Cardinality(job.activities) >= request.days

\* Every attempt plans what was asked, whatever has moved since: load_brief
\* reads the month, the anchor's point and the radius back and derives nothing
\* ("re-running it produces the same brief", store/itineraries.py).
ReplayKeepsTheAsk ==
    job.brief # None =>
        LET b == job.brief
            a == ask.brief
        IN  /\ <<b.mode, b.district, b.radius, b.days, b.band, b.month>>
                  = <<a.mode, a.district, a.radius, a.days, a.band, a.month>>
            /\ b.tags = a.tags \cap Tags
            /\ (b.anchor = None) <=> (a.anchor = None)
            /\ b.anchor # None => /\ b.anchor.kind = a.anchor.kind
                                  /\ b.anchor.point = a.anchor.point

\* An empty retrieval is explained by a cause: the diagnosis that pipeline.py
\* asks for after it says "ok" only if the catalogue moved between the two.  It
\* says nothing at all only where the statement for the months cannot run.
EmptyIsExplained ==
    (job.at = "failed" /\ changes = job.seen) =>
        /\ job.error # "ok"
        /\ job.error = None => job.brief.tags = {}
=============================================================================
