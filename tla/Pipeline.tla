------------------------------- MODULE Pipeline -------------------------------
(***************************************************************************)
(* One run of the itinerary engine (engine/pipeline.py): retrieve, compose *)
(* with a model if there is one, validate, repair, fall back, route, fetch *)
(* the map and assemble.  What takes time is what waits for another        *)
(* server; the calls are counted, as no setting says how long one of them  *)
(* may take.  Positions, legs and clock times are abstracted.              *)
(***************************************************************************)
EXTENDS Drafts

CONSTANTS
    CandidateSets,      \* what retrieval may return
    Universe,           \* the drafts that composers may return
    MaxRepairs,         \* llm.max_repair_attempts
    Models,             \* whether a composer is configured
    None

ASSUME SettingsAssumption == MaxRepairs \in Nat /\ Models \subseteq BOOLEAN
ASSUME UniverseIsDrafts == Universe \subseteq Draft
ASSUME NoneIsNothing == None \notin {"llm", "deterministic", "declined", "rejected"}

VARIABLES
    pc,         \* the stage the run is in
    cands,      \* the candidate set
    configured, \* composer is not None
    draft,      \* the draft under judgement, or accepted
    result,     \* the ValidationResult of the last draft judged, or None
    attempt,    \* repairs asked for
    composer,   \* who the accepted draft is credited to
    reason,     \* fallback_reason
    plan,       \* the routed days
    mapped,     \* days whose geometry has been asked for
    warnings,   \* the itinerary's warnings, as <<code, day number or 0>>
    modelCalls, \* calls of composer.compose
    routerCalls \* requests to the router

vars == <<pc, cands, configured, draft, result, attempt, composer, reason, plan, mapped,
          warnings, modelCalls, routerCalls>>

Stages == {"retrieve", "warm", "compose", "validate", "greedy", "route", "geometry",
           "assemble", "done", "failed", "model_error", "router_error"}
Reasons == {"declined", "rejected", None}
Composers == {"llm", "deterministic", None}
Codes == {"no_stay_available", "arrival_day", "packed_day", "thin_day",
          "fallback_composer"}

Init ==
    /\ pc = "retrieve"
    /\ configured \in Models
    /\ cands \in CandidateSets
    /\ draft = <<>> /\ result = None /\ attempt = 0
    /\ composer = None /\ reason = None
    /\ plan = {} /\ mapped = 0 /\ warnings = {}
    /\ modelCalls = 0 /\ routerCalls = 0

AsksModel == modelCalls' = modelCalls + 1

\* The static provider asks nobody, nor is a road asked for between fewer than
\* two points.
MayAskRouter == routerCalls' \in {routerCalls, routerCalls + 1}

\* No candidates: EngineError, for good.
Retrieve ==
    /\ pc = "retrieve"
    /\ pc' = IF Stops(cands) = {} THEN "failed" ELSE "warm"
    /\ UNCHANGED <<cands, configured, draft, result, attempt, composer, reason, plan,
                   mapped, warnings, modelCalls, routerCalls>>

\* The slug of the request is no region's: EngineError too.
DistrictUnknown ==
    /\ pc = "retrieve" /\ Stops(cands) # {}
    /\ pc' = "failed"
    /\ UNCHANGED <<cands, configured, draft, result, attempt, composer, reason, plan,
                   mapped, warnings, modelCalls, routerCalls>>

\* At most one request, for the whole distance matrix; its failure is only logged.
Warm ==
    /\ pc = "warm"
    /\ pc' = IF configured THEN "compose" ELSE "greedy"
    /\ MayAskRouter
    /\ UNCHANGED <<cands, configured, draft, result, attempt, composer, reason, plan,
                   mapped, warnings, modelCalls>>

\* warm() and geometry() trip over a body that is not an object.
WarmRaises ==
    /\ pc = "warm"
    /\ pc' = "router_error"
    /\ routerCalls' = routerCalls + 1
    /\ UNCHANGED <<cands, configured, draft, result, attempt, composer, reason, plan,
                   mapped, warnings, modelCalls>>

(***************************************************************************)
(* Stages 2 and 3                                                          *)
(***************************************************************************)
\* Mutant of Validated: a later draft keeps the advice given of an earlier one.
ValidatedKeepingAdvice(d) ==
    [Judgement(d, cands) EXCEPT !.advisory = IF result = None THEN @ ELSE result.advisory]

\* A draft is judged where it is received, without an await in between.
Validated(d) == Judgement(d, cands)

ComposeAnswers ==
    /\ pc = "compose"
    /\ \E d \in Universe : draft' = d /\ result' = Validated(d)
    /\ pc' = "validate"
    /\ AsksModel
    /\ UNCHANGED <<cands, configured, attempt, composer, reason, plan, mapped,
                   warnings, routerCalls>>

\* Mutant of ReasonOf: the reason of a refused repair is lost.
ReasonOfFirst(repairs) == IF repairs = 0 THEN "declined" ELSE None

\* The first call declines: declined.  A repair declines: the draft was rejected.
ReasonOf(repairs) == IF repairs = 0 THEN "declined" ELSE "rejected"

ComposeDeclines ==
    /\ pc = "compose"
    /\ reason' = ReasonOf(attempt)
    /\ pc' = "greedy"
    /\ AsksModel
    /\ UNCHANGED <<cands, configured, draft, result, attempt, composer, plan, mapped,
                   warnings, routerCalls>>

\* An adapter trips over the shape of a response (an array, a message that is a
\* string): nothing catches that below the worker.
ComposeRaises ==
    /\ pc = "compose"
    /\ pc' = "model_error"
    /\ AsksModel
    /\ UNCHANGED <<cands, configured, draft, result, attempt, composer, reason, plan,
                   mapped, warnings, routerCalls>>

\* Mutant of MayRepair: one repair too many.
MayRepairOnceMore == attempt <= MaxRepairs

MayRepair == attempt < MaxRepairs

Accept ==
    /\ pc = "validate" /\ result.fatal = {}
    /\ composer' = "llm"
    /\ pc' = "route"
    /\ UNCHANGED <<cands, configured, draft, result, attempt, reason, plan, mapped,
                   warnings, modelCalls, routerCalls>>

\* Of a rejected draft only the violations are quoted to the model.
Repair ==
    /\ pc = "validate" /\ result.fatal # {} /\ MayRepair
    /\ attempt' = attempt + 1
    /\ draft' = <<>>
    /\ pc' = "compose"
    /\ UNCHANGED <<cands, configured, result, composer, reason, plan, mapped, warnings,
                   modelCalls, routerCalls>>

Reject ==
    /\ pc = "validate" /\ result.fatal # {} /\ ~MayRepair
    /\ reason' = "rejected"
    /\ draft' = <<>>
    /\ pc' = "greedy"
    /\ UNCHANGED <<cands, configured, result, attempt, composer, plan, mapped,
                   warnings, modelCalls, routerCalls>>

FallBack ==
    /\ pc = "greedy"
    /\ \E d \in Universe :
          /\ Deterministic(d, cands)
          /\ draft' = d /\ result' = Validated(d)
          /\ IF Validated(d).fatal = {}
             THEN pc' = "route" /\ composer' = "deterministic"
             ELSE pc' = "failed" /\ composer' = composer
    /\ UNCHANGED <<cands, configured, attempt, reason, plan, mapped, warnings,
                   modelCalls, routerCalls>>

(***************************************************************************)
(* Stages 4 and 5                                                          *)
(***************************************************************************)
\* The items that by_ref knows, in their order.
LookedUp(items) ==
    LET upTo[k \in 0 .. Len(items)] ==
          IF k = 0 THEN <<>>
          ELSE IF Known(cands, items[k]) THEN Append(upTo[k - 1], items[k])
          ELSE upTo[k - 1]
    IN  upTo[Len(items)]

\* route() looks every ref up and leaves out what it does not find; that it puts
\* a day's stops in the order they are driven is abstracted with their positions.
RoutedDay(d) ==
    [number |-> d.number,
     stay |-> IF Known(cands, d.stay) THEN d.stay ELSE NoRef,
     items |-> LookedUp(d.items)]

Route ==
    /\ pc = "route"
    /\ plan' = {RoutedDay(draft[i]) : i \in 1..Len(draft)}
    /\ pc' = "geometry"
    /\ UNCHANGED <<cands, configured, draft, result, attempt, composer, reason, mapped,
                   warnings, modelCalls, routerCalls>>

\* At most one request a day, one after the other; its failure means no map.
Geometry ==
    /\ pc = "geometry" /\ mapped < Len(draft)
    /\ mapped' = mapped + 1
    /\ MayAskRouter
    /\ UNCHANGED <<pc, cands, configured, draft, result, attempt, composer, reason,
                   plan, warnings, modelCalls>>

GeometryRaises ==
    /\ pc = "geometry" /\ mapped < Len(draft)
    /\ mapped' = mapped + 1
    /\ pc' = "router_error"
    /\ routerCalls' = routerCalls + 1
    /\ UNCHANGED <<cands, configured, draft, result, attempt, composer, reason, plan,
                   warnings, modelCalls>>

GeometryDone ==
    /\ pc = "geometry" /\ mapped >= Len(draft)
    /\ pc' = "assemble"
    /\ UNCHANGED <<cands, configured, draft, result, attempt, composer, reason, plan,
                   mapped, warnings, modelCalls, routerCalls>>

\* advisory_codes
CodeOf(advisory) ==
    CASE advisory = "no_stay" -> "no_stay_available"
      [] advisory = "empty_day" -> "arrival_day"
      [] advisory = "over_time_budget" -> "packed_day"
      [] OTHER -> "thin_day"

Assemble ==
    /\ pc = "assemble"
    /\ warnings' = {<<CodeOf(v[1]), v[2]>> : v \in result.advisory}
                   \cup {w \in {<<"fallback_composer", 0>>} : composer = "deterministic"}
    /\ pc' = "done"
    /\ UNCHANGED <<cands, configured, draft, result, attempt, composer, reason, plan,
                   mapped, modelCalls, routerCalls>>

Next ==
    \/ Retrieve \/ DistrictUnknown \/ Warm \/ WarmRaises
    \/ ComposeAnswers \/ ComposeDeclines \/ ComposeRaises
    \/ Accept \/ Repair \/ Reject \/ FallBack
    \/ Route \/ Geometry \/ GeometryRaises \/ GeometryDone \/ Assemble

Spec == Init /\ [][Next]_vars

----------------------------------------------------------------------------
(* Properties *)

TypeOK ==
    /\ pc \in Stages
    /\ cands \in CandidateSets
    /\ configured \in BOOLEAN
    /\ draft \in Draft
    /\ result \in {None} \cup ValidationResult
    /\ attempt \in Nat
    /\ composer \in Composers /\ reason \in Reasons
    /\ mapped \in 0..Len(draft)
    /\ warnings \subseteq Codes \X Nat
    /\ modelCalls \in Nat /\ routerCalls \in Nat

\* What the traveller gets, whoever composed it, breaks none of validate.py's fatal
\* rules: the days asked for, each once, each with a stop or a bed, stops that are
\* stops and beds that are stays of the candidate set, and nothing visited twice
\* that may not be.  Nothing fatal is said of beds that are missing or come again
\* and of overfull days; WarningsSpeakOfThePlan says what is warned about.
PlanIsSound ==
    pc = "done" =>
        /\ {d.number : d \in plan} = 1..Days
        /\ \A d, e \in plan : d.number = e.number => d = e
        /\ \A d \in plan :
              /\ d.stay \in Stays(cands) \cup {NoRef}
              /\ \A k \in 1..Len(d.items) : d.items[k] \in Stops(cands)
              /\ d.items # <<>> \/ d.stay # NoRef
        /\ \A d, e \in plan : \A k \in 1..Len(d.items), l \in 1..Len(e.items) :
              d.items[k] = e.items[l] /\ <<d, k>> # <<e, l>> =>
                  cands[d.items[k]].repeatable

\* Routing, which skips what it cannot look up, skips nothing of an accepted
\* draft: no stop or bed that was judged is missing from the plan that is shown.
NothingIsDropped ==
    pc = "done" => plan = {draft[i] : i \in 1..Len(draft)}

\* The warnings, carried as a validation result from the draft they were found in
\* over repairs, fallback and routing to assembly, are those of the plan shown: a
\* day is said to lack a bed, to be all driving or to be overfull exactly if that
\* day of the plan is so, and no warning speaks of another day.
WarningsSpeakOfThePlan ==
    pc = "done" =>
        /\ \A d \in plan :
              /\ <<"no_stay_available", d.number>> \in warnings <=> d.stay = NoRef
              /\ <<"arrival_day", d.number>> \in warnings <=> d.items = <<>>
              /\ <<"packed_day", d.number>> \in warnings <=> MinutesOf(d, cands) > DayMinutes
        /\ \A w \in warnings : w[2] \in 1..Days \/ w = <<"fallback_composer", 0>>

\* Falling back shows: in the warnings whenever the fallback composed the trip,
\* and in the reason when a model was asked (architecture.md:271, "visible in the data").
FallbackIsVisible ==
    pc = "done" =>
        /\ composer = "deterministic" <=> <<"fallback_composer", 0>> \in warnings
        /\ configured => (composer = "deterministic" <=> reason # None)

\* However models answer and routers fail, a run asks a model no oftener than once
\* and once for each repair, and the router no oftener than once and once for each
\* day of the trip, however many days a model may have drafted.  How long a call
\* takes is nobody's promise: a worker's lock has to outlast that many of them.
CallsAreBounded ==
    /\ modelCalls <= 1 + MaxRepairs
    /\ routerCalls <= 1 + Days
=============================================================================
