---------------------------- MODULE Pipeline_proofs ----------------------------
(***************************************************************************)
(* For every candidate set, every composer and all settings: a run of the  *)
(* engine makes no more calls than CallsAreBounded; a fallback is always   *)
(* visible; the plan shown is the accepted draft, whole and sound; and its *)
(* warnings are its own.  The invariants count the calls stage by stage    *)
(* and follow the draft, and what was found in it, from its acceptance to  *)
(* the plan.                                                               *)
(***************************************************************************)
EXTENDS Pipeline, FiniteSetTheorems, WellFoundedInduction, TLAPS

\* The calls so far, by the stage the run is in.
Counted ==
    /\ attempt \in 0..MaxRepairs
    /\ pc \in {"retrieve", "warm"} => modelCalls = 0 /\ attempt = 0
    /\ pc = "compose" => modelCalls <= attempt
    /\ modelCalls <= attempt + 1
    /\ pc \in {"retrieve", "warm"} => routerCalls = 0
    /\ routerCalls <= 1 + mapped

\* An accepted draft has the days asked for; geometry is asked for after that.
Accepted ==
    /\ pc \in {"route", "geometry", "assemble", "done"} => Len(draft) = Days
    /\ pc \notin {"geometry", "assemble", "done", "router_error"} => mapped = 0
    /\ mapped <= Days

\* Who is credited, and why the model is not.
Credited ==
    /\ pc \in {"retrieve", "warm", "compose", "validate"} => reason = None
    /\ pc = "greedy" => (configured => reason # None)
    /\ pc \in {"retrieve", "warm", "compose", "validate", "greedy"} => composer = None
    /\ pc \in {"route", "geometry", "assemble", "done"} =>
          /\ composer \in {"llm", "deterministic"}
          /\ configured => (composer = "deterministic" <=> reason # None)
    /\ pc = "done" => (composer = "deterministic" <=> <<"fallback_composer", 0>> \in warnings)

\* What is carried as the validation result is the judgement of this very draft.
Judged ==
    pc \in {"validate", "route", "geometry", "assemble", "done"} =>
        \A d, c : draft = d /\ cands = c => result = Judgement(d, c)

PipelineInv == TypeOK /\ Counted /\ Accepted /\ Credited /\ Judged

-----------------------------------------------------------------------------
\* An advisory violation is one of three and is that of some day.
LEMMA AdviceIs ==
    ASSUME NEW d, NEW c, NEW v \in Advisory(d, c)
    PROVE  /\ v = <<v[1], v[2]>>
           /\ v[1] \in {"no_stay", "empty_day", "over_time_budget"}
           /\ v[2] \in {d[i].number : i \in 1..Len(d)}
BY DEF Advisory

\* What is found in a draft has the type of a result.
LEMMA JudgementType ==
    ASSUME NEW d \in Draft, NEW c
    PROVE  Judgement(d, c) \in ValidationResult
<1>1. ASSUME NEW i \in 1..Len(d) PROVE d[i].number \in Nat
  <2>1. d[i] \in Day
    BY DEF Draft
  <2> QED BY <2>1 DEF Day
<1>2. Advisory(d, c) \subseteq ViolationCode \X Nat
  BY <1>1, AdviceIs DEF ViolationCode
<1>3. Fatal(d, c) \subseteq ViolationCode
  BY DEF Fatal, ViolationCode
<1> QED
  BY <1>2, <1>3 DEF Judgement, ValidationResult

LEMMA InitInv == Init => PipelineInv
<1> SUFFICES ASSUME Init PROVE PipelineInv
  OBVIOUS
<1>1. TypeOK
  BY SettingsAssumption DEF Init, TypeOK, Stages, Composers, Reasons, Codes, Draft
<1>2. Counted /\ Accepted /\ Credited /\ Judged
  BY SettingsAssumption, DaysPositive DEF Init, Counted, Accepted, Credited, Judged
<1> QED
  BY <1>1, <1>2 DEF PipelineInv

\* Each step keeps the types.
LEMMA TypeStep ==
    ASSUME PipelineInv, [Next]_vars
    PROVE  TypeOK'
<1> USE DEF PipelineInv
<1>1. CASE Retrieve \/ DistrictUnknown
  BY <1>1 DEF Retrieve, DistrictUnknown, TypeOK, Stages
<1>2. CASE Warm
  BY <1>2 DEF Warm, MayAskRouter, TypeOK, Stages
<1>3. CASE ComposeAnswers
  <2>1. PICK d \in Universe : draft' = d /\ result' = Judgement(d, cands)
    BY <1>3 DEF ComposeAnswers, Validated
  <2>2. draft' \in Draft
        /\ result' \in ValidationResult
    BY <2>1, UniverseIsDrafts, JudgementType
  <2> QED
    BY <1>3, <2>2 DEF ComposeAnswers, AsksModel, TypeOK, Stages, Accepted, Draft
<1>4. CASE ComposeDeclines
  BY <1>4 DEF ComposeDeclines, AsksModel, TypeOK, Stages, Reasons, ReasonOf
<1>5. CASE ComposeRaises
  BY <1>5 DEF ComposeRaises, AsksModel, TypeOK, Stages
<1>6. CASE Accept
  BY <1>6 DEF Accept, TypeOK, Stages, Composers
<1>7. CASE Repair
  BY <1>7 DEF Repair, TypeOK, Stages, Draft, Accepted
<1>8. CASE Reject
  BY <1>8 DEF Reject, TypeOK, Stages, Draft, Reasons, Accepted
<1>9. CASE FallBack
  <2>1. PICK d \in Universe : draft' = d /\ result' = Judgement(d, cands)
    BY <1>9 DEF FallBack, Validated
  <2>2. draft' \in Draft
        /\ result' \in ValidationResult
    BY <2>1, UniverseIsDrafts, JudgementType
  <2>3. pc' \in Stages /\ composer' \in Composers
    BY <1>9 DEF FallBack, TypeOK, Stages, Composers
  <2> QED
    BY <1>9, <2>2, <2>3 DEF FallBack, TypeOK, Accepted, Draft
<1>10. CASE Route
  BY <1>10 DEF Route, TypeOK, Stages
<1>11. CASE Geometry
  BY <1>11, DaysPositive DEF Geometry, MayAskRouter, TypeOK, Stages, Draft, Accepted
<1>12. CASE GeometryDone
  BY <1>12 DEF GeometryDone, TypeOK, Stages
<1>13. CASE Assemble
  <2>1. result = Judgement(draft, cands) /\ draft \in Draft
    BY <1>13 DEF Assemble, Judged, TypeOK
  <2>a. \A v \in result.advisory : v[2] \in Nat
    BY <2>1, JudgementType DEF ValidationResult
  <2>2. \A code : CodeOf(code) \in Codes
    BY DEF CodeOf, Codes
  <2>3. warnings' \subseteq Codes \X Nat
    BY <1>13, <2>a, <2>2 DEF Assemble, Codes
  <2> QED
    BY <1>13, <2>3 DEF Assemble, TypeOK, Stages
<1>14. CASE WarmRaises
  BY <1>14 DEF WarmRaises, TypeOK, Stages
<1>15. CASE GeometryRaises
  BY <1>15, DaysPositive DEF GeometryRaises, TypeOK, Stages, Draft, Accepted
<1>16. CASE UNCHANGED vars
  BY <1>16 DEF vars, TypeOK
<1> QED
  BY <1>1, <1>2, <1>3, <1>4, <1>5, <1>6, <1>7, <1>8, <1>9, <1>10, <1>11, <1>12, <1>13,
     <1>14, <1>15, <1>16 DEF Next

\* The result in hand is that of the draft in hand: both change together.
LEMMA JudgedStep ==
    ASSUME PipelineInv, [Next]_vars
    PROVE  Judged'
<1> USE DEF PipelineInv, Judged
<1>1. CASE \/ Retrieve \/ DistrictUnknown \/ Warm \/ WarmRaises
            \/ ComposeDeclines \/ ComposeRaises \/ Repair \/ Reject
  BY <1>1 DEF Retrieve, DistrictUnknown, Warm, WarmRaises, ComposeDeclines, ComposeRaises,
              Repair, Reject
<1>2. CASE ComposeAnswers \/ FallBack
  <2>1. PICK d \in Universe : draft' = d /\ result' = Judgement(d, cands)
    BY <1>2 DEF ComposeAnswers, FallBack, Validated
  <2>2. cands' = cands
    BY <1>2 DEF ComposeAnswers, FallBack
  <2> QED
    BY <2>1, <2>2
<1>3. CASE Accept \/ Route \/ Geometry \/ GeometryRaises \/ GeometryDone \/ Assemble
  BY <1>3 DEF Accept, Route, Geometry, GeometryRaises, GeometryDone, Assemble
<1>4. CASE UNCHANGED vars
  BY <1>4 DEF vars
<1> QED
  BY <1>1, <1>2, <1>3, <1>4 DEF Next

\* What is found acceptable is a draft without a fatal violation.
LEMMA AcceptedIsOk ==
    ASSUME PipelineInv, pc = "validate", result.fatal = {}
    PROVE  Ok(draft, cands)
BY DEF PipelineInv, Judged, Judgement, Ok

LEMMA ValidatedIsOk ==
    ASSUME NEW d
    PROVE  Validated(d).fatal = {} <=> Ok(d, cands)
BY DEF Validated, Judgement, Ok

\* Accepting fixes the draft at the days asked for.
LEMMA AcceptedStep ==
    ASSUME PipelineInv, [Next]_vars
    PROVE  Accepted'
<1> USE DEF PipelineInv, Accepted
<1>0. ASSUME NEW d, Ok(d, cands) PROVE Len(d) = Days
  BY <1>0 DEF Ok, Fatal, DayCountMismatch
<1>1. CASE \/ Retrieve \/ DistrictUnknown \/ Warm \/ WarmRaises
            \/ ComposeAnswers \/ ComposeDeclines \/ ComposeRaises
  BY <1>1 DEF Retrieve, DistrictUnknown, Warm, WarmRaises, ComposeAnswers, ComposeDeclines,
              ComposeRaises
<1>2. CASE Accept
  BY <1>0, <1>2, AcceptedIsOk DEF Accept
<1>3. CASE Repair \/ Reject
  BY <1>3 DEF Repair, Reject
<1>4. CASE FallBack
  <2>1. PICK d \in Universe :
            /\ draft' = d
            /\ IF Ok(d, cands)
               THEN pc' = "route" /\ composer' = "deterministic"
               ELSE pc' = "failed" /\ composer' = composer
    BY <1>4, ValidatedIsOk DEF FallBack
  <2>2. pc = "greedy" /\ mapped' = mapped
    BY <1>4 DEF FallBack
  <2> QED
    BY <1>0, <2>1, <2>2
<1>5. CASE Route \/ GeometryDone \/ Assemble
  BY <1>5 DEF Route, GeometryDone, Assemble
<1>6. CASE Geometry \/ GeometryRaises
  BY <1>6, DaysPositive DEF Geometry, GeometryRaises, TypeOK, Draft
<1>7. CASE UNCHANGED vars
  BY <1>7 DEF vars
<1> QED
  BY <1>1, <1>2, <1>3, <1>4, <1>5, <1>6, <1>7 DEF Next

LEMMA CreditedStep ==
    ASSUME PipelineInv, [Next]_vars
    PROVE  Credited'
<1> USE NoneIsNothing DEF PipelineInv, Credited
<1>1. CASE Retrieve \/ DistrictUnknown \/ Warm \/ WarmRaises \/ ComposeAnswers \/ ComposeRaises
  BY <1>1 DEF Retrieve, DistrictUnknown, Warm, WarmRaises, ComposeAnswers, ComposeRaises
<1>2. CASE ComposeDeclines
  BY <1>2 DEF ComposeDeclines, ReasonOf
<1>3. CASE Accept
  BY <1>3 DEF Accept
<1>4. CASE Repair \/ Reject
  BY <1>4 DEF Repair, Reject
<1>5. CASE FallBack
  BY <1>5 DEF FallBack
<1>6. CASE Route \/ Geometry \/ GeometryRaises \/ GeometryDone
  BY <1>6 DEF Route, Geometry, GeometryRaises, GeometryDone
<1>7. CASE Assemble
  <2>1. <<"fallback_composer", 0>> \notin {<<CodeOf(v[1]), v[2]>> : v \in result.advisory}
    BY DEF CodeOf
  <2> QED
    BY <1>7, <2>1 DEF Assemble
<1>8. CASE UNCHANGED vars
  BY <1>8 DEF vars
<1> QED
  BY <1>1, <1>2, <1>3, <1>4, <1>5, <1>6, <1>7, <1>8 DEF Next

\* Each step calls no oftener than its stage allows.
LEMMA CountedStep ==
    ASSUME PipelineInv, [Next]_vars
    PROVE  Counted'
<1> USE DEF PipelineInv, Counted
<1>0. /\ MaxRepairs \in Nat /\ attempt \in 0..MaxRepairs /\ mapped \in Nat
      /\ modelCalls \in Nat /\ routerCalls \in Nat
  BY SettingsAssumption DEF TypeOK, Draft
<1>1. CASE Retrieve \/ DistrictUnknown
  BY <1>0, <1>1 DEF Retrieve, DistrictUnknown
<1>2. CASE Warm \/ WarmRaises
  BY <1>0, <1>2 DEF Warm, WarmRaises, MayAskRouter, Accepted
<1>3. CASE ComposeAnswers \/ ComposeDeclines \/ ComposeRaises
  BY <1>0, <1>3 DEF ComposeAnswers, ComposeDeclines, ComposeRaises, AsksModel
<1>4. CASE Accept \/ Reject \/ Route \/ GeometryDone \/ Assemble
  BY <1>0, <1>4 DEF Accept, Reject, Route, GeometryDone, Assemble
<1>5. CASE Repair
  BY <1>0, <1>5 DEF Repair, MayRepair
<1>6. CASE FallBack
  BY <1>0, <1>6 DEF FallBack
<1>7. CASE Geometry \/ GeometryRaises
  BY <1>0, <1>7 DEF Geometry, GeometryRaises, MayAskRouter
<1>8. CASE UNCHANGED vars
  BY <1>8 DEF vars
<1> QED
  BY <1>1, <1>2, <1>3, <1>4, <1>5, <1>6, <1>7, <1>8 DEF Next

THEOREM PipelineSafe == Spec => []PipelineInv
<1>1. PipelineInv /\ [Next]_vars => PipelineInv'
  BY TypeStep, AcceptedStep, CreditedStep, CountedStep, JudgedStep DEF PipelineInv
<1> QED
  BY <1>1, InitInv, PTL DEF Spec

\* The state of a run stays well typed; its warnings are codes a client knows.
THEOREM PipelineTypeCorrect == Spec => []TypeOK
<1>1. PipelineInv => TypeOK
  BY DEF PipelineInv
<1> QED
  BY <1>1, PipelineSafe, PTL

\* However a model answers and routers fail, a run makes no more calls than one
\* and the repairs to a model, and one and the days to the router.
THEOREM CallBound == Spec => []CallsAreBounded
<1>1. PipelineInv => CallsAreBounded
  BY SettingsAssumption, DaysPositive
     DEF PipelineInv, TypeOK, Draft, Counted, Accepted, CallsAreBounded
<1> QED
  BY <1>1, PipelineSafe, PTL

\* A trip the fallback composed says so, and why, whenever a model was asked.
THEOREM FallbackShows == Spec => []FallbackIsVisible
<1>1. PipelineInv => FallbackIsVisible
  BY DEF PipelineInv, Credited, FallbackIsVisible
<1> QED
  BY <1>1, PipelineSafe, PTL

-----------------------------------------------------------------------------
(* What the traveller gets.                                                  *)

\* Counting up to n reaches everything.
LEMMA Counting ==
    ASSUME NEW n \in Nat, NEW P, 0 \in P, \A k \in 1..n : k - 1 \in P => k \in P
    PROVE  0..n \subseteq P
<1> DEFINE R == {ss \in Nat \X Nat : ss[1] < ss[2]}
           Missed == (0..n) \ P
<1>1. R = OpToRel(<, Nat)
  BY DEF OpToRel
<1>2. IsWellFoundedOn(R, Nat)
  BY <1>1, NatLessThanWellFounded
<1>3. SUFFICES ASSUME Missed # {} PROVE FALSE
  OBVIOUS
<1>4. Missed \subseteq Nat
  OBVIOUS
<1> HIDE DEF R, Missed
<1>5. PICK m \in Missed : \A k \in Missed : ~ (<<k, m>> \in R)
  BY <1>2, <1>3, <1>4, WFMin
<1>6. m \in 1..n /\ m - 1 \in 0..n
  BY <1>5 DEF Missed
<1>7. <<m - 1, m>> \in R
  BY <1>6 DEF R
<1>8. m - 1 \in P
  BY <1>5, <1>6, <1>7 DEF Missed
<1> QED BY <1>5, <1>6, <1>8 DEF Missed

\* Nothing is left out of items that are all known.
LEMMA AllLookedUp ==
    ASSUME NEW S, NEW items \in Seq(S), \A k \in 1..Len(items) : Known(cands, items[k])
    PROVE  LookedUp(items) = items
<1>1. PICK n \in Nat : n = Len(items)
  OBVIOUS
<1>2. PICK h : h = [k \in 0..n |-> SubSeq(items, 1, k)]
  OBVIOUS
<1>3. /\ DOMAIN h = 0..n /\ h[0] = <<>> /\ h[n] = items
      /\ \A k \in 1..n : h[k] = Append(h[k - 1], items[k])
  <2>1. h[0] = <<>> /\ h[n] = items /\ DOMAIN h = 0..n
    BY <1>1, <1>2
  <2>2. ASSUME NEW k \in 1..n
        PROVE  h[k] = Append(h[k - 1], items[k])
    <3>1. SubSeq(items, 1, k) = Append(SubSeq(items, 1, k - 1), items[k])
      BY <1>1
    <3>2. k \in 0..n /\ k - 1 \in 0..n
      OBVIOUS
    <3> QED BY <1>2, <3>1, <3>2
  <2> QED BY <2>1, <2>2
<1> DEFINE upTo == CHOOSE g : g = [k \in 0..Len(items) |->
                      IF k = 0 THEN <<>>
                      ELSE IF Known(cands, items[k]) THEN Append(g[k - 1], items[k])
                      ELSE g[k - 1]]
<1>4. h = [k \in 0..Len(items) |->
              IF k = 0 THEN <<>>
              ELSE IF Known(cands, items[k]) THEN Append(h[k - 1], items[k])
              ELSE h[k - 1]]
  <2>1. ASSUME NEW k \in 0..Len(items)
        PROVE  h[k] = IF k = 0 THEN <<>>
                      ELSE IF Known(cands, items[k]) THEN Append(h[k - 1], items[k])
                      ELSE h[k - 1]
    BY <1>1, <1>3
  <2>2. h = [k \in DOMAIN h |-> h[k]]
    BY <1>2
  <2> QED BY <1>1, <1>3, <2>1, <2>2
<1>5. upTo = [k \in 0..Len(items) |->
              IF k = 0 THEN <<>>
              ELSE IF Known(cands, items[k]) THEN Append(upTo[k - 1], items[k])
              ELSE upTo[k - 1]]
  BY <1>4
<1>6. LookedUp(items) = upTo[n]
  BY <1>1 DEF LookedUp
<1> HIDE DEF upTo
<1>7. upTo[0] = <<>>
  BY <1>1, <1>5
<1>8. ASSUME NEW k \in 1..n
      PROVE  upTo[k] = Append(upTo[k - 1], items[k])
  <2>1. k \in 0..Len(items) /\ k # 0 /\ Known(cands, items[k])
    BY <1>1
  <2> QED BY <1>5, <2>1
<1>9. PICK P : P = {k \in 0..n : upTo[k] = h[k]}
  OBVIOUS
<1>10. 0 \in P
  BY <1>3, <1>7, <1>9
<1>11. ASSUME NEW k \in 1..n, k - 1 \in P
       PROVE  k \in P
  <2>1. upTo[k - 1] = h[k - 1]
    BY <1>9, <1>11
  <2>2. upTo[k] = h[k]
    BY <1>3, <1>8, <2>1
  <2> QED BY <1>9, <2>2
<1>12. 0..n \subseteq P
  BY <1>10, <1>11, Counting
<1> QED BY <1>3, <1>6, <1>9, <1>12

\* What an accepted draft is like, rule by rule.
LEMMA AcceptedDraft ==
    ASSUME NEW d, Ok(d, cands)
    PROVE  /\ ~UnknownRef(d, cands) /\ Len(d) = Days /\ ~DuplicateDayNumber(d)
           /\ ~MissingDayNumber(d) /\ ~WrongKindForStay(d, cands)
           /\ ~WrongKindForItem(d, cands) /\ ~RepeatedPoi(d, cands) /\ ~EmptyDay(d)
BY DEF Ok, Fatal, DayCountMismatch

\* Routing leaves a day of an accepted draft as it is.
LEMMA RoutedDayIs ==
    ASSUME NEW d \in Draft, Ok(d, cands), NEW i \in 1..Len(d)
    PROVE  RoutedDay(d[i]) = d[i]
<1>1. PICK day \in Day : day = d[i]
  BY DEF Draft
<1>2. /\ day.stay # NoRef => Known(cands, day.stay)
      /\ \A k \in 1..Len(day.items) : Known(cands, day.items[k])
  BY <1>1, AcceptedDraft DEF UnknownRef
<1>3. day.items \in Seq(Refs) /\ day = [number |-> day.number, stay |-> day.stay, items |-> day.items]
  BY DEF Day
<1>4. LookedUp(day.items) = day.items
  BY <1>2, <1>3, AllLookedUp
<1>5. RoutedDay(day) = [number |-> day.number, stay |-> day.stay, items |-> day.items]
  BY <1>2, <1>4 DEF RoutedDay
<1> QED BY <1>1, <1>3, <1>5

\* What is routed and shown is a draft that was accepted, and all of it.
Planned ==
    /\ pc \in {"route", "geometry", "assemble", "done"} => Ok(draft, cands)
    /\ pc \in {"geometry", "assemble", "done"} => plan = {draft[i] : i \in 1..Len(draft)}

LEMMA PlannedStep ==
    ASSUME PipelineInv, Planned, [Next]_vars
    PROVE  Planned'
<1>1. CASE \/ Retrieve \/ DistrictUnknown \/ Warm \/ WarmRaises
            \/ ComposeAnswers \/ ComposeDeclines \/ ComposeRaises
  BY <1>1 DEF Retrieve, DistrictUnknown, Warm, WarmRaises, ComposeAnswers, ComposeDeclines,
              ComposeRaises, Planned
<1>2. CASE Repair \/ Reject
  BY <1>2 DEF Repair, Reject, Planned
<1>s. ASSUME draft' = draft, cands' = cands
      PROVE  Ok(draft, cands)' <=> Ok(draft, cands)
  BY <1>s DEF Ok, Fatal, UnknownRef, DayCountMismatch, DuplicateDayNumber, MissingDayNumber,
              WrongKindForStay, WrongKindForItem, RepeatedPoi, EmptyDay, OnceOnly, Known
<1>3. CASE Accept
  <2>1. pc' = "route" /\ draft' = draft /\ cands' = cands /\ Ok(draft, cands)
    BY <1>3, AcceptedIsOk DEF Accept
  <2> QED BY <1>s, <2>1 DEF Planned
<1>4. CASE FallBack
  <2>1. PICK d \in Universe :
            /\ draft' = d
            /\ IF Ok(d, cands)
               THEN pc' = "route" /\ composer' = "deterministic"
               ELSE pc' = "failed" /\ composer' = composer
    BY <1>4, ValidatedIsOk DEF FallBack
  <2>2. cands' = cands
    BY <1>4 DEF FallBack
  <2>3. CASE Ok(d, cands)
    <3>1. pc' = "route" /\ draft' = d
      BY <2>1, <2>3
    <3>2. Ok(draft, cands)' <=> Ok(d, cands)
      BY <2>2, <3>1 DEF Ok, Fatal, UnknownRef, DayCountMismatch, DuplicateDayNumber,
                MissingDayNumber, WrongKindForStay, WrongKindForItem, RepeatedPoi, EmptyDay,
                OnceOnly, Known
    <3> QED BY <2>3, <3>1, <3>2 DEF Planned
  <2>4. CASE ~Ok(d, cands)
    BY <2>1, <2>4 DEF Planned
  <2> QED BY <2>3, <2>4
<1>6. CASE Route
  <2>1. /\ pc = "route" /\ pc' = "geometry" /\ draft' = draft /\ cands' = cands
        /\ plan' = {RoutedDay(draft[i]) : i \in 1..Len(draft)}
    BY <1>6 DEF Route
  <2>2. Ok(draft, cands) /\ draft \in Draft
    BY <2>1 DEF Planned, PipelineInv, TypeOK
  <2>3. \A i \in 1..Len(draft) : RoutedDay(draft[i]) = draft[i]
    BY <2>2, RoutedDayIs
  <2>4. plan' = {draft[i] : i \in 1..Len(draft)}
    BY <2>1, <2>3
  <2> QED BY <1>s, <2>1, <2>2, <2>4 DEF Planned
<1>7. CASE Geometry \/ GeometryRaises \/ GeometryDone \/ Assemble
  <2>1. /\ draft' = draft /\ cands' = cands /\ plan' = plan
        /\ pc' \in {"geometry", "assemble", "done"} => pc \in {"geometry", "assemble"}
        /\ pc' # "route"
    BY <1>7 DEF Geometry, GeometryRaises, GeometryDone, Assemble
  <2> QED BY <1>s, <2>1 DEF Planned
<1>8. CASE UNCHANGED vars
  <2>1. pc' = pc /\ draft' = draft /\ cands' = cands /\ plan' = plan
    BY <1>8 DEF vars
  <2> QED BY <1>s, <2>1 DEF Planned
<1> QED
  BY <1>1, <1>2, <1>3, <1>4, <1>6, <1>7, <1>8 DEF Next

LEMMA PlannedAlways == Spec => []Planned
<1>1. Init => Planned
  BY DEF Init, Planned
<1> QED
  BY <1>1, PlannedStep, PipelineSafe, PTL DEF Spec

\* As many different numbers as days, all days among them: no others.
LEMMA NumbersAreDays ==
    ASSUME NEW d \in Draft, Ok(d, cands)
    PROVE  {d[i].number : i \in 1..Len(d)} = 1..Days
<1> DEFINE S == {d[i].number : i \in 1..Len(d)}
<1>1. Len(d) = Days /\ Days \in Nat
  BY AcceptedDraft, DaysPositive
<1>2. 1..Days \subseteq S
  <2>1. ASSUME NEW n \in 1..Days PROVE \E i \in 1..Len(d) : d[i].number = n
    BY AcceptedDraft DEF MissingDayNumber
  <2> QED BY <2>1
<1>3. IsFiniteSet(1..Days) /\ Cardinality(1..Days) = Days
  BY <1>1, FS_Interval
<1>4. IsFiniteSet(S) /\ Cardinality(S) <= Days
  <2> DEFINE f == [i \in 1..Days |-> d[i].number]
  <2>1. f \in Surjection(1..Days, S)
    BY <1>1 DEF Surjection
  <2> HIDE DEF f, S
  <2> QED BY <1>3, <2>1, FS_Surjection
<1> HIDE DEF S
<1>5. Cardinality(1..Days) <= Cardinality(S) /\ Cardinality(S) \in Nat
  BY <1>2, <1>4, FS_Subset, FS_CardinalityType
<1>6. Cardinality(S) = Cardinality(1..Days)
  BY <1>1, <1>3, <1>4, <1>5
<1>7. 1..Days = S
  BY <1>2, <1>4, <1>6, FS_Subset
<1> QED BY <1>7 DEF S

\* Routing, which skips what it cannot look up, skips nothing of what validation
\* let through, whoever composed it.
THEOREM RoutingDropsNothing == Spec => []NothingIsDropped
<1>1. Planned => NothingIsDropped
  BY DEF Planned, NothingIsDropped
<1> QED
  BY <1>1, PlannedAlways, PTL

\* What the traveller gets breaks no fatal rule of validate.py: the days asked for,
\* each once, known stops and beds of the right kind, nothing twice that may not
\* come again, and no day with neither a stop nor a bed.
THEOREM SoundPlans == Spec => []PlanIsSound
<1>1. PipelineInv /\ Planned => PlanIsSound
  <2> SUFFICES ASSUME PipelineInv, Planned, pc = "done"
               PROVE  /\ {d.number : d \in plan} = 1..Days
                      /\ \A d, e \in plan : d.number = e.number => d = e
                      /\ \A d \in plan :
                            /\ d.stay \in Stays(cands) \cup {NoRef}
                            /\ \A k \in 1..Len(d.items) : d.items[k] \in Stops(cands)
                            /\ d.items # <<>> \/ d.stay # NoRef
                      /\ \A d, e \in plan : \A k \in 1..Len(d.items), l \in 1..Len(e.items) :
                            d.items[k] = e.items[l] /\ <<d, k>> # <<e, l>> =>
                                cands[d.items[k]].repeatable
    BY DEF PlanIsSound
  <2>1. plan = {draft[i] : i \in 1..Len(draft)} /\ Ok(draft, cands) /\ draft \in Draft
    BY DEF Planned, PipelineInv, TypeOK
  <2>2. {d.number : d \in plan} = 1..Days
    BY <2>1, NumbersAreDays
  <2>3. \A d, e \in plan : d.number = e.number => d = e
    BY <2>1, AcceptedDraft DEF DuplicateDayNumber
  <2>4. ASSUME NEW d \in plan
        PROVE  /\ d.stay \in Stays(cands) \cup {NoRef}
               /\ \A k \in 1..Len(d.items) : d.items[k] \in Stops(cands)
               /\ d.items # <<>> \/ d.stay # NoRef
    <3>1. PICK i \in 1..Len(draft) : d = draft[i]
      BY <2>1
    <3>2. d.stay \in Stays(cands) \cup {NoRef}
      BY <2>1, <3>1, AcceptedDraft DEF UnknownRef, WrongKindForStay, Stays, Known
    <3>3. \A k \in 1..Len(d.items) : d.items[k] \in Stops(cands)
      BY <2>1, <3>1, AcceptedDraft DEF UnknownRef, WrongKindForItem, Stops, Stays, Known
    <3>4. d.items # <<>> \/ d.stay # NoRef
      BY <2>1, <3>1, AcceptedDraft DEF EmptyDay
    <3> QED BY <3>2, <3>3, <3>4
  <2>5. ASSUME NEW d \in plan, NEW e \in plan, NEW k \in 1..Len(d.items), NEW l \in 1..Len(e.items),
               d.items[k] = e.items[l], <<d, k>> # <<e, l>>
        PROVE  cands[d.items[k]].repeatable
    <3>1. PICK i \in 1..Len(draft) : d = draft[i]
      BY <2>1
    <3>2. PICK j \in 1..Len(draft) : e = draft[j]
      BY <2>1
    <3>3. <<i, k>> # <<j, l>>
      BY <2>5, <3>1, <3>2
    <3>4. ~OnceOnly(cands, d.items[k])
      BY <2>1, <2>5, <3>1, <3>2, <3>3, AcceptedDraft DEF RepeatedPoi
    <3>5. d.items[k] \in Stops(cands)
      BY <2>4
    <3> QED BY <3>4, <3>5 DEF OnceOnly, Stops, Stays, Known
  <2> QED BY <2>2, <2>3, <2>4, <2>5
<1> QED
  BY <1>1, PipelineSafe, PlannedAlways, PTL

-----------------------------------------------------------------------------
(* What is said of the plan.                                                 *)

\* The warnings of an assembled trip are its result's, under the client's codes.
Said ==
    pc = "done" =>
        warnings = {<<CodeOf(v[1]), v[2]>> : v \in result.advisory}
                   \cup {w \in {<<"fallback_composer", 0>>} : composer = "deterministic"}

LEMMA SaidStep ==
    ASSUME Said, [Next]_vars
    PROVE  Said'
<1> USE DEF Said
<1>1. CASE Assemble
  BY <1>1 DEF Assemble
<1>2. CASE UNCHANGED vars
  BY <1>2 DEF vars
<1>3. CASE Next /\ ~Assemble
  <2>1. pc' # "done"
    BY <1>3 DEF Next, Retrieve, DistrictUnknown, Warm, WarmRaises, ComposeAnswers,
           ComposeDeclines, ComposeRaises, Accept, Repair, Reject, FallBack, Route, Geometry,
           GeometryRaises, GeometryDone
  <2> QED BY <2>1
<1> QED
  BY <1>1, <1>2, <1>3

LEMMA SaidAlways == Spec => []Said
<1>1. Init => Said
  BY DEF Init, Said
<1> QED
  BY <1>1, SaidStep, PTL DEF Spec

\* The advice given of a sound draft speaks of each of its days as it is, for no
\* two of them have the same number.
LEMMA AdviceByDay ==
    ASSUME NEW d \in Draft, NEW c, Ok(d, c), NEW i \in 1..Len(d)
    PROVE  /\ <<"no_stay", d[i].number>> \in Advisory(d, c) <=> d[i].stay = NoRef
           /\ <<"empty_day", d[i].number>> \in Advisory(d, c) <=> d[i].items = <<>>
           /\ <<"over_time_budget", d[i].number>> \in Advisory(d, c)
                 <=> MinutesOf(d[i], c) > DayMinutes
<1>1. \A j \in 1..Len(d) : d[j].number = d[i].number => j = i
  BY DEF Ok, Fatal, DuplicateDayNumber
<1>2. d[i].items = <<>> => d[i].stay # NoRef
  BY DEF Ok, Fatal, EmptyDay
<1> DEFINE Bare == {j \in 1..Len(d) : d[j].stay = NoRef}
           Driven == {j \in 1..Len(d) : d[j].items = <<>> /\ d[j].stay # NoRef}
           Packed == {j \in 1..Len(d) : MinutesOf(d[j], c) > DayMinutes}
<1>3. Advisory(d, c) = {<<"no_stay", d[j].number>> : j \in Bare}
                       \cup {<<"empty_day", d[j].number>> : j \in Driven}
                       \cup {<<"over_time_budget", d[j].number>> : j \in Packed}
  BY DEF Advisory
<1>4. /\ i \in Bare <=> d[i].stay = NoRef
      /\ i \in Driven <=> d[i].items = <<>>
      /\ i \in Packed <=> MinutesOf(d[i], c) > DayMinutes
      /\ Bare \subseteq 1..Len(d) /\ Driven \subseteq 1..Len(d) /\ Packed \subseteq 1..Len(d)
  BY <1>2
<1> HIDE DEF Bare, Driven, Packed
<1>5. <<"no_stay", d[i].number>> \in Advisory(d, c) <=> i \in Bare
  BY <1>1, <1>3, <1>4
<1>6. <<"empty_day", d[i].number>> \in Advisory(d, c) <=> i \in Driven
  BY <1>1, <1>3, <1>4
<1>7. <<"over_time_budget", d[i].number>> \in Advisory(d, c) <=> i \in Packed
  BY <1>1, <1>3, <1>4
<1> QED
  BY <1>4, <1>5, <1>6, <1>7

\* Who reads the warnings of a trip reads about that trip: missing beds, days of
\* driving and overfull days are exactly those of the plan, whichever draft, of a
\* model, of a repair or of the fallback, was accepted in the end.
THEOREM WarningsAreOfThePlan == Spec => []WarningsSpeakOfThePlan
<1>1. PipelineInv /\ Planned /\ Said => WarningsSpeakOfThePlan
  <2> SUFFICES ASSUME PipelineInv, Planned, Said, pc = "done"
               PROVE  /\ \A d \in plan :
                            /\ <<"no_stay_available", d.number>> \in warnings <=> d.stay = NoRef
                            /\ <<"arrival_day", d.number>> \in warnings <=> d.items = <<>>
                            /\ <<"packed_day", d.number>> \in warnings
                                  <=> MinutesOf(d, cands) > DayMinutes
                      /\ \A w \in warnings :
                            w[2] \in 1..Days \/ w = <<"fallback_composer", 0>>
    BY DEF WarningsSpeakOfThePlan
  <2>1. /\ plan = {draft[i] : i \in 1..Len(draft)} /\ Ok(draft, cands) /\ draft \in Draft
        /\ result = Judgement(draft, cands)
    BY DEF Planned, PipelineInv, TypeOK, Judged
  <2>2. PICK adv : adv = Advisory(draft, cands)
    OBVIOUS
  <2>3. warnings = {<<CodeOf(v[1]), v[2]>> : v \in adv}
                   \cup {w \in {<<"fallback_composer", 0>>} : composer = "deterministic"}
    BY <2>1, <2>2 DEF Said, Judgement
  <2>4. \A v \in adv : /\ v = <<v[1], v[2]>>
                        /\ v[1] \in {"no_stay", "empty_day", "over_time_budget"}
                        /\ v[2] \in {draft[i].number : i \in 1..Len(draft)}
    BY <2>2, AdviceIs
  <2>5. \A n : /\ <<"no_stay_available", n>> \in warnings <=> <<"no_stay", n>> \in adv
               /\ <<"arrival_day", n>> \in warnings <=> <<"empty_day", n>> \in adv
               /\ <<"packed_day", n>> \in warnings <=> <<"over_time_budget", n>> \in adv
    BY <2>3, <2>4 DEF CodeOf
  <2>6. ASSUME NEW d \in plan
        PROVE  /\ <<"no_stay_available", d.number>> \in warnings <=> d.stay = NoRef
               /\ <<"arrival_day", d.number>> \in warnings <=> d.items = <<>>
               /\ <<"packed_day", d.number>> \in warnings <=> MinutesOf(d, cands) > DayMinutes
    <3>1. PICK i \in 1..Len(draft) : d = draft[i]
      BY <2>1
    <3> QED
      BY <2>1, <2>2, <2>5, <3>1, AdviceByDay
  <2>7. ASSUME NEW w \in warnings
        PROVE  w[2] \in 1..Days \/ w = <<"fallback_composer", 0>>
    <3>1. CASE w \in {<<"fallback_composer", 0>>}
      BY <3>1
    <3>2. CASE w \in {<<CodeOf(v[1]), v[2]>> : v \in adv}
      <4>1. PICK v \in adv : w = <<CodeOf(v[1]), v[2]>>
        BY <3>2
      <4>2. v[2] \in 1..Days
        BY <2>1, <2>4, NumbersAreDays
      <4> QED BY <4>1, <4>2
    <3> QED BY <2>3, <3>1, <3>2
  <2> QED BY <2>6, <2>7
<1> QED
  BY <1>1, PipelineSafe, PlannedAlways, SaidAlways, PTL

-----------------------------------------------------------------------------
\* No composer is asked without a stop to choose from, which is when Greedy's
\* promise holds (pipeline.py:78, is_empty).
ComposerHasStops == pc \notin {"retrieve", "failed"} => Stops(cands) # {}

THEOREM Supplied == Spec => []ComposerHasStops
<1>1. Init => ComposerHasStops
  BY DEF Init, ComposerHasStops
<1>2. ComposerHasStops /\ [Next]_vars => ComposerHasStops'
  <2> SUFFICES ASSUME ComposerHasStops, [Next]_vars PROVE ComposerHasStops'
    OBVIOUS
  <2>1. cands' = cands
    BY DEF Next, Retrieve, DistrictUnknown, Warm, WarmRaises, ComposeAnswers, ComposeDeclines, ComposeRaises,
           Accept, Repair, Reject, FallBack, Route, Geometry, GeometryRaises, GeometryDone,
           Assemble, vars
  <2>2. Stops(cands)' = Stops(cands)
    BY <2>1 DEF Stops, Stays
  <2>3. CASE pc \notin {"retrieve", "failed"}
    BY <2>2, <2>3 DEF ComposerHasStops
  <2>4. CASE pc = "retrieve"
    <3>1. pc' = "failed" \/ Stops(cands) # {} \/ pc' = pc
      BY <2>4 DEF Next, Retrieve, DistrictUnknown, Warm, WarmRaises, ComposeAnswers, ComposeDeclines,
             ComposeRaises, Accept, Repair, Reject, FallBack, Route, Geometry, GeometryRaises,
             GeometryDone, Assemble, vars
    <3> QED
      BY <2>2, <2>4, <3>1 DEF ComposerHasStops
  <2>5. CASE pc = "failed"
    <3>1. pc' = pc
      BY <2>5 DEF Next, Retrieve, DistrictUnknown, Warm, WarmRaises, ComposeAnswers, ComposeDeclines,
             ComposeRaises, Accept, Repair, Reject, FallBack, Route, Geometry, GeometryRaises,
             GeometryDone, Assemble, vars
    <3> QED
      BY <2>5, <3>1 DEF ComposerHasStops
  <2> QED
    BY <2>3, <2>4, <2>5
<1> QED
  BY <1>1, <1>2, PTL DEF Spec
=============================================================================
