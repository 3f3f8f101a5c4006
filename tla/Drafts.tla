-------------------------------- MODULE Drafts --------------------------------
(***************************************************************************)
(* What a composer returns and the rules it is judged by                   *)
(* (domain/models.py, engine/validate.py).  A draft is a sequence of days; *)
(* a day is a number, the ref of a stay or NoRef, and a sequence of refs.  *)
(* `cands` is the candidate set as CandidateSet.by_ref() gives it: a       *)
(* function from refs to candidates.                                       *)
(***************************************************************************)
EXTENDS Integers, Sequences, FiniteSets, FiniteSetsExt

CONSTANTS
    Refs,           \* every ref a composer may write, known or invented
    NoRef,          \* stay_ref = None
    Regions,        \* the taluks candidates lie in
    Days,           \* brief.days
    DayMinutes      \* planning.day_activity_minutes

ASSUME DaysPositive == Days \in Nat \ {0} /\ DayMinutes \in Nat
ASSUME NoRefIsNone == NoRef \notin Refs

\* minutes is 0 for a candidate without a typical duration.
Candidate == [kind : {"place", "activity", "stay"}, region : Regions, minutes : Nat,
              weight : Nat, repeatable : BOOLEAN]
Day == [number : Nat \ {0}, stay : Refs \cup {NoRef}, items : Seq(Refs)]
Draft == Seq(Day)

Stays(cands) == {r \in DOMAIN cands : cands[r].kind = "stay"}
Stops(cands) == DOMAIN cands \ Stays(cands)

(***************************************************************************)
(* The fatal rules, one operator per violation code.                       *)
(***************************************************************************)
Known(cands, ref) == ref \in DOMAIN cands

\* Mutant of UnknownRef: the refs of a day's items are not looked up.
UnknownStay(draft, cands) ==
    \E i \in 1..Len(draft) : draft[i].stay # NoRef /\ ~Known(cands, draft[i].stay)

UnknownRef(draft, cands) ==
    \E i \in 1..Len(draft) :
        \/ draft[i].stay # NoRef /\ ~Known(cands, draft[i].stay)
        \/ \E k \in 1..Len(draft[i].items) : ~Known(cands, draft[i].items[k])

DayCountMismatch(draft) == Len(draft) # Days

DuplicateDayNumber(draft) ==
    \E i, j \in 1..Len(draft) : i # j /\ draft[i].number = draft[j].number

MissingDayNumber(draft) ==
    \E n \in 1..Days : \A i \in 1..Len(draft) : draft[i].number # n

WrongKindForStay(draft, cands) ==
    \E i \in 1..Len(draft) :
        Known(cands, draft[i].stay) /\ cands[draft[i].stay].kind # "stay"

EmptyDay(draft) ==
    \E i \in 1..Len(draft) : draft[i].items = <<>> /\ draft[i].stay = NoRef

WrongKindForItem(draft, cands) ==
    \E i \in 1..Len(draft) : \E k \in 1..Len(draft[i].items) :
        /\ Known(cands, draft[i].items[k])
        /\ cands[draft[i].items[k]].kind = "stay"

\* seen_pois is one set for the whole trip, filled in the order of the days.
OnceOnly(cands, ref) ==
    Known(cands, ref) /\ cands[ref].kind # "stay" /\ ~cands[ref].repeatable
\* Mutant of RepeatedPoi: seen_pois is emptied with every day.
RepeatedInADay(draft, cands) ==
    \E i \in 1..Len(draft) : \E k, l \in 1..Len(draft[i].items) :
        k # l /\ draft[i].items[k] = draft[i].items[l] /\ OnceOnly(cands, draft[i].items[k])

RepeatedPoi(draft, cands) ==
    \E i, j \in 1..Len(draft) :
        \E k \in 1..Len(draft[i].items), l \in 1..Len(draft[j].items) :
            /\ <<i, k>> # <<j, l>>
            /\ draft[i].items[k] = draft[j].items[l]
            /\ OnceOnly(cands, draft[i].items[k])

Fatal(draft, cands) ==
    {code \in {"unknown_ref", "day_count_mismatch", "duplicate_day_number",
               "missing_day_number", "wrong_kind_for_stay", "wrong_kind_for_item",
               "repeated_poi", "empty_day"} :
        \/ code = "unknown_ref" /\ UnknownRef(draft, cands)
        \/ code = "day_count_mismatch" /\ DayCountMismatch(draft)
        \/ code = "duplicate_day_number" /\ DuplicateDayNumber(draft)
        \/ code = "missing_day_number" /\ MissingDayNumber(draft)
        \/ code = "wrong_kind_for_stay" /\ WrongKindForStay(draft, cands)
        \/ code = "wrong_kind_for_item" /\ WrongKindForItem(draft, cands)
        \/ code = "repeated_poi" /\ RepeatedPoi(draft, cands)
        \/ code = "empty_day" /\ EmptyDay(draft)}

Ok(draft, cands) == Fatal(draft, cands) = {}

\* What the deterministic composer owes the pipeline, which raises on a draft of
\* its own that is not ok: Greedy keeps it, Pipeline's FallBack relies on it.
Deterministic(draft, cands) ==
    /\ Fatal(draft, cands) \subseteq {"empty_day"}
    /\ Stays(cands) # {} => Ok(draft, cands)

(***************************************************************************)
(* The advisory rules, as <<code, day number>>.                            *)
(***************************************************************************)
MinutesOf(day, cands) ==
    MapThenSumSet(LAMBDA k : cands[day.items[k]].minutes,
                  {k \in 1..Len(day.items) :
                      Known(cands, day.items[k]) /\ cands[day.items[k]].kind # "stay"})

Advisory(draft, cands) ==
    {<<"no_stay", draft[i].number>> :
        i \in {j \in 1..Len(draft) : draft[j].stay = NoRef}}
    \cup {<<"empty_day", draft[i].number>> :
        i \in {j \in 1..Len(draft) : draft[j].items = <<>> /\ draft[j].stay # NoRef}}
    \cup {<<"over_time_budget", draft[i].number>> :
        i \in {j \in 1..Len(draft) : MinutesOf(draft[j], cands) > DayMinutes}}

ViolationCode ==
    {"unknown_ref", "wrong_kind_for_stay", "wrong_kind_for_item", "day_count_mismatch",
     "duplicate_day_number", "missing_day_number", "repeated_poi", "empty_day", "no_stay",
     "over_time_budget"}
ValidationResult == [fatal : SUBSET ViolationCode, advisory : SUBSET (ViolationCode \X Nat)]

\* What validate() returns of a draft.
Judgement(draft, cands) ==
    [fatal |-> Fatal(draft, cands), advisory |-> Advisory(draft, cands)]
=============================================================================
