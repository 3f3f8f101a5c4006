-------------------------------- MODULE Greedy --------------------------------
(***************************************************************************)
(* The deterministic composer (engine/compose_greedy.py), a candidate at a *)
(* time: what a trip gets when no model is configured, or its answer was   *)
(* refused.  Geography is abstracted: any order of the chosen taluks, any  *)
(* of the measured approach drives, any stay may be the nearest.  Stops of *)
(* equal weight are tried in any order.                                    *)
(***************************************************************************)
EXTENDS Drafts

CONSTANTS
    CandidateSets,      \* the candidate sets retrieval may hand over
    Approaches,         \* minutes of an approach drive
    DefaultMinutes      \* DEFAULT_ITEM_MINUTES, of a stop without a duration

ASSUME ApproachesAreMinutes == Approaches \subseteq Nat /\ DefaultMinutes \in Nat \ {0}
ASSUME CandidatesHaveRefs ==
    \A c \in CandidateSets :
        /\ DOMAIN c \subseteq Refs /\ IsFiniteSet(DOMAIN c)
        /\ \A r \in DOMAIN c : c[r] \in Candidate

VARIABLES
    cands,      \* the candidate set
    tour,       \* `ordered`: the chosen clusters in visiting order
    pc,         \* "start" of a day, "fill"ing it, or "done"
    day,        \* day_number
    pool,       \* today's candidates not tried yet
    budget,     \* today's minutes, less the approach drive
    share,      \* today's ceiling on stops
    picked,     \* today's stops
    spent,      \* their minutes
    used,       \* stops that may not come again
    days        \* the days composed so far

vars == <<cands, tour, pc, day, pool, budget, share, picked, spent, used, days>>

(***************************************************************************)
(* Clusters                                                                *)
(***************************************************************************)
Clusters(c) == {c[r].region : r \in Stops(c)}
Members(c, g) == {r \in Stops(c) : c[r].region = g}

\* The weights of the best three.
Score(c, g) ==
    Max({MapThenSumSet(LAMBDA r : c[r].weight, T) :
            T \in {U \in SUBSET Members(c, g) : Cardinality(U) <= 3}})

\* The `days` strongest clusters, in some order.
Tours(c) ==
    {t \in [1..Min({Days, Cardinality(Clusters(c))}) -> Clusters(c)] :
        /\ \A i, j \in DOMAIN t : i # j => t[i] # t[j]
        /\ \A i \in DOMAIN t :
             \A g \in Clusters(c) \ {t[j] : j \in DOMAIN t} : Score(c, t[i]) >= Score(c, g)}

\* More days than clusters: cycle back through them.
Cluster(d) == tour[((d - 1) % Len(tour)) + 1]

Init ==
    /\ cands \in CandidateSets
    /\ tour \in Tours(cands)
    /\ pc = IF tour = <<>> THEN "done" ELSE "start"
    /\ day = 1
    /\ pool = {} /\ budget = 0 /\ share = 1
    /\ picked = <<>> /\ spent = 0
    /\ used = {}
    /\ days = <<>>

(***************************************************************************)
(* A day                                                                   *)
(***************************************************************************)
Cost(r) == IF cands[r].minutes = 0 THEN DefaultMinutes ELSE cands[r].minutes

\* Mutant of Free: what was used is not left out.
FreeAgain(r) == TRUE

Free(r) == r \notin used \/ cands[r].repeatable

\* Mutant of Share: a day may take the whole pool.
ShareAll(n, left) == n + 1

\* max(1, -(-len(pool) // remaining_days))
Share(n, left) == IF n = 0 THEN 1 ELSE (n + left - 1) \div left

StartDay ==
    /\ pc = "start"
    /\ \E approach \in Approaches :
           budget' = IF approach < DayMinutes THEN DayMinutes - approach ELSE 0
    /\ pool' = {r \in Members(cands, Cluster(day)) : Free(r)}
    /\ share' = Share(Cardinality(pool'), Days - day + 1)
    /\ pc' = "fill"
    /\ UNCHANGED <<cands, tour, day, picked, spent, used, days>>

\* The two breaks of the loop over the pool.
Full == Len(picked) >= share \/ (picked # <<>> /\ spent >= budget)

Heaviest(r) == r \in pool /\ \A o \in pool : cands[r].weight >= cands[o].weight

\* Mutant of Fits: what is spent is compared before the stop is added.
FitsBefore(r) == spent <= budget

Fits(r) == spent + Cost(r) <= budget

Take(r) ==
    /\ pc = "fill" /\ ~Full /\ Heaviest(r) /\ Fits(r)
    /\ pool' = pool \ {r}
    /\ picked' = Append(picked, r)
    /\ spent' = spent + Cost(r)
    /\ used' = IF cands[r].repeatable THEN used ELSE used \cup {r}
    /\ UNCHANGED <<cands, tour, pc, day, budget, share, days>>

Skip(r) ==
    /\ pc = "fill" /\ ~Full /\ Heaviest(r) /\ ~Fits(r)
    /\ pool' = pool \ {r}
    /\ UNCHANGED <<cands, tour, pc, day, budget, share, picked, spent, used, days>>

\* _nearest_stay: one of the stays, None only when there are none.
Beds == IF Stays(cands) = {} THEN {NoRef} ELSE Stays(cands)

EndDay ==
    /\ pc = "fill" /\ (Full \/ pool = {})
    /\ \E stay \in Beds :
           days' = Append(days, [number |-> day, stay |-> stay, items |-> picked])
    /\ day' = day + 1
    /\ pc' = IF day = Days THEN "done" ELSE "start"
    /\ pool' = {} /\ budget' = 0 /\ share' = 1 /\ picked' = <<>> /\ spent' = 0
    /\ UNCHANGED <<cands, tour, used>>

Next ==
    \/ StartDay
    \/ \E r \in Refs : Take(r) \/ Skip(r)
    \/ EndDay

Spec == Init /\ [][Next]_vars

----------------------------------------------------------------------------
(* Properties *)

TypeOK ==
    /\ DOMAIN cands \subseteq Refs
    /\ \A r \in DOMAIN cands : cands[r] \in Candidate
    /\ pc \in {"start", "fill", "done"}
    /\ tour \in Seq(Regions) /\ (pc # "done" => tour # <<>>)
    /\ day \in 1..(Days + 1)
    /\ pool \subseteq Stops(cands) /\ used \subseteq Stops(cands)
    /\ budget \in 0..DayMinutes /\ share \in Nat \ {0} /\ spent \in Nat
    /\ picked \in Seq(Stops(cands))
    /\ days \in Draft

\* The fallback can break one rule of validate.py only, and none once there is
\* a stay: whatever the pool, the drives and the ties, its days are numbered
\* 1..n, its refs are known, of the right kind, and not repeated.
OnlyHolesCanFail ==
    pc = "done" /\ Stops(cands) # {} => Deterministic(days, cands)

\* compose_greedy.py:164-168, the district with few places: one taluk with a
\* stop for every day is shared out, so that a day which every stop would fit
\* does not go without, whatever the days before it took.
EnoughFillsEveryDay ==
    /\ Len(tour) = 1
    /\ Cardinality(Stops(cands)) >= Days
    /\ pc = "fill" /\ \A r \in Stops(cands) : Cost(r) <= budget
    => pool # {} \/ picked # <<>>

\* The fallback never earns the packed_day warning the model's drafts may.
NeverPacked == \A i \in 1..Len(days) : MinutesOf(days[i], cands) <= DayMinutes

\* compose_greedy.py:5-7, "the engine still produces a complete, valid
\* itinerary", for a brief that feasibility accepts: a stop for every day.
FallbackIsValid ==
    pc = "done" /\ Cardinality(Stops(cands)) >= Days => Ok(days, cands)
=============================================================================
