----------------------------- MODULE Greedy_proofs -----------------------------
(***************************************************************************)
(* For every candidate set, trip length, budget and measured drive, the    *)
(* deterministic composer's draft passes every fatal rule of validate.py   *)
(* but the one about days with neither a stop nor a bed, and that one too  *)
(* once there is a stay; a taluk with enough stops fills every day; and no *)
(* day holds more minutes than it has.  The invariants follow `used`:      *)
(* every stop already placed that may not come again is in it, nothing of  *)
(* it is left in today's pool, and what is not in it suffices for the days *)
(* to come.  Sums of minutes and numbers of stops are added up stop by     *)
(* stop.                                                                   *)
(***************************************************************************)
EXTENDS Greedy, FiniteSetTheorems, SequenceTheorems, WellFoundedInduction, TLAPS

\* Days are numbered in order, sleep where they can and stop where they may.
Composed ==
    /\ Len(days) = day - 1
    /\ \A i \in 1..Len(days) : days[i].number = i /\ days[i].stay \in Beds
    /\ \A i \in 1..Len(days) : \A k \in 1..Len(days[i].items) :
          days[i].items[k] \in Stops(cands)

\* `used` holds what may not come again, and the pool holds none of it.
UsedUp ==
    /\ \A i \in 1..Len(days) : \A k \in 1..Len(days[i].items) :
          ~cands[days[i].items[k]].repeatable => days[i].items[k] \in used
    /\ \A k \in 1..Len(picked) : ~cands[picked[k]].repeatable => picked[k] \in used
    /\ \A r \in pool : r \in used => cands[r].repeatable

\* Nothing that may not come again stands twice, in the days or today.
DaysOnce ==
    \A i, j \in 1..Len(days) :
        \A k \in 1..Len(days[i].items), l \in 1..Len(days[j].items) :
            days[i].items[k] = days[j].items[l]
            /\ ~cands[days[i].items[k]].repeatable => i = j /\ k = l
TodayOnce ==
    \A k, l \in 1..Len(picked) :
        picked[k] = picked[l] /\ ~cands[picked[k]].repeatable => k = l
TodayApart ==
    \A i \in 1..Len(days) : \A k \in 1..Len(days[i].items), l \in 1..Len(picked) :
        days[i].items[k] = picked[l] => cands[picked[l]].repeatable
Once == DaysOnce /\ TodayOnce /\ TodayApart

Progress ==
    /\ cands \in CandidateSets
    /\ pc # "done" => day \in 1..Days
    /\ pc = "done" => tour = <<>> \/ day = Days + 1
    /\ pc # "fill" => picked = <<>> /\ pool = {} /\ spent = 0
    /\ spent <= budget

GreedyInv == TypeOK /\ Composed /\ UsedUp /\ Once /\ Progress

-----------------------------------------------------------------------------

\* A share is at least one stop.
LEMMA SharePositive ==
    ASSUME NEW n \in Nat, NEW left \in Nat \ {0}
    PROVE  Share(n, left) \in Nat \ {0}
<1>1. CASE n = 0
  BY <1>1 DEF Share
<1>2. CASE n # 0
  <2>1. n + left - 1 \in Nat /\ n + left - 1 >= left
    BY <1>2
  <2>2. ASSUME NEW m \in Nat, m >= left PROVE m \div left \in Nat \ {0}
    BY <2>2
  <2> QED
    BY <1>2, <2>1, <2>2 DEF Share
<1> QED
  BY <1>1, <1>2

\* The stops of a candidate set are finitely many refs.
LEMMA StopsFinite ==
    ASSUME NEW c \in CandidateSets
    PROVE  IsFiniteSet(Stops(c)) /\ Stops(c) \subseteq Refs
<1>1. IsFiniteSet(DOMAIN c) /\ DOMAIN c \subseteq Refs
  BY CandidatesHaveRefs
<1>2. Stops(c) \subseteq DOMAIN c
  BY DEF Stops
<1> QED
  BY <1>1, <1>2, FS_Subset

\* What a stop costs is a number of minutes.
LEMMA CostIsMinutes ==
    ASSUME GreedyInv, NEW r \in Stops(cands)
    PROVE  Cost(r) \in Nat /\ cands[r] \in Candidate
<1>1. cands[r] \in Candidate
  BY DEF GreedyInv, TypeOK, Stops
<1>2. cands[r].minutes \in Nat
  BY <1>1 DEF Candidate
<1> QED
  BY <1>1, <1>2, ApproachesAreMinutes DEF Cost

\* The night's bed is a ref or none.
LEMMA BedIsRef ==
    ASSUME GreedyInv, NEW stay \in Beds
    PROVE  stay \in Refs \cup {NoRef}
BY DEF GreedyInv, TypeOK, Beds, Stays

\* The candidate set never changes, nor what is read off it.
LEMMA SameCandidates ==
    ASSUME cands' = cands
    PROVE  Beds' = Beds /\ Stops(cands)' = Stops(cands)
BY DEF Beds, Stays, Stops

LEMMA StartDayInv ==
    ASSUME GreedyInv, StartDay
    PROVE  GreedyInv'
<1> USE DEF GreedyInv
<1>1. /\ pc = "start" /\ pc' = "fill"
      /\ UNCHANGED <<cands, tour, day, picked, spent, used, days>>
      /\ pool' = {r \in Members(cands, Cluster(day)) : Free(r)}
      /\ share' = Share(Cardinality(pool'), Days - day + 1)
  BY DEF StartDay
<1>2. budget' \in 0..DayMinutes
  <2>1. PICK m \in Approaches :
            budget' = IF m < DayMinutes THEN DayMinutes - m ELSE 0
    BY DEF StartDay
  <2> QED
    BY <2>1, ApproachesAreMinutes, DaysPositive
<1>3. day \in 1..Days /\ picked = <<>> /\ spent = 0
  BY <1>1 DEF Progress
<1>4. pool' \subseteq Stops(cands) /\ \A r \in pool' : r \in used => cands[r].repeatable
  BY <1>1 DEF Members, Free
<1>5. share' \in Nat \ {0}
  <2>1. IsFiniteSet(pool')
    BY <1>4, StopsFinite, FS_Subset DEF Progress
  <2>2. Cardinality(pool') \in Nat
    BY <2>1, FS_CardinalityType
  <2>3. Days - day + 1 \in Nat \ {0}
    BY <1>3, DaysPositive
  <2> QED
    BY <1>1, <2>2, <2>3, SharePositive
<1>6. TypeOK'
  BY <1>1, <1>2, <1>4, <1>5 DEF TypeOK, Stops
<1>7. Composed'
  BY <1>1, SameCandidates DEF Composed
<1>8. UsedUp'
  BY <1>1, <1>4 DEF UsedUp
<1>9. Once'
  BY <1>1 DEF Once, DaysOnce, TodayOnce, TodayApart
<1>10. Progress'
  BY <1>1, <1>2, <1>3 DEF Progress
<1> QED
  BY <1>6, <1>7, <1>8, <1>9, <1>10

LEMMA TakeInv ==
    ASSUME GreedyInv, NEW r \in Refs, Take(r)
    PROVE  GreedyInv'
<1> USE DEF GreedyInv
<1>1. /\ pc = "fill" /\ r \in pool /\ spent + Cost(r) <= budget
      /\ pool' = pool \ {r} /\ picked' = Append(picked, r)
      /\ spent' = spent + Cost(r)
      /\ used' = IF cands[r].repeatable THEN used ELSE used \cup {r}
      /\ UNCHANGED <<cands, tour, pc, day, budget, share, days>>
  BY DEF Take, Heaviest, Fits
<1>2. r \in Stops(cands) /\ Cost(r) \in Nat
  BY <1>1, CostIsMinutes DEF TypeOK
<1>3. /\ picked \in Seq(Stops(cands))
      /\ Len(picked') = Len(picked) + 1
      /\ \A k \in 1..Len(picked) : picked'[k] = picked[k]
      /\ picked'[Len(picked) + 1] = r
  BY <1>1, <1>2 DEF TypeOK
<1>4. TypeOK'
  <2>1. picked' \in Seq(Stops(cands))
    BY <1>1, <1>2, <1>3
  <2>2. used' \subseteq Stops(cands) /\ spent' \in Nat /\ pool' \subseteq Stops(cands)
    BY <1>1, <1>2 DEF TypeOK
  <2> QED
    BY <1>1, <2>1, <2>2 DEF TypeOK, Stops
<1>5. Composed'
  BY <1>1, SameCandidates DEF Composed
<1>6. used \subseteq used' /\ (~cands[r].repeatable => r \in used' /\ r \notin used)
  BY <1>1 DEF UsedUp
<1>7. UsedUp'
  <2>1. \A i \in 1..Len(days) : \A k \in 1..Len(days[i].items) :
           ~cands[days[i].items[k]].repeatable => days[i].items[k] \in used'
    BY <1>6 DEF UsedUp
  <2>2. \A k \in 1..Len(picked') : ~cands[picked'[k]].repeatable => picked'[k] \in used'
    <3> SUFFICES ASSUME NEW k \in 1..Len(picked'), ~cands[picked'[k]].repeatable
                 PROVE  picked'[k] \in used'
      OBVIOUS
    <3>1. CASE k \in 1..Len(picked)
      BY <3>1, <1>3, <1>6 DEF UsedUp
    <3>2. CASE k = Len(picked) + 1
      BY <3>2, <1>3, <1>6
    <3> QED
      BY <3>1, <3>2, <1>3
  <2>3. \A o \in pool' : o \in used' => cands[o].repeatable
    BY <1>1 DEF UsedUp
  <2> QED
    BY <1>1, <2>1, <2>2, <2>3 DEF UsedUp
<1>8. \A k \in 1..Len(picked) : ~cands[r].repeatable => picked[k] # r
  BY <1>6 DEF UsedUp
<1>9. \A i \in 1..Len(days) : \A k \in 1..Len(days[i].items) :
         ~cands[r].repeatable => days[i].items[k] # r
  BY <1>6 DEF UsedUp
<1>10. Once'
  <2>1. \A k, l \in 1..Len(picked') :
           picked'[k] = picked'[l] /\ ~cands[picked'[k]].repeatable => k = l
    <3> SUFFICES ASSUME NEW k \in 1..Len(picked'), NEW l \in 1..Len(picked'),
                        picked'[k] = picked'[l], ~cands[picked'[k]].repeatable
                 PROVE  k = l
      OBVIOUS
    <3>1. CASE k \in 1..Len(picked) /\ l \in 1..Len(picked)
      BY <3>1, <1>3 DEF Once, DaysOnce, TodayOnce, TodayApart
    <3>2. CASE k = Len(picked) + 1 /\ l \in 1..Len(picked)
      BY <3>2, <1>3, <1>8
    <3>3. CASE k \in 1..Len(picked) /\ l = Len(picked) + 1
      BY <3>3, <1>3, <1>8
    <3>4. CASE k = Len(picked) + 1 /\ l = Len(picked) + 1
      BY <3>4
    <3> QED
      BY <3>1, <3>2, <3>3, <3>4, <1>3
  <2>2. \A i \in 1..Len(days) : \A k \in 1..Len(days[i].items), l \in 1..Len(picked') :
           days[i].items[k] = picked'[l] => cands[picked'[l]].repeatable
    <3> SUFFICES ASSUME NEW i \in 1..Len(days), NEW k \in 1..Len(days[i].items),
                        NEW l \in 1..Len(picked'), days[i].items[k] = picked'[l]
                 PROVE  cands[picked'[l]].repeatable
      OBVIOUS
    <3>1. CASE l \in 1..Len(picked)
      BY <3>1, <1>3 DEF Once, DaysOnce, TodayOnce, TodayApart
    <3>2. CASE l = Len(picked) + 1
      <4>1. cands[r] \in Candidate
        BY <1>2, CostIsMinutes
      <4> QED
        BY <3>2, <1>3, <1>9
    <3> QED
      BY <3>1, <3>2, <1>3
  <2> QED
    <3>1. DaysOnce'
      BY <1>1 DEF Once, DaysOnce
    <3>2. TodayOnce'
      BY <1>1, <2>1 DEF TodayOnce
    <3>3. TodayApart'
      BY <1>1, <2>2 DEF TodayApart
    <3> QED
      BY <3>1, <3>2, <3>3 DEF Once
<1>11. Progress'
  BY <1>1, <1>2 DEF Progress, TypeOK
<1> QED
  BY <1>4, <1>5, <1>7, <1>10, <1>11

LEMMA SkipInv ==
    ASSUME GreedyInv, NEW r \in Refs, Skip(r)
    PROVE  GreedyInv'
<1> USE DEF GreedyInv
<1>1. /\ pc = "fill" /\ pool' \subseteq pool
      /\ UNCHANGED <<cands, tour, pc, day, budget, share, picked, spent, used, days>>
  BY DEF Skip
<1>2. TypeOK'
  BY <1>1 DEF TypeOK, Stops
<1>3. Composed'
  BY <1>1, SameCandidates DEF Composed
<1>4. UsedUp'
  BY <1>1 DEF UsedUp
<1>5. Once'
  BY <1>1 DEF Once, DaysOnce, TodayOnce, TodayApart
<1>6. Progress'
  BY <1>1 DEF Progress
<1> QED
  BY <1>2, <1>3, <1>4, <1>5, <1>6

LEMMA EndDayInv ==
    ASSUME GreedyInv, EndDay
    PROVE  GreedyInv'
<1> USE DEF GreedyInv
<1>1. PICK stay \in Beds :
          days' = Append(days, [number |-> day, stay |-> stay, items |-> picked])
  BY DEF EndDay
<1>2. /\ pc = "fill" /\ day' = day + 1 /\ pc' = (IF day = Days THEN "done" ELSE "start")
      /\ pool' = {} /\ budget' = 0 /\ share' = 1 /\ picked' = <<>> /\ spent' = 0
      /\ UNCHANGED <<cands, tour, used>>
  BY DEF EndDay
<1>3. day \in 1..Days
  BY <1>2 DEF Progress
<1> DEFINE today == [number |-> day, stay |-> stay, items |-> picked]
<1>4. picked \in Seq(Refs)
  <2>1. Stops(cands) \subseteq Refs
    BY StopsFinite DEF Progress
  <2> QED
    BY <2>1 DEF TypeOK
<1>5. today \in Day
  BY <1>1, <1>3, <1>4, BedIsRef, DaysPositive DEF Day
<1>6. today.number = day /\ today.stay = stay /\ today.items = picked
  OBVIOUS
<1>7. days' = Append(days, today)
  BY <1>1
<1> HIDE DEF today
<1>8. /\ days \in Seq(Day) /\ days' \in Seq(Day) /\ Len(days) = day - 1 /\ Len(days') = day
      /\ \A i \in 1..Len(days) : days'[i] = days[i]
      /\ days'[day] = today
  BY <1>3, <1>5, <1>7, DaysPositive DEF TypeOK, Draft, Composed
<1>9. \A i \in 1..Len(days') : i \in 1..Len(days) \/ i = day
  BY <1>3, <1>8, DaysPositive
<1>10. TypeOK'
  BY <1>2, <1>3, <1>8, DaysPositive DEF TypeOK, Stops, Draft
<1>11. Composed'
  <2>1. \A i \in 1..Len(days') : days'[i].number = i /\ days'[i].stay \in Beds
    BY <1>1, <1>6, <1>8, <1>9 DEF Composed
  <2>2. \A i \in 1..Len(days') : \A k \in 1..Len(days'[i].items) :
           days'[i].items[k] \in Stops(cands)
    BY <1>6, <1>8, <1>9 DEF Composed, TypeOK
  <2> QED
    BY <1>2, <1>3, <1>8, <2>1, <2>2, SameCandidates, DaysPositive DEF Composed
<1>12. UsedUp'
  <2>1. \A i \in 1..Len(days') : \A k \in 1..Len(days'[i].items) :
           ~cands[days'[i].items[k]].repeatable => days'[i].items[k] \in used
    BY <1>6, <1>8, <1>9 DEF UsedUp
  <2> QED
    BY <1>2, <2>1 DEF UsedUp
<1>13. Once'
  <2>1. ASSUME NEW i \in 1..Len(days'), NEW j \in 1..Len(days'),
               NEW k \in 1..Len(days'[i].items), NEW l \in 1..Len(days'[j].items),
               days'[i].items[k] = days'[j].items[l],
               ~cands[days'[i].items[k]].repeatable
        PROVE  i = j /\ k = l
    <3>1. CASE i \in 1..Len(days) /\ j \in 1..Len(days)
      <4>1. days'[i] = days[i] /\ days'[j] = days[j]
        BY <3>1, <1>8
      <4> QED
        <5>1. k \in 1..Len(days[i].items) /\ l \in 1..Len(days[j].items)
          BY <2>1, <4>1
        <5>2. days[i].items[k] = days[j].items[l] /\ ~cands[days[i].items[k]].repeatable
          BY <2>1, <4>1
        <5>3. DaysOnce
          BY DEF Once
        <5> QED
          BY <3>1, <5>1, <5>2, <5>3 DEF DaysOnce
    <3>2. CASE i \in 1..Len(days) /\ j = day
      <4>1. days'[i] = days[i] /\ days'[j].items = picked
        BY <3>2, <1>6, <1>8
      <4> QED
        BY <2>1, <3>2, <4>1 DEF Once, DaysOnce, TodayOnce, TodayApart
    <3>3. CASE i = day /\ j \in 1..Len(days)
      <4>1. days'[i].items = picked /\ days'[j] = days[j]
        BY <3>3, <1>6, <1>8
      <4> QED
        BY <2>1, <3>3, <4>1 DEF Once, DaysOnce, TodayOnce, TodayApart
    <3>4. CASE i = day /\ j = day
      BY <2>1, <3>4, <1>6, <1>8 DEF Once, DaysOnce, TodayOnce, TodayApart
    <3> QED
      BY <3>1, <3>2, <3>3, <3>4, <1>9
  <2> QED
    BY <1>2, <2>1 DEF Once, DaysOnce, TodayOnce, TodayApart
<1>14. Progress'
  BY <1>2, <1>3, DaysPositive DEF Progress
<1> QED
  BY <1>10, <1>11, <1>12, <1>13, <1>14

-----------------------------------------------------------------------------

\* A tour is a sequence of taluks.
LEMMA TourIsSequence ==
    ASSUME NEW c \in CandidateSets, NEW t \in Tours(c)
    PROVE  t \in Seq(Regions)
<1> DEFINE n == Min({Days, Cardinality(Clusters(c))})
<1>1. IsFiniteSet(Clusters(c)) /\ Clusters(c) \subseteq Regions
  <2>1. Clusters(c) = {c[r].region : r \in Stops(c)}
    BY DEF Clusters
  <2>2. IsFiniteSet(Clusters(c))
    <3> DEFINE f == [r \in Stops(c) |-> c[r].region]
    <3>1. f \in Surjection(Stops(c), Clusters(c))
      BY <2>1 DEF Surjection
    <3> HIDE DEF f
    <3> QED
      BY <3>1, StopsFinite, FS_Surjection
  <2>3. \A r \in Stops(c) : c[r] \in Candidate
    BY CandidatesHaveRefs DEF Stops
  <2> QED
    BY <2>1, <2>2, <2>3 DEF Candidate
<1>2. n \in Nat
  <2>1. Cardinality(Clusters(c)) \in Nat /\ Days \in Nat
    BY <1>1, FS_CardinalityType, DaysPositive
  <2>2. ASSUME NEW k \in Nat, NEW m \in Nat PROVE Min({k, m}) \in Nat
    BY <2>2 DEF Min
  <2> QED
    BY <2>1, <2>2
<1>3. t \in [1..n -> Clusters(c)]
  BY DEF Tours
<1> HIDE DEF n
<1>4. t \in [1..n -> Regions]
  BY <1>1, <1>3
<1> QED
  BY <1>2, <1>4, SeqDef

LEMMA InitInv == Init => GreedyInv
<1> SUFFICES ASSUME Init PROVE GreedyInv
  OBVIOUS
<1>1. cands \in CandidateSets /\ tour \in Seq(Regions)
  BY TourIsSequence DEF Init
<1>2. DOMAIN cands \subseteq Refs /\ \A r \in DOMAIN cands : cands[r] \in Candidate
  BY <1>1, CandidatesHaveRefs
<1>3. TypeOK
  BY <1>1, <1>2, DaysPositive DEF Init, TypeOK, Draft
<1>4. Composed /\ UsedUp /\ Once
  BY DEF Init, Composed, UsedUp, Once, DaysOnce,
         TodayOnce, TodayApart
<1>5. Progress
  BY <1>1, DaysPositive DEF Init, Progress
<1> QED
  BY <1>3, <1>4, <1>5 DEF GreedyInv

LEMMA NextInv == GreedyInv /\ [Next]_vars => GreedyInv'
<1> SUFFICES ASSUME GreedyInv, [Next]_vars PROVE GreedyInv'
  OBVIOUS
<1>1. CASE StartDay
  BY <1>1, StartDayInv
<1>2. ASSUME NEW r \in Refs, Take(r) PROVE GreedyInv'
  BY <1>2, TakeInv
<1>3. ASSUME NEW r \in Refs, Skip(r) PROVE GreedyInv'
  BY <1>3, SkipInv
<1>4. CASE EndDay
  BY <1>4, EndDayInv
<1>5. CASE UNCHANGED vars
  <2>1. UNCHANGED <<cands, tour, pc, day, pool, budget, share, picked, spent, used, days>>
    BY <1>5 DEF vars
  <2>2. TypeOK' /\ Progress' /\ UsedUp'
    BY <2>1, SameCandidates DEF GreedyInv, TypeOK, Progress, UsedUp
  <2>3. Composed'
    BY <2>1, SameCandidates DEF GreedyInv, Composed
  <2>4. Once'
    BY <2>1 DEF GreedyInv, Once, DaysOnce, TodayOnce, TodayApart
  <2> QED
    BY <2>2, <2>3, <2>4 DEF GreedyInv
<1> QED
  BY <1>1, <1>2, <1>3, <1>4, <1>5 DEF Next

THEOREM GreedySafe == Spec => []GreedyInv
<1> QED
  BY InitInv, NextInv, PTL DEF Spec

\* The composer's working state stays well typed: a share is never nothing, the
\* pool holds stops of the candidate set only.
THEOREM GreedyTypeCorrect == Spec => []TypeOK
<1>1. GreedyInv => TypeOK
  BY DEF GreedyInv
<1> QED
  BY <1>1, GreedySafe, PTL

\* Each rule in turn, for a finished draft.
LEMMA FinishedRules ==
    ASSUME GreedyInv, pc = "done", tour # <<>>
    PROVE  /\ ~UnknownRef(days, cands)
           /\ ~DayCountMismatch(days)
           /\ ~DuplicateDayNumber(days)
           /\ ~MissingDayNumber(days)
           /\ ~WrongKindForStay(days, cands)
           /\ ~WrongKindForItem(days, cands)
           /\ ~RepeatedPoi(days, cands)
           /\ Stays(cands) # {} => ~EmptyDay(days)
<1> USE DEF GreedyInv
<1>1. Len(days) = Days
  BY DaysPositive DEF Progress, Composed
<1>2. NoRef \notin DOMAIN cands
  BY NoRefIsNone DEF TypeOK
<1>3. ~UnknownRef(days, cands)
  BY DEF UnknownRef, Composed, Known, Beds, Stays, Stops
<1>4. ~DayCountMismatch(days)
  BY <1>1 DEF DayCountMismatch
<1>5. ~DuplicateDayNumber(days)
  BY DEF DuplicateDayNumber, Composed
<1>6. ~MissingDayNumber(days)
  BY <1>1 DEF MissingDayNumber, Composed
<1>7. ~WrongKindForStay(days, cands)
  BY <1>2 DEF WrongKindForStay, Composed, Known, Beds, Stays
<1>8. ~WrongKindForItem(days, cands)
  BY DEF WrongKindForItem, Composed, Stops, Stays
<1>9. ~RepeatedPoi(days, cands)
  BY DEF RepeatedPoi, Once, DaysOnce, OnceOnly
<1>10. Stays(cands) # {} => ~EmptyDay(days)
  BY <1>2 DEF EmptyDay, Composed, Beds, Stays
<1> QED
  BY <1>3, <1>4, <1>5, <1>6, <1>7, <1>8, <1>9, <1>10

\* Where there is a stop there is a taluk, and the tour has one at least.
Touring == Stops(cands) # {} => tour # <<>>

LEMMA SomeTour ==
    ASSUME NEW c \in CandidateSets, NEW t \in Tours(c), Stops(c) # {}
    PROVE  t # <<>>
<1>1. Clusters(c) = {c[r].region : r \in Stops(c)}
  BY DEF Clusters
<1>2. IsFiniteSet(Clusters(c))
  <2> DEFINE f == [r \in Stops(c) |-> c[r].region]
  <2>1. f \in Surjection(Stops(c), Clusters(c))
    BY <1>1 DEF Surjection
  <2> HIDE DEF f
  <2> QED
    BY <2>1, StopsFinite, FS_Surjection
<1>3. Cardinality(Clusters(c)) \in Nat \ {0}
  BY <1>1, <1>2, FS_CardinalityType, FS_EmptySet
<1>4. PICK n : n = Min({Days, Cardinality(Clusters(c))})
  OBVIOUS
<1>5. n \in Nat \ {0}
  <2>1. ASSUME NEW k \in Nat \ {0}, NEW m \in Nat \ {0} PROVE Min({k, m}) \in Nat \ {0}
    BY <2>1 DEF Min
  <2> QED
    BY <1>3, <1>4, <2>1, DaysPositive
<1>6. DOMAIN t = 1..n
  BY <1>4 DEF Tours
<1> QED
  BY <1>5, <1>6

LEMMA TourGoesSomewhere == Spec => []Touring
<1>1. Init => Touring
  BY SomeTour DEF Init, Touring
<1>2. Touring /\ [Next]_vars => Touring'
  <2> SUFFICES ASSUME Touring, [Next]_vars PROVE Touring'
    OBVIOUS
  <2>1. cands' = cands /\ tour' = tour
    BY DEF Next, StartDay, Take, Skip, EndDay, vars
  <2> QED
    BY <2>1 DEF Touring, Stops, Stays
<1> QED
  BY <1>1, <1>2, PTL DEF Spec

\* The fallback's draft breaks no rule but the one about holes, and none when
\* there is a stay (validate.py:22, "It should never fail"): what Pipeline's
\* FallBack takes for granted.
THEOREM FallbackRules == Spec => []OnlyHolesCanFail
<1>1. GreedyInv /\ Touring => OnlyHolesCanFail
  <2> SUFFICES ASSUME GreedyInv, Touring, pc = "done", Stops(cands) # {}
               PROVE  Deterministic(days, cands)
    BY DEF OnlyHolesCanFail
  <2>1. tour # <<>>
    BY DEF Touring
  <2>2. Fatal(days, cands) \subseteq {"empty_day"}
    BY <2>1, FinishedRules DEF Fatal
  <2>3. Stays(cands) # {} => "empty_day" \notin Fatal(days, cands)
    BY <2>1, FinishedRules DEF Fatal
  <2> QED
    BY <2>2, <2>3 DEF Ok, Deterministic
<1> QED
  BY <1>1, GreedySafe, TourGoesSomewhere, PTL

-----------------------------------------------------------------------------
(* Enough for every day. *)

\* What is still free in the one taluk of a tour.
FreeOf(c, t, u) == {r \in Members(c, t[1]) : r \notin u \/ c[r].repeatable}

OneTaluk == Len(tour) = 1 /\ Cardinality(Stops(cands)) >= Days

\* There is a stop for today and each of the days to come; today, the rest of its
\* share and one for each of the days to come.
StopsLeft ==
    OneTaluk =>
        /\ pc = "start" => Cardinality(FreeOf(cands, tour, used)) >= Days - day + 1
        /\ pc = "fill" => /\ Len(picked) <= share
                          /\ Cardinality(FreeOf(cands, tour, used))
                               >= Days - day + share - Len(picked)

Unspent == picked = <<>> => spent = 0

EnoughInv == GreedyInv /\ Unspent /\ StopsLeft /\ EnoughFillsEveryDay

\* A share of enough leaves enough.
LEMMA ShareLeavesEnough ==
    ASSUME NEW left \in Nat \ {0}, NEW n \in Nat, n >= left
    PROVE  Share(n, left) \in Nat /\ n - Share(n, left) >= left - 1
<1>1. PICK k \in Nat : n = left + k
  <2>1. n - left \in Nat /\ n = left + (n - left)
    OBVIOUS
  <2> QED
    BY <2>1
<1>2. PICK q \in Int : q = (n + left - 1) \div left
  OBVIOUS
<1>3. left * q <= n + left - 1
  BY <1>2
<1>4. q <= k + 1
  <2>1. SUFFICES ASSUME q >= k + 2 PROVE FALSE
    OBVIOUS
  <2>2. left * (k + 2) <= left * q
    <3>1. PICK m \in Nat : q = k + 2 + m
      <4>1. q - (k + 2) \in Nat /\ q = k + 2 + (q - (k + 2))
        BY <2>1
      <4> QED
        BY <4>1
    <3>2. left * q = left * (k + 2) + left * m /\ left * m >= 0
      BY <3>1
    <3> QED
      BY <3>2
  <2>3. left * (k + 2) = left * k + 2 * left /\ left * k >= k
    OBVIOUS
  <2> QED
    BY <1>1, <1>3, <2>2, <2>3
<1>5. Share(n, left) = q
  BY <1>1, <1>2 DEF Share
<1>6. Share(n, left) \in Nat
  BY SharePositive
<1> QED
  BY <1>1, <1>4, <1>5, <1>6

\* A tour of one taluk has all that is free there to share out.
LEMMA OneTalukAtFirst ==
    ASSUME NEW c \in CandidateSets, NEW t \in Tours(c), Len(t) = 1, Cardinality(Stops(c)) >= Days
    PROVE  Cardinality(FreeOf(c, t, {})) >= Days
<1>1. IsFiniteSet(Stops(c)) /\ IsFiniteSet(Clusters(c))
  <2>1. Clusters(c) = {c[r].region : r \in Stops(c)}
    BY DEF Clusters
  <2> DEFINE f == [r \in Stops(c) |-> c[r].region]
  <2>2. f \in Surjection(Stops(c), Clusters(c))
    BY <2>1 DEF Surjection
  <2> HIDE DEF f
  <2> QED
    BY <2>2, StopsFinite, FS_Surjection
<1>2. FreeOf(c, t, {}) = Members(c, t[1])
  BY DEF FreeOf
<1>3. PICK n : n = Min({Days, Cardinality(Clusters(c))})
  OBVIOUS
<1>4. Days = 1 \/ Cardinality(Clusters(c)) = 1
  <2>1. Cardinality(Clusters(c)) \in Nat /\ Days \in Nat
    BY <1>1, FS_CardinalityType, DaysPositive
  <2>2. ASSUME NEW k \in Nat, NEW m \in Nat PROVE Min({k, m}) \in Nat /\ Min({k, m}) \in {k, m}
    BY <2>2 DEF Min
  <2>3. n \in Nat /\ n \in {Days, Cardinality(Clusters(c))}
    BY <1>3, <2>1, <2>2
  <2>4. DOMAIN t = 1..n
    BY <1>3 DEF Tours
  <2>5. Len(t) = n
    BY <2>3, <2>4, TourIsSequence
  <2> QED
    BY <2>3, <2>5
<1>5. t[1] \in Clusters(c)
  <2>1. t \in Seq(Regions)
    BY TourIsSequence
  <2>2. 1 \in DOMAIN t
    BY <2>1
  <2>3. t \in [1..n -> Clusters(c)]
    BY <1>3 DEF Tours
  <2> QED
    BY <2>2, <2>3
<1>6. CASE Days = 1
  <2>1. PICK r \in Stops(c) : c[r].region = t[1]
    BY <1>5 DEF Clusters
  <2>2. r \in Members(c, t[1]) /\ Members(c, t[1]) \subseteq Stops(c)
    BY <2>1 DEF Members
  <2>3. IsFiniteSet(Members(c, t[1]))
    BY <1>1, <2>2, FS_Subset
  <2>4. Cardinality(Members(c, t[1])) \in Nat /\ Cardinality(Members(c, t[1])) # 0
    BY <2>2, <2>3, FS_CardinalityType, FS_EmptySet
  <2> QED
    BY <1>2, <1>6, <2>4
<1>7. CASE Cardinality(Clusters(c)) = 1
  <2>1. \E g : Clusters(c) = {g}
    BY <1>1, <1>7, FS_Singleton
  <2>2. \A r \in Stops(c) : c[r].region = t[1]
    BY <1>5, <2>1 DEF Clusters
  <2>3. Members(c, t[1]) = Stops(c)
    BY <2>2 DEF Members
  <2> QED
    BY <1>2, <2>3
<1> QED
  BY <1>4, <1>6, <1>7

LEMMA FreeIsFinite ==
    ASSUME NEW c \in CandidateSets, NEW t, NEW u
    PROVE  IsFiniteSet(FreeOf(c, t, u)) /\ Cardinality(FreeOf(c, t, u)) \in Nat
<1>1. FreeOf(c, t, u) \subseteq Stops(c)
  BY DEF FreeOf, Members
<1> QED
  BY <1>1, StopsFinite, FS_Subset, FS_CardinalityType

LEMMA EnoughAtFirst == Init => EnoughInv
<1> SUFFICES ASSUME Init PROVE EnoughInv
  OBVIOUS
<1>1. GreedyInv /\ cands \in CandidateSets /\ tour \in Tours(cands) /\ used = {}
      /\ day = 1 /\ pc \in {"start", "done"}
  BY InitInv DEF Init
<1>2. StopsLeft
  BY <1>1, OneTalukAtFirst, DaysPositive DEF StopsLeft, OneTaluk
<1>3. Unspent
  BY DEF Init, Unspent
<1> QED
  BY <1>1, <1>2, <1>3 DEF EnoughInv, EnoughFillsEveryDay

LEMMA EnoughStartDay ==
    ASSUME EnoughInv, GreedyInv', StartDay
    PROVE  EnoughInv'
<1>1. /\ pc = "start" /\ pc' = "fill"
      /\ UNCHANGED <<cands, tour, day, picked, spent, used, days>>
      /\ pool' = {r \in Members(cands, Cluster(day)) : Free(r)}
      /\ share' = Share(Cardinality(pool'), Days - day + 1)
  BY DEF StartDay
<1>2. day \in 1..Days /\ picked = <<>> /\ cands \in CandidateSets
  BY <1>1 DEF EnoughInv, GreedyInv, Progress
<1>u. Unspent'
  BY <1>1 DEF EnoughInv, Unspent
<1>3. CASE OneTaluk
  <2>1. Cluster(day) = tour[1]
    BY <1>2, <1>3 DEF Cluster, OneTaluk
  <2>2. pool' = FreeOf(cands, tour, used)
    BY <1>1, <2>1 DEF FreeOf, Free
  <2>3. PICK n \in Nat : n = Cardinality(FreeOf(cands, tour, used))
    BY <1>2, FreeIsFinite
  <2>4. PICK left \in Nat \ {0} : left = Days - day + 1
    BY <1>2, DaysPositive
  <2>5. n >= left
    BY <1>1, <1>3, <2>3, <2>4 DEF EnoughInv, StopsLeft
  <2>6. share' = Share(n, left) /\ Share(n, left) \in Nat /\ n - Share(n, left) >= left - 1
    BY <1>1, <2>2, <2>3, <2>4, <2>5, ShareLeavesEnough
  <2>7. picked' = <<>> /\ Len(picked') = 0
    BY <1>1, <1>2
  <2>8. Cardinality(FreeOf(cands', tour', used')) = n
    BY <1>1, <2>3
  <2>9. n >= Days - day' + share' - Len(picked') /\ Len(picked') <= share'
    BY <1>1, <1>2, <2>4, <2>6, <2>7, DaysPositive
  <2>10. StopsLeft'
    BY <1>1, <2>8, <2>9 DEF StopsLeft
  <2>11. pool' # {}
    <3>1. PICK F : F = FreeOf(cands, tour, used)
      OBVIOUS
    <3>2. Cardinality(F) # 0
      BY <2>3, <2>4, <2>5, <3>1
    <3>3. F # {}
      BY <3>2, FS_EmptySet
    <3> QED
      BY <2>2, <3>1, <3>3
  <2> QED
    BY <1>u, <2>10, <2>11 DEF EnoughInv, EnoughFillsEveryDay
<1>4. CASE ~OneTaluk
  <2>1. ~OneTaluk'
    BY <1>1, <1>4, SameCandidates DEF OneTaluk
  <2> QED
    BY <1>u, <2>1 DEF EnoughInv, StopsLeft, EnoughFillsEveryDay, OneTaluk
<1> QED
  BY <1>3, <1>4

LEMMA EnoughTake ==
    ASSUME EnoughInv, GreedyInv', NEW r \in Refs, Take(r)
    PROVE  EnoughInv'
<1>1. /\ pc = "fill" /\ r \in pool /\ pool' = pool \ {r} /\ picked' = Append(picked, r)
      /\ used' = IF cands[r].repeatable THEN used ELSE used \cup {r}
      /\ UNCHANGED <<cands, tour, pc, day, budget, share, days>>
      /\ Len(picked) < share
  <2>1. /\ pc = "fill" /\ r \in pool /\ pool' = pool \ {r} /\ picked' = Append(picked, r)
        /\ used' = IF cands[r].repeatable THEN used ELSE used \cup {r}
        /\ UNCHANGED <<cands, tour, pc, day, budget, share, days>>
        /\ ~(Len(picked) >= share)
    BY DEF Take, Heaviest, Full
  <2>2. Len(picked) \in Nat /\ share \in Nat
    BY DEF EnoughInv, GreedyInv, TypeOK
  <2> QED
    BY <2>1, <2>2
<1>2. /\ picked \in Seq(Stops(cands)) /\ r \in Stops(cands) /\ cands \in CandidateSets
      /\ day \in 1..Days /\ share \in Nat
  BY <1>1 DEF EnoughInv, GreedyInv, TypeOK, Progress
<1>3. picked' # <<>> /\ Len(picked') = Len(picked) + 1 /\ Len(picked) \in Nat
  BY <1>1, <1>2, AppendProperties
<1>u. Unspent'
  BY <1>3 DEF Unspent
<1>4. CASE OneTaluk
  <2>1. PICK F : F = FreeOf(cands, tour, used)
    OBVIOUS
  <2>2. PICK G : G = FreeOf(cands', tour', used')
    OBVIOUS
  <2>3. IsFiniteSet(F) /\ Cardinality(F) \in Nat /\ IsFiniteSet(G) /\ Cardinality(G) \in Nat
    BY <1>1, <1>2, <2>1, <2>2, FreeIsFinite
  <2>4. F \ {r} \subseteq G
    BY <1>1, <2>1, <2>2 DEF FreeOf
  <2>5. Cardinality(F \ {r}) \in Nat /\ Cardinality(F \ {r}) >= Cardinality(F) - 1
    <3>1. Cardinality(F \ {r}) = IF r \in F THEN Cardinality(F) - 1 ELSE Cardinality(F)
      BY <2>3, FS_RemoveElement
    <3>2. Cardinality(F \ {r}) \in Nat
      BY <2>3, FS_RemoveElement, FS_CardinalityType
    <3> QED
      BY <2>3, <3>1, <3>2
  <2>6. Cardinality(F \ {r}) <= Cardinality(G)
    BY <2>3, <2>4, FS_Subset
  <2>7. Cardinality(F) >= Days - day + share - Len(picked)
    BY <1>1, <1>4, <2>1 DEF EnoughInv, StopsLeft
  <2>8. Cardinality(G) >= Days - day' + share' - Len(picked') /\ Len(picked') <= share'
    BY <1>1, <1>2, <1>3, <2>3, <2>5, <2>6, <2>7, DaysPositive
  <2>9. StopsLeft'
    BY <1>1, <2>2, <2>8 DEF StopsLeft
  <2> QED
    BY <1>3, <1>u, <2>9 DEF EnoughInv, EnoughFillsEveryDay
<1>5. CASE ~OneTaluk
  <2>1. ~OneTaluk'
    BY <1>1, <1>5, SameCandidates DEF OneTaluk
  <2> QED
    BY <1>u, <2>1 DEF EnoughInv, StopsLeft, EnoughFillsEveryDay, OneTaluk
<1> QED
  BY <1>4, <1>5

LEMMA EnoughSkip ==
    ASSUME EnoughInv, GreedyInv', NEW r \in Refs, Skip(r)
    PROVE  EnoughInv'
<1>1. /\ pc = "fill" /\ r \in pool /\ ~(spent + Cost(r) <= budget)
      /\ UNCHANGED <<cands, tour, pc, day, budget, share, picked, spent, used, days>>
  BY DEF Skip, Heaviest, Fits
<1>2. StopsLeft'
  BY <1>1, SameCandidates DEF EnoughInv, StopsLeft, OneTaluk
<1>3. Cost(r)' = Cost(r) /\ \A o \in Stops(cands) : Cost(o)' = Cost(o)
  BY <1>1 DEF Cost
<1>4. (\A o \in Stops(cands) : Cost(o) <= budget) => picked # <<>>
  <2> SUFFICES ASSUME \A o \in Stops(cands) : Cost(o) <= budget, picked = <<>> PROVE FALSE
    OBVIOUS
  <2>1. spent = 0
    BY DEF EnoughInv, Unspent
  <2>2. r \in Stops(cands) /\ Cost(r) \in Nat
    BY <1>1, CostIsMinutes DEF EnoughInv, GreedyInv, TypeOK
  <2> QED
    BY <1>1, <2>1, <2>2
<1>5. EnoughFillsEveryDay'
  BY <1>1, <1>3, <1>4, SameCandidates DEF EnoughFillsEveryDay
<1>6. Unspent'
  BY <1>1 DEF EnoughInv, Unspent
<1> QED
  BY <1>2, <1>5, <1>6 DEF EnoughInv

LEMMA EnoughEndDay ==
    ASSUME EnoughInv, GreedyInv', EndDay
    PROVE  EnoughInv'
<1>1. /\ pc = "fill" /\ day' = day + 1 /\ pc' = (IF day = Days THEN "done" ELSE "start")
      /\ picked' = <<>> /\ spent' = 0
      /\ UNCHANGED <<cands, tour, used>>
  BY DEF EndDay
<1>2. /\ day \in 1..Days /\ share \in Nat /\ Len(picked) \in Nat /\ cands \in CandidateSets
  BY <1>1 DEF EnoughInv, GreedyInv, TypeOK, Progress
<1>3. ASSUME OneTaluk'
      PROVE  Cardinality(FreeOf(cands', tour', used')) >= Days - day' + 1
  <2>1. OneTaluk
    BY <1>1, <1>3, SameCandidates DEF OneTaluk
  <2>2. PICK n \in Nat : n = Cardinality(FreeOf(cands, tour, used))
    BY <1>2, FreeIsFinite
  <2>3. n >= Days - day + share - Len(picked) /\ Len(picked) <= share
    BY <1>1, <2>1, <2>2 DEF EnoughInv, StopsLeft
  <2>4. n >= Days - day' + 1
    BY <1>1, <1>2, <2>3, DaysPositive
  <2> QED
    BY <1>1, <2>2, <2>4
<1>4. StopsLeft'
  BY <1>1, <1>3 DEF StopsLeft
<1>5. Unspent' /\ EnoughFillsEveryDay'
  BY <1>1 DEF Unspent, EnoughFillsEveryDay
<1> QED
  BY <1>4, <1>5 DEF EnoughInv

\* One taluk with a stop for every day is shared out so that no day which all its
\* stops would fit goes without, whatever order the stops are taken in and
\* whatever the days before it took (compose_greedy.py:164-168).
THEOREM EnoughForEveryDay == Spec => []EnoughFillsEveryDay
<1>1. EnoughInv /\ [Next]_vars => EnoughInv'
  <2> SUFFICES ASSUME EnoughInv, [Next]_vars PROVE EnoughInv'
    OBVIOUS
  <2>1. GreedyInv'
    BY NextInv DEF EnoughInv
  <2>2. CASE StartDay
    BY <2>1, <2>2, EnoughStartDay
  <2>3. ASSUME NEW r \in Refs, Take(r) PROVE EnoughInv'
    BY <2>1, <2>3, EnoughTake
  <2>4. ASSUME NEW r \in Refs, Skip(r) PROVE EnoughInv'
    BY <2>1, <2>4, EnoughSkip
  <2>5. CASE EndDay
    BY <2>1, <2>5, EnoughEndDay
  <2>6. CASE UNCHANGED vars
    <3>1. UNCHANGED <<cands, tour, pc, day, pool, budget, share, picked, spent, used, days>>
      BY <2>6 DEF vars
    <3>2. \A o \in Stops(cands) : Cost(o)' = Cost(o)
      BY <3>1 DEF Cost
    <3>3. StopsLeft' /\ Unspent'
      BY <3>1, SameCandidates DEF EnoughInv, StopsLeft, OneTaluk, Unspent
    <3>4. EnoughFillsEveryDay'
      BY <3>1, <3>2, SameCandidates DEF EnoughInv, EnoughFillsEveryDay
    <3> QED
      BY <2>1, <3>3, <3>4 DEF EnoughInv
  <2> QED
    BY <2>2, <2>3, <2>4, <2>5, <2>6 DEF Next
<1>2. EnoughInv => EnoughFillsEveryDay
  BY DEF EnoughInv
<1> QED
  BY EnoughAtFirst, <1>1, <1>2, PTL DEF Spec

-----------------------------------------------------------------------------
(* The minutes of a day. *)

\* Counting up to n.
LEMMA Counting ==
    ASSUME NEW n \in Nat, NEW P, 0 \in P, \A k \in 1..n : k - 1 \in P => k \in P
    PROVE  0..n \subseteq P
<1> DEFINE R == {ss \in Nat \X Nat : ss[1] < ss[2]}
           Missed == (0..n) \ P
<1>1. R = OpToRel(<, Nat)
  BY DEF OpToRel
<1>2. IsWellFoundedOn(R, Nat)
  BY <1>1, NatLessThanWellFounded
<1>3. SUFFICES ASSUME Missed # {} PROVE FALSE
  OBVIOUS
<1>4. Missed \subseteq Nat
  OBVIOUS
<1> HIDE DEF R, Missed
<1>5. PICK m \in Missed : \A k \in Missed : ~ (<<k, m>> \in R)
  BY <1>2, <1>3, <1>4, WFMin
<1>6. m \in 1..n /\ m - 1 \in 0..n
  BY <1>5 DEF Missed
<1>7. <<m - 1, m>> \in R
  BY <1>6 DEF R
<1>8. m - 1 \in P
  BY <1>5, <1>6, <1>7 DEF Missed
<1> QED
  BY <1>5, <1>6, <1>8 DEF Missed

\* g adds f up over any set of positions, one position at a time.
Adds(g, f, n) ==
    /\ g[{}] = 0
    /\ \A s \in SUBSET (1..n) : \A x \in s : g[s] = f[x] + g[s \ {x}]

LEMMA SomethingAdds ==
    ASSUME NEW n \in Nat, NEW f \in [1..n -> Nat]
    PROVE  \E g \in [SUBSET (1..n) -> Nat] : Adds(g, f, n)
<1>1. PICK P : P = {m \in 0..n : \E g \in [SUBSET (1..m) -> Nat] : Adds(g, f, m)}
  OBVIOUS
<1>2. 0 \in P
  <2>1. PICK g : g = [s \in SUBSET (1..0) |-> 0]
    OBVIOUS
  <2>2. g \in [SUBSET (1..0) -> Nat] /\ \A s \in SUBSET (1..0) : s = {}
    BY <2>1
  <2>3. Adds(g, f, 0)
    BY <2>1, <2>2 DEF Adds
  <2>4. \E h \in [SUBSET (1..0) -> Nat] : Adds(h, f, 0)
    BY <2>2, <2>3
  <2>5. 0 \in 0..n
    OBVIOUS
  <2> QED
    BY <1>1, <2>4, <2>5
<1>3. ASSUME NEW m \in 1..n, m - 1 \in P
      PROVE  m \in P
  <2>1. PICK g \in [SUBSET (1..(m - 1)) -> Nat] : Adds(g, f, m - 1)
    BY <1>1, <1>3
  <2>2. PICK h : h = [s \in SUBSET (1..m) |-> IF m \in s THEN f[m] + g[s \ {m}] ELSE g[s]]
    OBVIOUS
  <2>3. ASSUME NEW s \in SUBSET (1..m)
        PROVE  /\ s \ {m} \in SUBSET (1..(m - 1)) /\ (m \notin s => s \in SUBSET (1..(m - 1)))
               /\ g[s \ {m}] \in Nat
    <3>1. s \ {m} \in SUBSET (1..(m - 1)) /\ (m \notin s => s \in SUBSET (1..(m - 1)))
      OBVIOUS
    <3> QED
      BY <2>1, <3>1
  <2>4. h \in [SUBSET (1..m) -> Nat]
    <3>1. ASSUME NEW s \in SUBSET (1..m)
          PROVE  (IF m \in s THEN f[m] + g[s \ {m}] ELSE g[s]) \in Nat
      <4>1. f[m] \in Nat
        OBVIOUS
      <4>2. CASE m \in s
        <5>1. g[s \ {m}] \in Nat
          BY <2>3
        <5> QED
          BY <4>1, <4>2, <5>1
      <4>3. CASE m \notin s
        BY <2>1, <2>3, <4>3
      <4> QED
        BY <4>2, <4>3
    <3> QED
      BY <2>2, <3>1
  <2>5. h[{}] = 0
    <3>1. {} \in SUBSET (1..m) /\ m \notin {}
      OBVIOUS
    <3> QED
      BY <2>1, <2>2, <3>1 DEF Adds
  <2>6. ASSUME NEW s \in SUBSET (1..m), NEW x \in s
        PROVE  h[s] = f[x] + h[s \ {x}]
    <3>1. s \ {x} \in SUBSET (1..m) /\ x \in 1..m
      OBVIOUS
    <3>2. CASE m \notin s
      <4>1. s \in SUBSET (1..(m - 1)) /\ m \notin s \ {x}
        BY <2>3, <3>2
      <4>2. g[s] = f[x] + g[s \ {x}]
        BY <2>1, <4>1 DEF Adds
      <4>3. h[s] = g[s] /\ h[s \ {x}] = g[s \ {x}]
        BY <2>2, <3>1, <3>2, <4>1
      <4> QED
        BY <4>2, <4>3
    <3>3. CASE m \in s /\ x = m
      <4>1. h[s] = f[m] + g[s \ {m}]
        BY <2>2, <3>3
      <4>2. h[s \ {m}] = g[s \ {m}]
        BY <2>2, <3>1, <3>3
      <4> QED
        BY <3>3, <4>1, <4>2
    <3>4. CASE m \in s /\ x # m
      <4>1. PICK u : u = s \ {m}
        OBVIOUS
      <4>2. u \in SUBSET (1..(m - 1)) /\ x \in u
        BY <2>3, <3>4, <4>1
      <4>3. g[u] = f[x] + g[u \ {x}]
        BY <2>1, <4>2 DEF Adds
      <4>4. h[s] = f[m] + g[u]
        BY <2>2, <3>4, <4>1
      <4>5. h[s \ {x}] = f[m] + g[u \ {x}]
        <5>1. m \in s \ {x} /\ (s \ {x}) \ {m} = u \ {x}
          BY <3>4, <4>1
        <5> QED
          BY <2>2, <3>1, <5>1
      <4>6. f[m] \in Nat /\ f[x] \in Nat /\ g[u \ {x}] \in Nat
        <5>1. u \ {x} \in SUBSET (1..(m - 1)) /\ x \in 1..n
          BY <3>1, <4>2
        <5> QED
          BY <2>1, <5>1
      <4> QED
        BY <4>3, <4>4, <4>5, <4>6
    <3> QED
      BY <3>2, <3>3, <3>4
  <2>7. Adds(h, f, m)
    BY <2>5, <2>6 DEF Adds
  <2> QED
    BY <1>1, <2>4, <2>7
<1>4. n \in P
  <2>1. 0..n \subseteq P
    BY <1>2, <1>3, Counting
  <2> QED
    BY <2>1
<1> QED
  BY <1>1, <1>4

\* sum adds up the position that next picks, then the rest.
Unrolls(sum, f, next, n) ==
    /\ sum[{}] = 0
    /\ \A s \in (SUBSET (1..n)) \ {{}} :
          next[s] \in s /\ sum[s] = f[next[s]] + sum[s \ {next[s]}]

Totals(g, f, n) == f \in [1..n -> Nat] /\ g \in [SUBSET (1..n) -> Nat] /\ Adds(g, f, n)

\* Whatever picks the next position, the sum is the same.
LEMMA AddedInAnyOrder ==
    ASSUME NEW n \in Nat, NEW f, NEW g, Totals(g, f, n),
           NEW next, NEW sum, Unrolls(sum, f, next, n)
    PROVE  sum[1..n] = g[1..n]
<1>0. f \in [1..n -> Nat] /\ g \in [SUBSET (1..n) -> Nat] /\ Adds(g, f, n)
  BY DEF Totals
<1>1. PICK P : P = {m \in 0..n : \A s \in SUBSET (1..n) : Cardinality(s) = m => sum[s] = g[s]}
  OBVIOUS
<1>2. IsFiniteSet(1..n) /\ Cardinality(1..n) = n
  <2>1. IsFiniteSet(1..n) /\ Cardinality(1..n) = IF 1 > n THEN 0 ELSE n - 1 + 1
    <3>1. 1 \in Int /\ n \in Int
      OBVIOUS
    <3> QED
      BY <3>1, FS_Interval
  <2> QED
    BY <2>1
<1>3. \A s \in SUBSET (1..n) : IsFiniteSet(s)
  BY <1>2, FS_Subset
<1>4. 0 \in P
  <2>1. \A s \in SUBSET (1..n) : Cardinality(s) = 0 => s = {}
    BY <1>3, FS_EmptySet
  <2>2. sum[{}] = g[{}]
    BY <1>0 DEF Adds, Unrolls
  <2>3. \A s \in SUBSET (1..n) : Cardinality(s) = 0 => sum[s] = g[s]
    BY <2>1, <2>2
  <2>4. 0 \in 0..n
    OBVIOUS
  <2> QED
    BY <1>1, <2>3, <2>4
<1>5. ASSUME NEW m \in 1..n, m - 1 \in P
      PROVE  m \in P
  <2>1. ASSUME NEW s \in SUBSET (1..n), Cardinality(s) = m
        PROVE  sum[s] = g[s]
    <3>1. s # {}
      <4>1. Cardinality(s) # 0
        BY <2>1
      <4> QED
        BY <4>1, FS_EmptySet
    <3>2. PICK x : x = next[s]
      OBVIOUS
    <3>3. x \in s /\ sum[s] = f[x] + sum[s \ {x}]
      BY <3>1, <3>2 DEF Unrolls
    <3>4. PICK rest \in SUBSET (1..n) : rest = s \ {x}
      OBVIOUS
    <3>5. Cardinality(rest) = m - 1
      BY <1>3, <2>1, <3>3, <3>4, FS_RemoveElement
    <3>6. sum[rest] = g[rest]
      BY <1>1, <1>5, <3>5
    <3>7. g[s] = f[x] + g[rest]
      BY <1>0, <3>3, <3>4 DEF Adds
    <3> QED
      BY <3>3, <3>4, <3>6, <3>7
  <2> QED
    BY <1>1, <2>1
<1>6. n \in P
  <2>1. 0..n \subseteq P
    BY <1>4, <1>5, Counting
  <2> QED
    BY <2>1
<1>7. 1..n \in SUBSET (1..n)
  OBVIOUS
<1> QED
  BY <1>1, <1>2, <1>6, <1>7

\* MinutesOf adds up the minutes of a day's stops.
LEMMA MinutesAre ==
    ASSUME NEW c \in CandidateSets, NEW d, NEW n \in Nat, d.items \in Seq(Stops(c)), n = Len(d.items),
           NEW f \in [1..n -> Nat], \A k \in 1..n : f[k] = c[d.items[k]].minutes,
           NEW g \in [SUBSET (1..n) -> Nat], Adds(g, f, n)
    PROVE  MinutesOf(d, c) = g[1..n]
<1>1. PICK S : S = {k \in 1..Len(d.items) : Known(c, d.items[k]) /\ c[d.items[k]].kind # "stay"}
  OBVIOUS
<1>2. S = 1..n
  <2>1. \A k \in 1..n : d.items[k] \in Stops(c)
    OBVIOUS
  <2> QED
    BY <1>1, <2>1 DEF Stops, Stays, Known
<1> DEFINE sum == CHOOSE h : h = [s \in SUBSET S |-> IF s = {} THEN 0
                    ELSE c[d.items[CHOOSE x \in s : TRUE]].minutes + h[s \ {CHOOSE x \in s : TRUE}]]
<1>3. MinutesOf(d, c) = sum[S]
  BY <1>1 DEF MinutesOf, MapThenSumSet, MapThenFoldSet
<1>4. PICK next : next = [s \in (SUBSET (1..n)) \ {{}} |-> CHOOSE x \in s : TRUE]
  OBVIOUS
<1>5. ASSUME NEW s \in (SUBSET (1..n)) \ {{}}
      PROVE  next[s] \in s /\ next[s] \in 1..n /\ next[s] = CHOOSE x \in s : TRUE
  BY <1>4
<1>7. g = [s \in SUBSET S |-> IF s = {} THEN 0
            ELSE c[d.items[CHOOSE x \in s : TRUE]].minutes + g[s \ {CHOOSE x \in s : TRUE}]]
  <2>1. ASSUME NEW s \in SUBSET (1..n)
        PROVE  g[s] = IF s = {} THEN 0
                      ELSE c[d.items[CHOOSE x \in s : TRUE]].minutes + g[s \ {CHOOSE x \in s : TRUE}]
    <3>1. CASE s = {}
      BY <3>1 DEF Adds
    <3>2. CASE s # {}
      <4>1. PICK y \in s : y = CHOOSE x \in s : TRUE
        BY <3>2
      <4>2. g[s] = f[y] + g[s \ {y}] /\ f[y] = c[d.items[y]].minutes
        BY DEF Adds
      <4> QED
        BY <3>2, <4>1, <4>2
    <3> QED
      BY <3>1, <3>2
  <2>2. g = [s \in SUBSET (1..n) |-> g[s]]
    OBVIOUS
  <2> QED
    BY <1>2, <2>1, <2>2
<1>8. sum = [s \in SUBSET S |-> IF s = {} THEN 0
              ELSE c[d.items[CHOOSE x \in s : TRUE]].minutes + sum[s \ {CHOOSE x \in s : TRUE}]]
  BY <1>7
<1> HIDE DEF sum
<1>9. sum[{}] = 0
  BY <1>8
<1>10. ASSUME NEW s \in (SUBSET (1..n)) \ {{}}
       PROVE  sum[s] = f[next[s]] + sum[s \ {next[s]}]
  <2>1. PICK y : y = next[s]
    OBVIOUS
  <2>2. y \in 1..n /\ y = CHOOSE x \in s : TRUE
    BY <1>5, <2>1
  <2>3. f[y] = c[d.items[y]].minutes
    BY <2>2
  <2>4. s \in SUBSET S /\ s # {}
    BY <1>2
  <2>5. sum[s] = c[d.items[y]].minutes + sum[s \ {y}]
    BY <1>8, <2>2, <2>4
  <2> QED
    BY <2>1, <2>3, <2>5
<1>11. sum[1..n] = g[1..n]
  <2>1. Unrolls(sum, f, next, n)
    BY <1>5, <1>9, <1>10 DEF Unrolls
  <2> QED
    <3>1. PICK total : total = sum
      OBVIOUS
    <3>2. Unrolls(total, f, next, n) /\ Totals(g, f, n)
      BY <2>1, <3>1 DEF Totals
    <3>3. total[1..n] = g[1..n]
      BY <3>2, AddedInAnyOrder
    <3> QED
      BY <3>1, <3>3
<1> QED
  BY <1>2, <1>3, <1>11

\* What a stop costs, of any candidate set, and the minutes of some stops.
CostOf(c, r) == IF c[r].minutes = 0 THEN DefaultMinutes ELSE c[r].minutes

Tallied(c, stops, minutes) ==
    \E a \in [0..Len(stops) -> Nat] :
        /\ a[0] = 0 /\ \A k \in 1..Len(stops) : a[k] = a[k - 1] + CostOf(c, stops[k])
        /\ minutes = a[Len(stops)]

\* What is spent is what today's stops cost.
PackInv == GreedyInv /\ Tallied(cands, picked, spent) /\ NeverPacked

LEMMA CostOfIsMinutes ==
    ASSUME NEW c \in CandidateSets, NEW r \in Stops(c)
    PROVE  CostOf(c, r) \in Nat /\ c[r].minutes \in Nat /\ c[r].minutes <= CostOf(c, r)
<1>1. c[r] \in Candidate
  BY CandidatesHaveRefs DEF Stops
<1>2. c[r].minutes \in Nat
  BY <1>1 DEF Candidate
<1> QED
  BY <1>2, ApproachesAreMinutes DEF CostOf

LEMMA NothingTallied == \A c : Tallied(c, <<>>, 0)
<1> SUFFICES ASSUME NEW c PROVE Tallied(c, <<>>, 0)
  OBVIOUS
<1>1. PICK a : a = [k \in 0..0 |-> 0]
  OBVIOUS
<1>2. a \in [0..0 -> Nat] /\ a[0] = 0 /\ Len(<<>>) = 0
  BY <1>1
<1> QED
  BY <1>2 DEF Tallied

LEMMA OneStopMore ==
    ASSUME NEW c \in CandidateSets, NEW stops \in Seq(Stops(c)), NEW r \in Stops(c),
           NEW minutes, Tallied(c, stops, minutes)
    PROVE  Tallied(c, Append(stops, r), minutes + CostOf(c, r))
<1>1. PICK n \in Nat : n = Len(stops)
  OBVIOUS
<1>2. PICK more : more = Append(stops, r)
  OBVIOUS
<1>3. Len(more) = n + 1 /\ more[n + 1] = r /\ \A k \in 1..n : more[k] = stops[k]
  BY <1>1, <1>2, AppendProperties
<1>4. PICK a \in [0..n -> Nat] :
        /\ a[0] = 0 /\ \A k \in 1..n : a[k] = a[k - 1] + CostOf(c, stops[k])
        /\ minutes = a[n]
  BY <1>1 DEF Tallied
<1>5. PICK cost \in Nat : cost = CostOf(c, r)
  BY CostOfIsMinutes
<1>6. PICK b : b = [k \in 0..(n + 1) |-> IF k = n + 1 THEN a[n] + cost ELSE a[k]]
  OBVIOUS
<1>7. b \in [0..(n + 1) -> Nat] /\ b[n + 1] = a[n] + cost /\ \A k \in 0..n : b[k] = a[k]
  BY <1>4, <1>6
<1>8. ASSUME NEW k \in 1..(n + 1)
      PROVE  b[k] = b[k - 1] + CostOf(c, more[k])
  <2>1. CASE k = n + 1
    <3>1. k - 1 = n /\ n \in 0..n
      BY <2>1
    <3> QED
      BY <1>3, <1>5, <1>7, <2>1, <3>1
  <2>2. CASE k # n + 1
    <3>1. k \in 1..n /\ k \in 0..n /\ k - 1 \in 0..n
      BY <2>2
    <3>2. a[k] = a[k - 1] + CostOf(c, stops[k])
      BY <1>4, <3>1
    <3> QED
      BY <1>3, <1>7, <3>1, <3>2
  <2> QED
    BY <2>1, <2>2
<1>9. b[0] = 0
  BY <1>4, <1>7
<1>10. minutes + CostOf(c, r) = b[n + 1]
  BY <1>4, <1>5, <1>7
<1> QED
  BY <1>2, <1>3, <1>7, <1>8, <1>9, <1>10 DEF Tallied

\* A day's minutes are no more than what its stops cost.
LEMMA MinutesCost ==
    ASSUME NEW c \in CandidateSets, NEW d, d.items \in Seq(Stops(c)),
           NEW minutes, Tallied(c, d.items, minutes)
    PROVE  MinutesOf(d, c) \in Nat /\ minutes \in Nat /\ MinutesOf(d, c) <= minutes
<1>1. PICK n \in Nat : n = Len(d.items)
  OBVIOUS
<1>2. PICK a \in [0..n -> Nat] :
        /\ a[0] = 0 /\ \A k \in 1..n : a[k] = a[k - 1] + CostOf(c, d.items[k])
        /\ minutes = a[n]
  BY <1>1 DEF Tallied
<1>3. PICK f : f = [k \in 1..n |-> c[d.items[k]].minutes]
  OBVIOUS
<1>4. \A k \in 1..n : f[k] = c[d.items[k]].minutes /\ f[k] \in Nat /\ f[k] <= CostOf(c, d.items[k])
                      /\ CostOf(c, d.items[k]) \in Nat
  <2>1. \A k \in 1..n : d.items[k] \in Stops(c)
    BY <1>1
  <2> QED
    BY <1>3, <2>1, CostOfIsMinutes
<1>5. f \in [1..n -> Nat]
  BY <1>3, <1>4
<1>6. PICK g \in [SUBSET (1..n) -> Nat] : Adds(g, f, n)
  BY <1>5, SomethingAdds
<1>7. MinutesOf(d, c) = g[1..n]
  BY <1>1, <1>4, <1>5, <1>6, MinutesAre
<1>8. PICK P : P = {k \in 0..n : g[1..k] <= a[k]}
  OBVIOUS
<1>9. 0 \in P
  <2>1. 1..0 = {} /\ 0 \in 0..n
    OBVIOUS
  <2>2. g[1..0] = 0
    BY <1>6, <2>1 DEF Adds
  <2> QED
    BY <1>2, <1>8, <2>1, <2>2
<1>10. ASSUME NEW k \in 1..n, k - 1 \in P
       PROVE  k \in P
  <2>1. PICK s \in SUBSET (1..n) : s = 1..k
    OBVIOUS
  <2>2. PICK rest \in SUBSET (1..n) : rest = 1..(k - 1)
    OBVIOUS
  <2>3. k \in s /\ s \ {k} = rest
    BY <2>1, <2>2
  <2>4. g[s] = f[k] + g[rest]
    BY <1>6, <2>3 DEF Adds
  <2>5. g[rest] <= a[k - 1]
    BY <1>8, <1>10, <2>2
  <2>6. a[k] = a[k - 1] + CostOf(c, d.items[k])
    BY <1>2
  <2>7. PICK cost \in Nat : cost = CostOf(c, d.items[k])
    BY <1>4
  <2>8. f[k] \in Nat /\ f[k] <= cost
    BY <1>4, <2>7
  <2>9. g[rest] \in Nat /\ a[k - 1] \in Nat
    BY <1>2, <1>6
  <2>10. g[s] <= a[k] /\ k \in 0..n
    BY <2>4, <2>5, <2>6, <2>7, <2>8, <2>9
  <2> QED
    BY <1>8, <2>1, <2>10
<1>11. n \in P
  <2>1. 0..n \subseteq P
    BY <1>9, <1>10, Counting
  <2> QED
    BY <2>1
<1>12. g[1..n] \in Nat /\ a[n] \in Nat
  <2>1. 1..n \in SUBSET (1..n) /\ n \in 0..n
    OBVIOUS
  <2> QED
    BY <1>2, <1>6, <2>1
<1> QED
  BY <1>2, <1>7, <1>8, <1>11, <1>12

\* No day the fallback composes is longer than a day: it never earns the
\* over_time_budget warning that a model's draft may (compose_greedy.py, the
\* budget of a day; validate.py, over_time_budget).
THEOREM DaysAreNotPacked == Spec => []NeverPacked
<1>1. Init => PackInv
  <2> SUFFICES ASSUME Init PROVE PackInv
    OBVIOUS
  <2>1. picked = <<>> /\ spent = 0 /\ days = <<>>
    BY DEF Init
  <2> QED
    BY <2>1, InitInv, NothingTallied DEF PackInv, NeverPacked
<1>2. PackInv /\ [Next]_vars => PackInv'
  <2> SUFFICES ASSUME PackInv, [Next]_vars PROVE PackInv'
    OBVIOUS
  <2>1. GreedyInv' /\ GreedyInv
    BY NextInv DEF PackInv
  <2>2. ASSUME UNCHANGED <<cands, days>> PROVE NeverPacked'
    BY <2>2 DEF PackInv, NeverPacked
  <2>3. ASSUME UNCHANGED <<cands, picked, spent>> PROVE Tallied(cands', picked', spent')
    BY <2>3 DEF PackInv
  <2>4. CASE StartDay
    <3>1. UNCHANGED <<cands, days, picked, spent>>
      BY <2>4 DEF StartDay
    <3> QED
      BY <2>1, <2>2, <2>3, <3>1 DEF PackInv
  <2>5. ASSUME NEW r \in Refs, Take(r) PROVE PackInv'
    <3>1. /\ picked' = Append(picked, r) /\ spent' = spent + Cost(r)
          /\ UNCHANGED <<cands, days>> /\ r \in pool
      BY <2>5 DEF Take, Heaviest
    <3>2. r \in Stops(cands) /\ picked \in Seq(Stops(cands)) /\ cands \in CandidateSets
      BY <2>1, <3>1 DEF GreedyInv, TypeOK, Progress
    <3>3. Cost(r) = CostOf(cands, r)
      BY DEF Cost, CostOf
    <3>4. Tallied(cands, picked', spent')
      BY <3>1, <3>2, <3>3, OneStopMore DEF PackInv
    <3>5. Tallied(cands', picked', spent')
      BY <3>1, <3>4
    <3> QED
      BY <2>1, <2>2, <3>1, <3>5 DEF PackInv
  <2>6. ASSUME NEW r \in Refs, Skip(r) PROVE PackInv'
    <3>1. UNCHANGED <<cands, days, picked, spent>>
      BY <2>6 DEF Skip
    <3> QED
      BY <2>1, <2>2, <2>3, <3>1 DEF PackInv
  <2>7. CASE EndDay
    <3>1. PICK stay \in Beds :
            days' = Append(days, [number |-> day, stay |-> stay, items |-> picked])
      BY <2>7 DEF EndDay
    <3>2. picked' = <<>> /\ spent' = 0 /\ cands' = cands
      BY <2>7 DEF EndDay
    <3>3. PICK today : today = [number |-> day, stay |-> stay, items |-> picked]
      OBVIOUS
    <3>4. /\ picked \in Seq(Stops(cands)) /\ cands \in CandidateSets
          /\ spent \in Nat /\ budget \in 0..DayMinutes /\ spent <= budget
      BY <2>1 DEF GreedyInv, TypeOK, Progress
    <3>5. MinutesOf(today, cands) \in Nat /\ MinutesOf(today, cands) <= spent
      <4>1. today.items = picked
        BY <3>3
      <4> QED
        BY <3>4, <4>1, MinutesCost DEF PackInv
    <3>6. MinutesOf(today, cands) <= DayMinutes
      BY <3>4, <3>5, DaysPositive
    <3>7. days \in Seq(Day)
      BY <2>1 DEF GreedyInv, TypeOK, Draft
    <3>8. /\ Len(days') = Len(days) + 1 /\ days'[Len(days) + 1] = today
          /\ \A i \in 1..Len(days) : days'[i] = days[i]
      BY <3>1, <3>3, <3>7
    <3>9. \A i \in 1..Len(days') : MinutesOf(days'[i], cands) <= DayMinutes
      <4>1. \A i \in 1..Len(days') : i \in 1..Len(days) \/ i = Len(days) + 1
        BY <3>7, <3>8
      <4>2. \A i \in 1..Len(days) : MinutesOf(days[i], cands) <= DayMinutes
        BY DEF PackInv, NeverPacked
      <4> QED
        BY <3>6, <3>8, <4>1, <4>2
    <3>10. NeverPacked'
      BY <3>2, <3>9 DEF NeverPacked
    <3>11. Tallied(cands', picked', spent')
      BY <3>2, NothingTallied
    <3> QED
      BY <2>1, <3>10, <3>11 DEF PackInv
  <2>8. CASE UNCHANGED vars
    <3>1. UNCHANGED <<cands, days, picked, spent>>
      BY <2>8 DEF vars
    <3> QED
      BY <2>1, <2>2, <2>3, <3>1 DEF PackInv
  <2> QED
    BY <2>4, <2>5, <2>6, <2>7, <2>8 DEF Next
<1>3. PackInv => NeverPacked
  BY DEF PackInv
<1> QED
  BY <1>1, <1>2, <1>3, PTL DEF Spec

=============================================================================
