--------------------------- MODULE JobQueue_proofs ---------------------------
(* Theorems about JobQueue and about PlanPage, the page that watches it, for *)
(* every number of jobs and workers and every timeout, backoff schedule and  *)
(* fault budget.                                                             *)
(*                                                                           *)
(* In this order: types; the shape of single steps; saving and stopping,     *)
(* which hold even if a run outlasts its lock; then, for MaxRun <=           *)
(* LockTimeout, ownership, settlement, surplus attempts, the refinement of   *)
(* JobLifecycle, and the page.                                               *)
EXTENDS JobQueueLifecycle, PlanPage, FiniteSetTheorems, TLAPS

-----------------------------------------------------------------------------
(* Helpers: what the record-building operators return. *)

LEMMA ReleasedIsRow ==
  ASSUME NEW r \in Row, NEW s \in Status
  PROVE  /\ Released(r, s) \in Row
         /\ Released(r, s).status = s
         /\ Released(r, s).attempts = r.attempts
         /\ Released(r, s).error = r.error
         /\ Released(r, s).stage = "none"
         /\ Released(r, s).lockedBy = NoWorker
         /\ Released(r, s).age = 0
<1>1. "none" \in Stage /\ 0 \in 0 .. LockTimeout + 1
  BY NumbersAssumption DEF Stage
<1>2. Released(r, s) \in Row
  BY <1>1 DEF Released, Row
<1> QED BY <1>2 DEF Released, Row

\* The names each statement writes, and the program counters' partition.
LEMMA Names ==
  /\ {"absent", "queued", "running", "succeeded", "failed"} \subseteq Status
  /\ {"none", "retrieval", "assemble"} \subseteq Stage
  /\ {"none", "transient", "engine"} \subseteq Error
  /\ \A pc \in Loop \cup Off : pc \notin Working
  /\ {"poll", "claim"} \subseteq Loop
  /\ {"stopped", "down", "detached"} \subseteq Off
  /\ {"load", "generate", "stage", "save", "insert", "succeed", "fail"} \subseteq Working
BY DEF Status, Stage, Error, Loop, Off, Working

LEMMA IdleIsWorkerState ==
  ASSUME NEW pc \in Loop \cup Off
  PROVE  At(pc) \in WorkerState /\ WellFormed(At(pc)) /\ At(pc).pc = pc
BY NumbersAssumption, Names DEF At, WorkerState, WellFormed

LEMMA ClaimedIsRow ==
  ASSUME NEW r \in Row, NEW w \in Workers
  PROVE  /\ Claimed(r, w) \in Row
         /\ Claimed(r, w).status = "running"
         /\ Claimed(r, w).lockedBy = w
         /\ Claimed(r, w).age = 0
         /\ Claimed(r, w).attempts = r.attempts + 1
<1>1. /\ "running" \in Status /\ "retrieval" \in Stage /\ "none" \in Error
      /\ 0 \in 0 .. LockTimeout + 1 /\ r.attempts + 1 \in Nat
  BY Names, NumbersAssumption DEF Row
<1> QED BY <1>1 DEF Claimed, Row

LEMMA FailedIsRow ==
  ASSUME NEW w \in Workers, NEW s \in Status, row[Job(w)] \in Row
  PROVE  /\ FailedRow(w, s) \in Row
         /\ FailedRow(w, s).status = s
         /\ FailedRow(w, s).attempts = row[Job(w)].attempts
<1>1. {"transient", "engine"} \subseteq Error
  BY Names
<1> QED BY <1>1, ReleasedIsRow DEF FailedRow, Row

LEMMA ScheduleType ==
  ASSUME NEW j \in Jobs, NEW delay \in Nat, TypeOK, Schedule(j, delay)
  PROVE  wait' \in [Jobs -> Nat] /\ earlier' \subseteq Jobs \X Jobs
BY DEF Schedule, TypeOK

\* A retry's delay is one of the schedule's.
LEMMA RetryIsScheduled ==
  ASSUME TypeOK, NEW w \in Workers, FailRetry(w)
  PROVE  wait' \in [Jobs -> Nat] /\ earlier' \subseteq Jobs \X Jobs
<1>1. Job(w) \in Jobs /\ worker[w].attempt \in Nat \ {0}
  BY Names DEF TypeOK, FailRetry, WellFormed, Job, WorkerState
<1>2. worker[w].attempt \in 1 .. MaxAttempts
  BY <1>1, NumbersAssumption DEF FailRetry, WillRetry, IsFinalAttempt
<1>3. Backoff[worker[w].attempt] \in Nat
  BY <1>2, NumbersAssumption
<1> QED BY <1>1, <1>3, ScheduleType DEF FailRetry

\* The versions of j are 1..n for some n, and a saver that has read its
\* version will insert one of those or the next.
Dense(j) ==
  \E n \in Nat : /\ versions[j] = 1 .. n
                 /\ \A w \in Workers :
                      worker[w].job = j /\ worker[w].pc = "insert"
                        => worker[w].version \in 1 .. n + 1

TypeInv == TypeOK /\ \A j \in Jobs : Dense(j)

LEMMA NextVersionAfter ==
  ASSUME NEW j, NEW n \in Nat, versions[j] = 1 .. n
  PROVE  NextVersion(j) = n + 1
<1>1. CASE n = 0
  BY <1>1 DEF NextVersion
<1>2. CASE n > 0
  <2>1. n \in versions[j] /\ \A u \in versions[j] : u <= n
    BY <1>2
  <2>2. \A v \in versions[j] : (\A u \in versions[j] : u <= v) => v = n
    BY <2>1
  <2>3. (CHOOSE v \in versions[j] : \A u \in versions[j] : u <= v) = n
    BY <2>1, <2>2
  <2> QED BY <1>2, <2>1, <2>3 DEF NextVersion
<1> QED BY <1>1, <1>2

-----------------------------------------------------------------------------
(* Type correctness. *)

LEMMA InitType == Init => TypeInv
<1> SUFFICES ASSUME Init PROVE TypeInv
  OBVIOUS
<1>1. AbsentRow \in Row
  BY NumbersAssumption DEF AbsentRow, Row, Status, Stage, Error
<1>2. At("poll") \in WorkerState /\ WellFormed(At("poll")) /\ At("poll").pc = "poll"
  BY IdleIsWorkerState DEF Loop
<1>3. TypeOK
  BY <1>1, <1>2, NumbersAssumption, SetsAssumption
  DEF Init, TypeOK
<1>4. ASSUME NEW j \in Jobs PROVE Dense(j)
  <2>1. versions[j] = 1 .. 0
    BY DEF Init
  <2> QED BY <2>1, <1>2 DEF Init, Dense
<1> QED BY <1>3, <1>4 DEF TypeInv

\* Replacing one worker's state by a well-formed one keeps all well formed.
LEMMA WorkerTyped ==
  ASSUME TypeOK, NEW w \in Workers, NEW s \in WorkerState,
         WellFormed(s),
         worker' = [worker EXCEPT ![w] = s]
  PROVE  /\ worker' \in [Workers -> WorkerState]
         /\ \A v \in Workers : WellFormed(worker'[v])
BY DEF TypeOK

\* A worker that goes idle or off.
LEMMA WorkerLeaves ==
  ASSUME TypeOK, NEW w \in Workers, NEW pc \in Loop \cup Off,
         worker' = [worker EXCEPT ![w] = At(pc)]
  PROVE  /\ worker' \in [Workers -> WorkerState]
         /\ \A v \in Workers : WellFormed(worker'[v])
BY IdleIsWorkerState, WorkerTyped

\* A busy worker that moves on to another step of run_job.
LEMMA WorkerAdvances ==
  ASSUME TypeOK, NEW w \in Workers, NEW from \in Working, NEW to \in Working,
         Advance(w, from, to)
  PROVE  /\ worker' \in [Workers -> WorkerState]
         /\ \A v \in Workers : WellFormed(worker'[v])
         /\ Job(w) \in Jobs
         /\ worker'[w].pc = to
         /\ worker'[w].job = worker[w].job
         /\ worker'[w].attempt = worker[w].attempt
         /\ worker'[w].elapsed = worker[w].elapsed
         /\ worker'[w].version = worker[w].version
         /\ \A v \in Workers \ {w} : worker'[v] = worker[v]
<1> DEFINE s == [worker[w] EXCEPT !.pc = to, !.inStep = 0]
<1>1. worker[w] \in WorkerState /\ worker[w].job \in Jobs /\ worker[w].attempt > 0
  BY DEF TypeOK, Advance, WellFormed
<1>2. to \in Loop \cup Working \cup Off /\ 0 \in 0 .. MaxStep
  BY NumbersAssumption
<1>3. /\ s \in WorkerState /\ s.job = worker[w].job /\ s.pc = to
      /\ s.attempt = worker[w].attempt /\ s.elapsed = worker[w].elapsed
      /\ s.version = worker[w].version
  BY <1>1, <1>2 DEF WorkerState
<1>4. worker' = [worker EXCEPT ![w] = s]
  BY DEF Advance
<1>5. worker \in [Workers -> WorkerState]
  BY DEF TypeOK
<1> HIDE DEF s
<1>6. WellFormed(s)
  BY <1>1, <1>3 DEF WellFormed
<1> QED BY <1>1, <1>3, <1>4, <1>5, <1>6, WorkerTyped DEF Job

\* An action that saves nothing keeps every request's versions dense.
LEMMA DenseKept ==
  ASSUME TypeInv, versions' = versions,
         \A v \in Workers : worker'[v].pc = "insert" => worker'[v] = worker[v]
  PROVE  \A j \in Jobs : Dense(j)'
BY DEF TypeInv, Dense

LEMMA NextType == TypeInv /\ [Next]_vars => TypeInv'
<1> SUFFICES ASSUME TypeInv, [Next]_vars PROVE TypeInv'
  OBVIOUS
<1> USE DEF TypeInv
<1>0. /\ row \in [Jobs -> Row] /\ wait \in [Jobs -> Nat]
      /\ earlier \subseteq Jobs \X Jobs
      /\ versions \in [Jobs -> SUBSET (Nat \ {0})]
      /\ worker \in [Workers -> WorkerState]
      /\ \A w \in Workers : WellFormed(worker[w])
      /\ stopping \subseteq Workers
      /\ kills \in 0 .. MaxKills /\ stops \in 0 .. MaxStops
  BY DEF TypeOK
<1>1. ASSUME NEW j \in Jobs, Enqueue(j) PROVE TypeInv'
  <2>1. AbsentRow \in Row
    BY NumbersAssumption DEF AbsentRow, Row, Status, Stage, Error
  <2>2. [AbsentRow EXCEPT !.status = "queued"] \in Row
    BY <2>1, Names DEF Row
  <2>3. wait' \in [Jobs -> Nat] /\ earlier' \subseteq Jobs \X Jobs
    BY <1>1, ScheduleType DEF Enqueue
  <2>4. TypeOK'
    BY <1>0, <1>1, <2>2, <2>3 DEF Enqueue, TypeOK
  <2> QED BY <1>1, <2>4, DenseKept DEF Enqueue
<1>2. ASSUME NEW w \in Workers, LeaveLoop(w) PROVE TypeInv'
  <2>1. "stopped" \in Loop \cup Off /\ At("stopped").pc # "insert"
    BY Names, IdleIsWorkerState
  <2>2. TypeOK'
    BY <1>0, <1>2, <2>1, WorkerLeaves DEF LeaveLoop, TypeOK
  <2> QED BY <1>0, <1>2, <2>1, <2>2, DenseKept DEF LeaveLoop
<1>3. ASSUME NEW w \in Workers, ReclaimStale(w) PROVE TypeInv'
  <2>1. [worker[w] EXCEPT !.pc = "claim"] \in WorkerState
    BY <1>0, Names DEF WorkerState
  <2>2. /\ worker' = [worker EXCEPT ![w] = [worker[w] EXCEPT !.pc = "claim"]]
        /\ [worker[w] EXCEPT !.pc = "claim"].pc = "claim"
        /\ [worker[w] EXCEPT !.pc = "claim"].job = worker[w].job
    BY <1>0, <1>3 DEF ReclaimStale, WorkerState
  <2>3. WellFormed([worker[w] EXCEPT !.pc = "claim"])
    BY <1>0, <1>3, <2>2, Names DEF ReclaimStale, WellFormed
  <2>4. /\ worker' \in [Workers -> WorkerState]
        /\ \A v \in Workers : WellFormed(worker'[v])
    BY <2>1, <2>2, <2>3, WorkerTyped
  <2>5. row' \in [Jobs -> Row]
    BY <1>0, <1>3, ReleasedIsRow, Names DEF ReclaimStale
  <2>6. TypeOK'
    BY <1>0, <1>3, <2>4, <2>5 DEF ReclaimStale, TypeOK
  <2>7. \A v \in Workers : worker'[v].pc = "insert" => worker'[v] = worker[v]
    BY <1>0, <2>2
  <2> QED BY <1>3, <2>6, <2>7, DenseKept DEF ReclaimStale
<1>4. ASSUME NEW w \in Workers, NEW j \in Jobs, Claim(w, j) PROVE TypeInv'
  <2> DEFINE s == [At("load") EXCEPT !.job = j, !.attempt = row[j].attempts + 1]
  <2>1. row[j].attempts + 1 \in Nat /\ row[j].attempts + 1 > 0
    BY <1>0 DEF Row
  <2>2. At("load") \in WorkerState /\ At("load").pc = "load"
    BY Names, NumbersAssumption DEF At, WorkerState
  <2>3. s \in WorkerState /\ s.job = j /\ s.pc = "load" /\ s.attempt > 0
    BY <2>1, <2>2 DEF WorkerState
  <2>4. worker' = [worker EXCEPT ![w] = s]
    BY <1>4 DEF Claim
  <2> HIDE DEF s
  <2>5. /\ worker' \in [Workers -> WorkerState]
        /\ \A v \in Workers : WellFormed(worker'[v])
    BY <2>3, <2>4, Names, WorkerTyped DEF WellFormed
  <2>6. row' \in [Jobs -> Row]
    BY <1>0, <1>4, ClaimedIsRow DEF Claim
  <2>7. TypeOK'
    BY <1>0, <1>4, <2>5, <2>6 DEF Claim, TypeOK
  <2>8. \A v \in Workers : worker'[v].pc = "insert" => worker'[v] = worker[v]
    BY <1>0, <2>3, <2>4
  <2> QED BY <1>4, <2>7, <2>8, DenseKept DEF Claim
<1>5. ASSUME NEW w \in Workers, ClaimNothing(w) PROVE TypeInv'
  <2>1. "poll" \in Loop \cup Off /\ At("poll").pc # "insert"
    BY Names, IdleIsWorkerState
  <2>2. TypeOK'
    BY <1>0, <1>5, <2>1, WorkerLeaves DEF ClaimNothing, TypeOK
  <2> QED BY <1>0, <1>5, <2>1, <2>2, DenseKept DEF ClaimNothing
<1>6. ASSUME NEW w \in Workers, LoadBrief(w) \/ Generate(w) PROVE TypeInv'
  <2>1. PICK from \in {"load", "generate"}, to \in {"generate", "stage"} :
          Advance(w, from, to)
    BY <1>6 DEF LoadBrief, Generate
  <2>2. from \in Working /\ to \in Working /\ to # "insert"
    BY Names
  <2>3. TypeOK'
    BY <1>0, <1>6, <2>1, <2>2, WorkerAdvances DEF LoadBrief, Generate, TypeOK
  <2>4. \A v \in Workers : worker'[v].pc = "insert" => worker'[v] = worker[v]
    BY <2>1, <2>2, WorkerAdvances
  <2> QED BY <1>6, <2>3, <2>4, DenseKept DEF LoadBrief, Generate
<1>7. ASSUME NEW w \in Workers, EngineFails(w) PROVE TypeInv'
  <2> DEFINE s == [worker[w] EXCEPT !.pc = "fail", !.inStep = 0, !.permanent = TRUE]
  <2>1. worker[w] \in WorkerState /\ worker[w].job \in Jobs /\ worker[w].attempt > 0
    BY <1>0, <1>7, Names DEF EngineFails, WellFormed
  <2>2. "fail" \in Loop \cup Working \cup Off /\ 0 \in 0 .. MaxStep /\ TRUE \in BOOLEAN
    BY NumbersAssumption, Names
  <2>3. /\ s \in WorkerState /\ s.job = worker[w].job /\ s.pc = "fail"
        /\ s.attempt = worker[w].attempt
    BY <2>1, <2>2 DEF WorkerState
  <2>4. worker' = [worker EXCEPT ![w] = s]
    BY <1>7 DEF EngineFails
  <2> HIDE DEF s
  <2>5. /\ worker' \in [Workers -> WorkerState]
        /\ \A v \in Workers : WellFormed(worker'[v])
    BY <2>1, <2>3, <2>4, Names, WorkerTyped DEF WellFormed
  <2>6. TypeOK'
    BY <1>0, <1>7, <2>5 DEF EngineFails, TypeOK
  <2>7. \A v \in Workers : worker'[v].pc = "insert" => worker'[v] = worker[v]
    BY <1>0, <2>3, <2>4
  <2> QED BY <1>7, <2>6, <2>7, DenseKept DEF EngineFails
<1>8. ASSUME NEW w \in Workers, SetStage(w) PROVE TypeInv'
  <2>1. Advance(w, "stage", "save") /\ "stage" \in Working /\ "save" \in Working
    BY <1>8, Names DEF SetStage
  <2>2. "assemble" \in Stage /\ Job(w) \in Jobs
    BY <2>1, Names, WorkerAdvances
  <2>3. row' \in [Jobs -> Row]
    BY <1>0, <1>8, <2>2 DEF SetStage, Row
  <2>4. TypeOK'
    BY <1>0, <1>8, <2>1, <2>3, WorkerAdvances DEF SetStage, TypeOK
  <2>5. \A v \in Workers : worker'[v].pc = "insert" => worker'[v] = worker[v]
    BY <2>1, WorkerAdvances
  <2> QED BY <1>8, <2>4, <2>5, DenseKept DEF SetStage
<1>9. ASSUME NEW w \in Workers, ReadNextVersion(w) PROVE TypeInv'
  <2> DEFINE s == [worker[w] EXCEPT !.pc = "insert", !.inStep = 0,
                                    !.version = NextVersion(Job(w))]
  <2>1. worker[w] \in WorkerState /\ Job(w) \in Jobs /\ worker[w].attempt > 0
    BY <1>0, <1>9, Names DEF ReadNextVersion, WellFormed, Job
  <2>2. PICK n \in Nat :
          /\ versions[Job(w)] = 1 .. n
          /\ \A v \in Workers : worker[v].job = Job(w) /\ worker[v].pc = "insert"
                                  => worker[v].version \in 1 .. n + 1
    BY <2>1 DEF Dense
  <2>3. NextVersion(Job(w)) = n + 1
    BY <2>2, NextVersionAfter
  <2>4. /\ "insert" \in Loop \cup Working \cup Off
        /\ 0 \in 0 .. MaxStep /\ NextVersion(Job(w)) \in Nat
    BY <2>3, NumbersAssumption, Names
  <2>5. /\ s \in WorkerState /\ s.job = Job(w) /\ s.pc = "insert"
        /\ s.version = n + 1 /\ s.attempt = worker[w].attempt
    BY <2>1, <2>3, <2>4 DEF WorkerState, Job
  <2>6. worker' = [worker EXCEPT ![w] = s]
    BY <1>9 DEF ReadNextVersion
  <2> HIDE DEF s
  <2>7. /\ worker' \in [Workers -> WorkerState]
        /\ \A v \in Workers : WellFormed(worker'[v])
    BY <2>1, <2>5, <2>6, Names, WorkerTyped DEF WellFormed
  <2>8. TypeOK'
    BY <1>0, <1>9, <2>7 DEF ReadNextVersion, TypeOK
  <2>9. ASSUME NEW j \in Jobs PROVE Dense(j)'
    <3>1. CASE j = Job(w)
      <4>1. versions'[j] = 1 .. n
        BY <1>9, <2>2, <3>1 DEF ReadNextVersion
      <4>2. \A v \in Workers : worker'[v].job = j /\ worker'[v].pc = "insert"
                                 => worker'[v].version \in 1 .. n + 1
        BY <1>0, <2>2, <2>5, <2>6, <3>1
      <4> QED BY <4>1, <4>2 DEF Dense
    <3>2. CASE j # Job(w)
      <4>1. versions' = versions /\ Dense(j)
        BY <1>9 DEF ReadNextVersion
      <4>2. \A v \in Workers : worker'[v].job = j => worker'[v] = worker[v]
        BY <1>0, <2>5, <2>6, <3>2
      <4> QED BY <4>1, <4>2 DEF Dense
    <3> QED BY <3>1, <3>2
  <2> QED BY <2>8, <2>9
<1>10. ASSUME NEW w \in Workers, CommitItinerary(w) PROVE TypeInv'
  <2>1. /\ Advance(w, "insert", "succeed")
        /\ "insert" \in Working /\ "succeed" \in Working
    BY <1>10, Names DEF CommitItinerary
  <2>2. Job(w) \in Jobs /\ worker[w].pc = "insert"
    BY <2>1, WorkerAdvances DEF Advance
  <2>3. PICK n \in Nat :
          /\ versions[Job(w)] = 1 .. n
          /\ \A v \in Workers : worker[v].job = Job(w) /\ worker[v].pc = "insert"
                                  => worker[v].version \in 1 .. n + 1
    BY <2>2 DEF Dense
  <2>4. worker[w].version = n + 1
    BY <1>10, <2>2, <2>3 DEF CommitItinerary, Job
  <2>5. versions'[Job(w)] = 1 .. n + 1
    BY <1>0, <1>10, <2>2, <2>3, <2>4 DEF CommitItinerary
  <2>6. versions' \in [Jobs -> SUBSET (Nat \ {0})]
    BY <1>0, <1>10, <2>2, <2>4 DEF CommitItinerary
  <2>7. TypeOK'
    BY <1>0, <1>10, <2>1, <2>6, WorkerAdvances DEF CommitItinerary, TypeOK
  <2>8. \A v \in Workers : worker'[v].pc = "insert" => worker'[v] = worker[v]
    BY <2>1, WorkerAdvances
  <2>9. ASSUME NEW j \in Jobs PROVE Dense(j)'
    <3>1. CASE j = Job(w)
      <4>1. \A v \in Workers : worker'[v].job = j /\ worker'[v].pc = "insert"
                                 => worker'[v].version \in 1 .. (n + 1) + 1
        BY <2>3, <2>8, <3>1
      <4> QED BY <2>5, <3>1, <4>1 DEF Dense
    <3>2. CASE j # Job(w)
      <4>1. versions'[j] = versions[j] /\ Dense(j)
        BY <1>0, <1>10, <3>2 DEF CommitItinerary
      <4> QED BY <2>8, <4>1 DEF Dense
    <3> QED BY <3>1, <3>2
  <2> QED BY <2>7, <2>9
<1>11. ASSUME NEW w \in Workers, VersionTaken(w) PROVE TypeInv'
  <2>1. Advance(w, "insert", "fail") /\ "insert" \in Working /\ "fail" \in Working
    BY <1>11, Names DEF VersionTaken
  <2>2. TypeOK'
    BY <1>0, <1>11, <2>1, WorkerAdvances DEF VersionTaken, TypeOK
  <2>3. \A v \in Workers : worker'[v].pc = "insert" => worker'[v] = worker[v]
    BY <2>1, WorkerAdvances
  <2> QED BY <1>11, <2>2, <2>3, DenseKept DEF VersionTaken
<1>12. ASSUME NEW w \in Workers, StepFails(w) PROVE TypeInv'
  <2>1. PICK from \in Working : Advance(w, from, "fail")
    BY <1>12 DEF StepFails, Advance
  <2>2. TypeOK'
    BY <1>0, <1>12, <2>1, Names, WorkerAdvances DEF StepFails, TypeOK
  <2>3. \A v \in Workers : worker'[v].pc = "insert" => worker'[v] = worker[v]
    BY <2>1, Names, WorkerAdvances
  <2> QED BY <1>12, <2>2, <2>3, DenseKept DEF StepFails
<1>13. ASSUME NEW w \in Workers, Succeed(w) PROVE TypeInv'
  <2>1. "poll" \in Loop \cup Off /\ At("poll").pc # "insert"
    BY Names, IdleIsWorkerState
  <2>2. Job(w) \in Jobs
    BY <1>0, <1>13, Names DEF Succeed, WellFormed, Job
  <2>3. row' \in [Jobs -> Row]
    BY <1>0, <1>13, <2>2, ReleasedIsRow, Names DEF Succeed
  <2>4. TypeOK'
    BY <1>0, <1>13, <2>1, <2>3, WorkerLeaves DEF Succeed, TypeOK
  <2> QED BY <1>0, <1>13, <2>1, <2>4, DenseKept DEF Succeed
<1>14. ASSUME NEW w \in Workers, FailRetry(w) PROVE TypeInv'
  <2>1. "poll" \in Loop \cup Off /\ At("poll").pc # "insert"
    BY Names, IdleIsWorkerState
  <2>2. Job(w) \in Jobs /\ worker[w].attempt \in Nat
    BY <1>0, <1>14, Names DEF FailRetry, WellFormed, Job, WorkerState
  <2>3. row' \in [Jobs -> Row]
    BY <1>0, <1>14, <2>2, FailedIsRow, Names DEF FailRetry
  <2>4. TypeOK'
    BY <1>0, <1>14, <2>1, <2>2, <2>3, WorkerLeaves, RetryIsScheduled DEF FailRetry, TypeOK
  <2> QED BY <1>0, <1>14, <2>1, <2>4, DenseKept DEF FailRetry
<1>15. ASSUME NEW w \in Workers, FailPark(w) PROVE TypeInv'
  <2>1. "poll" \in Loop \cup Off /\ At("poll").pc # "insert"
    BY Names, IdleIsWorkerState
  <2>2. Job(w) \in Jobs
    BY <1>0, <1>15, Names DEF FailPark, WellFormed, Job
  <2>3. row' \in [Jobs -> Row]
    BY <1>0, <1>15, <2>2, FailedIsRow, Names DEF FailPark
  <2>4. TypeOK'
    BY <1>0, <1>15, <2>1, <2>3, WorkerLeaves DEF FailPark, TypeOK
  <2> QED BY <1>0, <1>15, <2>1, <2>4, DenseKept DEF FailPark
<1>16. ASSUME NEW w \in Workers, Kill(w) PROVE TypeInv'
  <2>1. "down" \in Loop \cup Off /\ At("down").pc # "insert"
    BY Names, IdleIsWorkerState
  <2>2. kills' \in 0 .. MaxKills
    BY <1>0, <1>16, NumbersAssumption DEF Kill
  <2>3. TypeOK'
    BY <1>0, <1>16, <2>1, <2>2, WorkerLeaves DEF Kill, TypeOK
  <2> QED BY <1>0, <1>16, <2>1, <2>3, DenseKept DEF Kill
<1>17. ASSUME NEW w \in Workers, LoopRaises(w) PROVE TypeInv'
  <2>1. PICK pc \in {"down", "detached"} : worker' = [worker EXCEPT ![w] = At(pc)]
    BY <1>17 DEF LoopRaises
  <2>2. pc \in Loop \cup Off /\ At(pc).pc # "insert"
    BY Names, IdleIsWorkerState
  <2>3. kills' \in 0 .. MaxKills
    BY <1>0, <1>17, NumbersAssumption DEF LoopRaises
  <2>4. TypeOK'
    BY <1>0, <1>17, <2>1, <2>2, <2>3, WorkerLeaves DEF LoopRaises, TypeOK
  <2> QED BY <1>0, <1>17, <2>1, <2>2, <2>4, DenseKept DEF LoopRaises
<1>18. ASSUME NEW w \in Workers, RequestStop(w) PROVE TypeInv'
  <2>1. stops' \in 0 .. MaxStops
    BY <1>0, <1>18, NumbersAssumption DEF RequestStop
  <2>2. TypeOK'
    BY <1>0, <1>18, <2>1 DEF RequestStop, TypeOK
  <2> QED BY <1>18, <2>2, DenseKept DEF RequestStop
<1>19. ASSUME NEW w \in Workers, CancelTask(w) PROVE TypeInv'
  <2>1. "stopped" \in Loop \cup Off /\ At("stopped").pc # "insert"
    BY Names, IdleIsWorkerState
  <2>2. stops' \in 0 .. MaxStops
    BY <1>0, <1>19, NumbersAssumption DEF CancelTask
  <2>3. TypeOK'
    BY <1>0, <1>19, <2>1, <2>2, WorkerLeaves DEF CancelTask, TypeOK
  <2> QED BY <1>0, <1>19, <2>1, <2>3, DenseKept DEF CancelTask
<1>20. ASSUME NEW w \in Workers, StartLoop(w) PROVE TypeInv'
  <2>1. "poll" \in Loop \cup Off /\ At("poll").pc # "insert"
    BY Names, IdleIsWorkerState
  <2>2. TypeOK'
    BY <1>0, <1>20, <2>1, WorkerLeaves DEF StartLoop, TypeOK
  <2> QED BY <1>0, <1>20, <2>1, <2>2, DenseKept DEF StartLoop
<1>21. ASSUME NEW w \in Workers, StartOnce(w) PROVE TypeInv'
  <2>1. "claim" \in Loop \cup Off /\ At("claim").pc # "insert"
    BY Names, IdleIsWorkerState
  <2>2. stops' \in 0 .. MaxStops
    BY <1>0, <1>21, NumbersAssumption DEF StartOnce
  <2>3. TypeOK'
    BY <1>0, <1>21, <2>1, <2>2, WorkerLeaves DEF StartOnce, TypeOK
  <2> QED BY <1>0, <1>21, <2>1, <2>3, DenseKept DEF StartOnce
<1>22. CASE Tick
  <2>1. wait' \in [Jobs -> Nat]
    <3>1. \A j \in Jobs : wait[j] \in Nat
      BY <1>0
    <3>2. wait' = [j \in Jobs |-> IF wait[j] > 0 THEN wait[j] - 1 ELSE 0]
      BY <1>22 DEF Tick
    <3>3. \A j \in Jobs : (IF wait[j] > 0 THEN wait[j] - 1 ELSE 0) \in Nat
      BY <3>1
    <3> QED BY <3>2, <3>3
  <2>2. row' \in [Jobs -> Row]
    <3>1. ASSUME NEW j \in Jobs, row[j].age <= LockTimeout
          PROVE  [row[j] EXCEPT !.age = @ + 1] \in Row
      <4>1. row[j] \in Row /\ row[j].age + 1 \in 0 .. LockTimeout + 1
        BY <1>0, <3>1, NumbersAssumption DEF Row
      <4> QED BY <4>1 DEF Row
    <3> QED BY <1>0, <1>22, <3>1 DEF Tick
  <2>3. ASSUME NEW w \in Workers
        PROVE  /\ worker'[w] \in WorkerState
               /\ worker'[w].job = worker[w].job
               /\ worker'[w].pc = worker[w].pc
               /\ worker'[w].version = worker[w].version
               /\ worker'[w].attempt = worker[w].attempt
    <3>1. worker[w] \in WorkerState
      BY <1>0
    <3>2. CASE Busy(w)
      <4>0. worker[w].elapsed < MaxRun /\ worker[w].inStep < MaxStep
        BY <1>22, <3>2 DEF Tick
      <4>1. worker[w].elapsed \in Nat /\ worker[w].inStep \in Nat
        BY <3>1, NumbersAssumption DEF WorkerState
      <4>3. /\ worker[w].elapsed + 1 \in 0 .. MaxRun
            /\ worker[w].inStep + 1 \in 0 .. MaxStep
        BY <4>0, <4>1, NumbersAssumption
      <4>2. worker'[w] = [worker[w] EXCEPT !.elapsed = @ + 1, !.inStep = @ + 1]
        BY <1>22, <3>2 DEF Tick
      <4> QED BY <3>1, <4>2, <4>3 DEF WorkerState
    <3>3. CASE ~Busy(w)
      <4>1. worker'[w] = worker[w]
        BY <1>22, <3>3 DEF Tick
      <4> QED BY <3>1, <4>1
    <3> QED BY <3>2, <3>3
  <2>4. worker' \in [Workers -> WorkerState]
    BY <1>22, <2>3 DEF Tick
  <2>5. \A w \in Workers : WellFormed(worker'[w])
    BY <1>0, <2>3 DEF WellFormed
  <2>7. UNCHANGED <<earlier, versions, stopping, kills, stops>>
    BY <1>22 DEF Tick
  <2>8. TypeOK'
    BY <1>0, <2>1, <2>2, <2>4, <2>5, <2>7 DEF TypeOK
  <2>6. \A j \in Jobs : Dense(j)'
    BY <2>3, <2>7 DEF Dense
  <2> QED BY <2>6, <2>8
<1>23. CASE UNCHANGED vars
  <2>1. TypeOK'
    BY <1>0, <1>23 DEF vars, TypeOK
  <2> QED BY <1>23, <2>1, DenseKept DEF vars
<1> QED
  BY <1>1, <1>2, <1>3, <1>4, <1>5, <1>6, <1>7, <1>8, <1>9, <1>10, <1>11, <1>12,
     <1>13, <1>14, <1>15, <1>16, <1>17, <1>18, <1>19, <1>20, <1>21, <1>22, <1>23
  DEF Next, WorkerStep, RunJob, Fault

\* Every reachable state is well typed: rows, clocks, versions and workers.
THEOREM TypeCorrect == Spec => []TypeOK
<1>1. TypeInv => TypeOK
  BY DEF TypeInv
<1> QED BY <1>1, InitType, NextType, PTL DEF Spec
-----------------------------------------------------------------------------
(* The shape of single steps. *)

\* A worker that goes idle or off holds nothing; the rest is as it was.
LEMMA Leaver ==
  ASSUME TypeOK, NEW w \in Workers, NEW pc \in Loop \cup Off,
         worker' = [worker EXCEPT ![w] = At(pc)]
  PROVE  ~Busy(w)' /\ \A v \in Workers \ {w} : worker'[v] = worker[v]
BY IdleIsWorkerState, Names DEF TypeOK, Busy

\* The statement that ends an attempt writes the row of the job in hand and no
\* other, whoever holds that row by now, and its worker is idle afterwards.
LEMMA RowIsLetGo ==
  ASSUME TypeOK, NEW w \in Workers, Succeed(w) \/ FailRetry(w) \/ FailPark(w)
  PROVE  /\ Busy(w) /\ Job(w) \in Jobs /\ ~Busy(w)'
         /\ \A v \in Workers \ {w} : worker'[v] = worker[v]
         /\ \A j \in Jobs \ {Job(w)} : row'[j] = row[j]
         /\ row'[Job(w)].attempts = row[Job(w)].attempts
         /\ \/ row'[Job(w)].status = "succeeded" /\ Succeed(w)
            \/ row'[Job(w)].status = "queued" /\ FailRetry(w)
            \/ row'[Job(w)].status = "failed" /\ FailPark(w)
         /\ UNCHANGED <<versions, kills, stops>>
<1>0. row \in [Jobs -> Row]
  BY DEF TypeOK
<1>1. worker' = [worker EXCEPT ![w] = At("poll")] /\ "poll" \in Loop \cup Off
  BY Names DEF Succeed, FailRetry, FailPark
<1>2. ~Busy(w)' /\ \A v \in Workers \ {w} : worker'[v] = worker[v]
  BY <1>1, Leaver
<1>3. Busy(w) /\ Job(w) \in Jobs
  BY Names DEF Succeed, FailRetry, FailPark, Busy, TypeOK, WellFormed, Job
<1>4. /\ \A j \in Jobs \ {Job(w)} : row'[j] = row[j]
      /\ row'[Job(w)].attempts = row[Job(w)].attempts
      /\ \/ row'[Job(w)].status = "succeeded" /\ Succeed(w)
         \/ row'[Job(w)].status = "queued" /\ FailRetry(w)
         \/ row'[Job(w)].status = "failed" /\ FailPark(w)
  <2>1. CASE Succeed(w)
    BY <1>0, <1>3, <2>1, ReleasedIsRow, Names DEF Succeed
  <2>2. CASE FailRetry(w)
    BY <1>0, <1>3, <2>2, FailedIsRow, Names DEF FailRetry
  <2>3. CASE FailPark(w)
    BY <1>0, <1>3, <2>3, FailedIsRow, Names DEF FailPark
  <2> QED BY <2>1, <2>2, <2>3
<1>5. UNCHANGED <<versions, kills, stops>>
  BY DEF Succeed, FailRetry, FailPark
<1> QED BY <1>2, <1>3, <1>4, <1>5

\* Two steps that move a busy worker on and touch neither rows nor versions.
LEMMA WorkerTurns ==
  ASSUME TypeOK, NEW w \in Workers, EngineFails(w) \/ ReadNextVersion(w)
  PROVE  /\ Busy(w) /\ Busy(w)'
         /\ \A v \in Workers \ {w} : worker'[v] = worker[v]
         /\ worker'[w].job = worker[w].job
         /\ worker'[w].attempt = worker[w].attempt
         /\ worker'[w].elapsed = worker[w].elapsed
         /\ worker'[w].pc \in {"fail", "insert"}
         /\ worker[w].pc \in {"generate", "save"}
         /\ UNCHANGED <<row, versions, kills, stops>>
<1>1. worker \in [Workers -> WorkerState]
  BY DEF TypeOK
<1>2. /\ \A v \in Workers \ {w} : worker'[v] = worker[v]
      /\ worker[w].pc \in {"generate", "save"}
      /\ UNCHANGED <<row, versions, kills, stops>>
  BY <1>1 DEF EngineFails, ReadNextVersion
<1>3. /\ worker'[w].job = worker[w].job
      /\ worker'[w].attempt = worker[w].attempt
      /\ worker'[w].elapsed = worker[w].elapsed
      /\ worker'[w].pc \in {"fail", "insert"}
  <2>1. worker[w] \in WorkerState
    BY <1>1
  <2>2. CASE EngineFails(w)
    BY <1>1, <2>1, <2>2 DEF EngineFails, WorkerState
  <2>3. CASE ReadNextVersion(w)
    BY <1>1, <2>1, <2>3 DEF ReadNextVersion, WorkerState
  <2> QED BY <2>2, <2>3
<1> QED BY <1>2, <1>3, Names DEF Busy

-----------------------------------------------------------------------------
(* Saving: every stored version is the work of an attempt of its own, even   *)
(* when the lock timeout is too short and several workers run one job.       *)

\* What may yet become a version: the steps before and up to the insert.
Unsaved == {"load", "generate", "stage", "save", "insert"}

\* The attempts of the workers that run j are attempts the row has counted, and
\* no two run the same one.
OwnAttempts(j) ==
  /\ \A w \in Workers : Holds(w, j) => worker[w].attempt \in 1 .. row[j].attempts
  /\ \A v, w \in Workers :
       Holds(v, j) /\ Holds(w, j) /\ worker[v].attempt = worker[w].attempt => v = w

\* The versions are as many as the attempts that saved one, and none of those
\* is the attempt of a worker that has still to save.
SavedBy(j) ==
  \E S \in SUBSET (1 .. row[j].attempts) :
    /\ versions[j] = 1 .. Cardinality(S)
    /\ \A w \in Workers : Holds(w, j) /\ worker[w].pc \in Unsaved
                            => worker[w].attempt \notin S

\* Who is about to report success has saved, and so had whoever reported it.
SavedFirst(j) ==
  /\ \A w \in Workers : Holds(w, j) /\ worker[w].pc = "succeed" => versions[j] # {}
  /\ row[j].status = "succeeded" => versions[j] # {}

SaveOk(j) ==
  /\ OwnAttempts(j) /\ SavedBy(j) /\ SavedFirst(j)
  /\ row[j].status = "absent" => row[j].attempts = 0

SaveInv == TypeInv /\ \A j \in Jobs : SaveOk(j)

LEMMA UnsavedWork == Unsaved \subseteq Working /\ "fail" \notin Unsaved /\ "succeed" \notin Unsaved
BY DEF Unsaved, Working

LEMMA SameLength ==
  ASSUME NEW m \in Nat, NEW n \in Nat, 1 .. m = 1 .. n
  PROVE  m = n
<1>1. (m \in 1 .. m \/ m = 0) /\ (n \in 1 .. n \/ n = 0)
  OBVIOUS
<1>2. m <= n /\ n <= m
  BY <1>1
<1> QED BY <1>2

LEMMA SomeOfTheFirst ==
  ASSUME NEW n \in Nat, NEW S \in SUBSET (1 .. n)
  PROVE  IsFiniteSet(S) /\ Cardinality(S) \in 0 .. n
<1>1. 1 \in Int /\ n \in Int
  OBVIOUS
<1>2. IsFiniteSet(1 .. n) /\ Cardinality(1 .. n) = n
  BY <1>1, FS_Interval
<1>3. IsFiniteSet(S) /\ Cardinality(S) <= n
  BY <1>2, FS_Subset
<1>4. Cardinality(S) \in Nat
  BY <1>3, FS_CardinalityType
<1> QED BY <1>3, <1>4

LEMMA InitSave == Init => SaveInv
<1> SUFFICES ASSUME Init, NEW j \in Jobs PROVE SaveOk(j)
  BY InitType DEF SaveInv
<1>1. \A w \in Workers : ~Busy(w)
  BY Names, IdleIsWorkerState DEF Init, Busy
<1>2. /\ row[j].attempts = 0 /\ row[j].status = "absent" /\ versions[j] = {}
      /\ Cardinality({}) = 0
  BY FS_EmptySet DEF Init, AbsentRow
<1>3. {} \in SUBSET (1 .. row[j].attempts) /\ versions[j] = 1 .. Cardinality({})
  BY <1>2
<1>4. SavedBy(j)
  BY <1>1, <1>3 DEF SavedBy, Holds
<1> QED BY <1>1, <1>2, <1>4 DEF SaveOk, OwnAttempts, SavedFirst, Holds

\* Steps that save nothing: the workers that run j afterwards ran it before, on
\* the same attempt, and are no nearer to saving or to reporting success than
\* they were; the row counts as many attempts as before.
LEMMA SaveKept ==
  ASSUME SaveInv, NEW j \in Jobs,
         versions'[j] = versions[j],
         row'[j].attempts = row[j].attempts,
         row'[j].status = "succeeded" => versions[j] # {},
         row'[j].status = "absent" => row[j].status = "absent",
         \A w \in Workers : Holds(w, j)' =>
           /\ Holds(w, j)
           /\ worker'[w].attempt = worker[w].attempt
           /\ worker'[w].pc \in Unsaved => worker[w].pc \in Unsaved
           /\ worker'[w].pc = "succeed" => worker[w].pc = "succeed"
  PROVE  SaveOk(j)'
<1>0. SaveOk(j)
  BY DEF SaveInv
<1>1. OwnAttempts(j)'
  BY <1>0 DEF SaveOk, OwnAttempts
<1>2. SavedBy(j)'
  BY <1>0 DEF SaveOk, SavedBy
<1>3. SavedFirst(j)'
  BY <1>0 DEF SaveOk, SavedFirst
<1> QED BY <1>0, <1>1, <1>2, <1>3 DEF SaveOk

\* Steps of one worker that touch neither the rows nor the versions.
LEMMA SaveKeptBy ==
  ASSUME SaveInv, NEW w \in Workers, row' = row, versions' = versions,
         \A v \in Workers \ {w} : worker'[v] = worker[v],
         Busy(w)' => /\ Busy(w)
                     /\ worker'[w].job = worker[w].job
                     /\ worker'[w].attempt = worker[w].attempt
                     /\ worker'[w].pc \in Unsaved => worker[w].pc \in Unsaved
                     /\ worker'[w].pc = "succeed" => worker[w].pc = "succeed"
  PROVE  \A j \in Jobs : SaveOk(j)'
<1> SUFFICES ASSUME NEW j \in Jobs PROVE SaveOk(j)'
  OBVIOUS
<1>1. ASSUME NEW v \in Workers, Holds(v, j)'
      PROVE  /\ Holds(v, j)
             /\ worker'[v].attempt = worker[v].attempt
             /\ worker'[v].pc \in Unsaved => worker[v].pc \in Unsaved
             /\ worker'[v].pc = "succeed" => worker[v].pc = "succeed"
  BY <1>1 DEF Holds, Busy, Job
<1>2. row[j].status = "succeeded" => versions[j] # {}
  BY DEF SaveInv, SaveOk, SavedFirst
<1> QED BY <1>1, <1>2, SaveKept

LEMMA NextSave == SaveInv /\ [Next]_vars => SaveInv'
<1> SUFFICES ASSUME SaveInv, [Next]_vars PROVE \A j \in Jobs : SaveOk(j)'
  BY NextType DEF SaveInv
<1>0. TypeInv /\ TypeOK /\ row \in [Jobs -> Row] /\ worker \in [Workers -> WorkerState]
  BY DEF SaveInv, TypeInv, TypeOK
<1>a. /\ versions \in [Jobs -> SUBSET (Nat \ {0})]
      /\ \A j \in Jobs : row[j].status = "succeeded" => versions[j] # {}
  BY <1>0 DEF SaveInv, SaveOk, SavedFirst, TypeOK
<1>1. ASSUME NEW k \in Jobs, Enqueue(k), NEW j \in Jobs PROVE SaveOk(j)'
  <2>1. SaveOk(k) /\ row'[k].attempts = 0 /\ row'[k].status = "queued"
    BY <1>0, <1>1 DEF SaveInv, Enqueue, AbsentRow
  <2>2. row'[j].attempts = row[j].attempts
    BY <1>0, <1>1, <2>1 DEF Enqueue, SaveOk
  <2>3. /\ row'[j].status = "succeeded" => row[j].status = "succeeded"
        /\ row'[j].status = "absent" => row[j].status = "absent"
    BY <1>0, <1>1, <2>1 DEF Enqueue
  <2>4. UNCHANGED <<versions, worker>>
    BY <1>1 DEF Enqueue
  <2> QED BY <1>a, <2>2, <2>3, <2>4, SaveKept DEF Holds, Busy, Job
<1>2. ASSUME NEW w \in Workers,
             \/ LeaveLoop(w) \/ ClaimNothing(w) \/ Kill(w) \/ LoopRaises(w)
             \/ CancelTask(w) \/ StartLoop(w) \/ StartOnce(w)
      PROVE  \A j \in Jobs : SaveOk(j)'
  <2>1. PICK pc \in {"stopped", "poll", "down", "detached", "claim"} :
          worker' = [worker EXCEPT ![w] = At(pc)]
    BY <1>2 DEF LeaveLoop, ClaimNothing, Kill, LoopRaises, CancelTask, StartLoop, StartOnce
  <2>2. pc \in Loop \cup Off /\ row' = row /\ versions' = versions
    BY <1>2, Names
    DEF LeaveLoop, ClaimNothing, Kill, LoopRaises, CancelTask, StartLoop, StartOnce
  <2>3. ~Busy(w)' /\ \A v \in Workers \ {w} : worker'[v] = worker[v]
    BY <1>0, <2>1, <2>2, Leaver
  <2> QED BY <2>2, <2>3, SaveKeptBy
<1>3. ASSUME NEW w \in Workers, LoadBrief(w) \/ Generate(w) \/ VersionTaken(w) \/ StepFails(w)
      PROVE  \A j \in Jobs : SaveOk(j)'
  <2>1. PICK from \in Working, to \in Working :
          /\ Advance(w, from, to)
          /\ to \in Unsaved => from \in Unsaved
          /\ to # "succeed"
    <3>1. CASE LoadBrief(w)
      BY <3>1, Names DEF LoadBrief, Unsaved
    <3>2. CASE Generate(w)
      BY <3>2, Names DEF Generate, Unsaved
    <3>3. CASE VersionTaken(w)
      BY <3>3, Names, UnsavedWork DEF VersionTaken
    <3>4. CASE StepFails(w)
      BY <3>4, Names, UnsavedWork DEF StepFails, Advance
    <3> QED BY <1>3, <3>1, <3>2, <3>3, <3>4
  <2>2. row' = row /\ versions' = versions
    BY <1>3 DEF LoadBrief, Generate, VersionTaken, StepFails
  <2>3. Busy(w) /\ worker[w].pc = from
    BY <2>1 DEF Advance, Busy
  <2> QED BY <1>0, <2>1, <2>2, <2>3, WorkerAdvances, SaveKeptBy
<1>4. ASSUME NEW w \in Workers, EngineFails(w) \/ ReadNextVersion(w)
      PROVE  \A j \in Jobs : SaveOk(j)'
  <2>1. worker[w].pc \in Unsaved /\ worker'[w].pc # "succeed"
    BY <1>0, <1>4, WorkerTurns DEF Unsaved
  <2> QED BY <1>0, <1>4, <2>1, WorkerTurns, SaveKeptBy
<1>5. ASSUME NEW w \in Workers, ReclaimStale(w), NEW j \in Jobs PROVE SaveOk(j)'
  <2>1. worker'[w].pc \notin Working
    BY <1>0, <1>5, Names DEF ReclaimStale, WorkerState
  <2>2. \A v \in Workers : Holds(v, j)' => worker'[v] = worker[v] /\ Holds(v, j)
    BY <1>0, <1>5, <2>1 DEF ReclaimStale, Holds, Busy, Job
  <2>3. /\ row'[j].attempts = row[j].attempts
        /\ row'[j].status \in {row[j].status, "queued"}
    BY <1>0, <1>5, ReleasedIsRow, Names DEF ReclaimStale
  <2>4. versions' = versions
    BY <1>5 DEF ReclaimStale
  <2> QED BY <1>a, <2>2, <2>3, <2>4, SaveKept
<1>6. ASSUME NEW w \in Workers, NEW k \in Jobs, Claim(w, k), NEW j \in Jobs PROVE SaveOk(j)'
  <2>1. /\ worker'[w].job = k /\ worker'[w].pc = "load"
        /\ worker'[w].attempt = row[k].attempts + 1
        /\ \A v \in Workers \ {w} : worker'[v] = worker[v]
    BY <1>0, <1>6 DEF Claim, At
  <2>2. row'[k].status = "running" /\ row'[k].attempts = row[k].attempts + 1
    BY <1>0, <1>6, ClaimedIsRow DEF Claim
  <2>3. /\ ~Busy(w) /\ versions' = versions
        /\ \A i \in Jobs \ {k} : row'[i] = row[i]
    BY <1>0, <1>6, Names DEF Claim, Busy
  <2>4. CASE j # k
    <3>1. \A v \in Workers : Holds(v, j)' => worker'[v] = worker[v] /\ Holds(v, j)
      BY <2>1, <2>4 DEF Holds, Busy, Job
    <3> QED BY <1>a, <2>3, <2>4, <3>1, SaveKept
  <2>5. CASE j = k
    <3>1. SaveOk(j) /\ row[j].attempts \in Nat
      BY <1>0 DEF SaveInv, Row
    <3>2. \A v \in Workers \ {w} : Holds(v, j)' => worker'[v] = worker[v] /\ Holds(v, j)
      BY <2>1 DEF Holds, Busy, Job
    <3>3. OwnAttempts(j)'
      BY <2>1, <2>2, <2>5, <3>1, <3>2 DEF SaveOk, OwnAttempts
    <3>4. SavedBy(j)'
      <4>1. PICK S \in SUBSET (1 .. row[j].attempts) :
              /\ versions[j] = 1 .. Cardinality(S)
              /\ \A v \in Workers : Holds(v, j) /\ worker[v].pc \in Unsaved
                                      => worker[v].attempt \notin S
        BY <3>1 DEF SaveOk, SavedBy
      <4>2. S \in SUBSET (1 .. row'[j].attempts) /\ row[j].attempts + 1 \notin S
        BY <2>2, <2>5, <3>1, <4>1
      <4>3. \A v \in Workers : Holds(v, j)' /\ worker'[v].pc \in Unsaved
                                 => worker'[v].attempt \notin S
        BY <2>1, <2>5, <3>2, <4>1, <4>2
      <4> QED BY <2>3, <4>1, <4>2, <4>3 DEF SavedBy
    <3>5. SavedFirst(j)'
      BY <2>1, <2>2, <2>3, <2>5, <3>1, <3>2 DEF SaveOk, SavedFirst
    <3> QED BY <2>2, <2>5, <3>3, <3>4, <3>5 DEF SaveOk
  <2> QED BY <2>4, <2>5
<1>7. ASSUME NEW w \in Workers, SetStage(w), NEW j \in Jobs PROVE SaveOk(j)'
  <2>1. Advance(w, "stage", "save") /\ "stage" \in Working /\ "save" \in Working
    BY <1>7, Names DEF SetStage
  <2>2. /\ Busy(w) /\ worker[w].pc = "stage" /\ worker[w].pc \in Unsaved
        /\ Job(w) \in Jobs /\ worker'[w].job = worker[w].job
    BY <1>0, <2>1, WorkerAdvances DEF Busy, Advance, Unsaved
  <2>3. \A v \in Workers : Holds(v, j)' =>
           /\ Holds(v, j)
           /\ worker'[v].attempt = worker[v].attempt
           /\ worker'[v].pc \in Unsaved => worker[v].pc \in Unsaved
           /\ worker'[v].pc = "succeed" => worker[v].pc = "succeed"
    BY <1>0, <2>1, <2>2, WorkerAdvances DEF Holds, Busy, Job
  <2>4. /\ row'[j].status = row[j].status /\ row'[j].attempts = row[j].attempts
        /\ versions' = versions
    BY <1>0, <1>7, <2>2 DEF SetStage, Row
  <2> QED BY <1>a, <2>3, <2>4, SaveKept
<1>8. ASSUME NEW w \in Workers, CommitItinerary(w), NEW j \in Jobs PROVE SaveOk(j)'
  <2>1. /\ Advance(w, "insert", "succeed")
        /\ "insert" \in Working /\ "succeed" \in Working
    BY <1>8, Names DEF CommitItinerary
  <2>2. /\ Busy(w) /\ worker[w].pc = "insert" /\ worker[w].pc \in Unsaved
        /\ Job(w) \in Jobs /\ worker'[w].job = worker[w].job
        /\ worker'[w].attempt = worker[w].attempt /\ worker'[w].pc = "succeed"
        /\ \A v \in Workers \ {w} : worker'[v] = worker[v]
    BY <1>0, <2>1, WorkerAdvances DEF Busy, Advance, Unsaved
  <2>3. /\ row' = row
        /\ versions' = [versions EXCEPT ![Job(w)] = @ \cup {worker[w].version}]
    BY <1>8 DEF CommitItinerary
  <2>4. \A v \in Workers : Holds(v, j)' => Holds(v, j) /\ worker'[v].attempt = worker[v].attempt
    BY <2>2 DEF Holds, Busy, Job
  <2>5. CASE j # Job(w)
    <3>1. \A v \in Workers : Holds(v, j)' => worker'[v] = worker[v]
      BY <2>2, <2>5 DEF Holds, Busy, Job
    <3>2. versions'[j] = versions[j]
      BY <1>a, <2>3, <2>5
    <3> QED BY <1>a, <2>3, <2>4, <3>1, <3>2, SaveKept
  <2>6. CASE j = Job(w)
    <3>1. SaveOk(j) /\ row[j].attempts \in Nat /\ Holds(w, j)
      BY <1>0, <2>2, <2>6 DEF SaveInv, Row, Holds
    <3>2. PICK S \in SUBSET (1 .. row[j].attempts) :
            /\ versions[j] = 1 .. Cardinality(S)
            /\ \A v \in Workers : Holds(v, j) /\ worker[v].pc \in Unsaved
                                    => worker[v].attempt \notin S
      BY <3>1 DEF SaveOk, SavedBy
    <3> DEFINE T == S \cup {worker[w].attempt}
    <3>3. /\ worker[w].attempt \in 1 .. row[j].attempts
          /\ worker[w].attempt \notin S
      BY <2>2, <3>1, <3>2 DEF SaveOk, OwnAttempts
    <3>4. Cardinality(T) = Cardinality(S) + 1 /\ Cardinality(S) \in Nat
      <4>1. IsFiniteSet(S) /\ Cardinality(S) \in Nat
        BY <3>1, SomeOfTheFirst
      <4> QED BY <3>3, <4>1, FS_AddElement
    <3>5. versions'[j] = 1 .. Cardinality(T)
      <4>1. PICK n \in Nat :
              /\ versions[j] = 1 .. n
              /\ worker[w].version \in 1 .. n + 1
        BY <1>0, <2>2, <2>6 DEF TypeInv, Dense, Job
      <4>2. worker[w].version = n + 1
        BY <1>8, <2>6, <4>1 DEF CommitItinerary
      <4>3. n = Cardinality(S)
        BY <3>2, <3>4, <4>1, SameLength
      <4>4. versions'[j] = versions[j] \cup {n + 1}
        BY <1>a, <2>3, <2>6, <4>2
      <4> QED BY <3>4, <4>1, <4>3, <4>4
    <3>6. \A v \in Workers : Holds(v, j)' /\ worker'[v].pc \in Unsaved
                               => worker'[v].attempt \notin T
      <4> SUFFICES ASSUME NEW v \in Workers, Holds(v, j)', worker'[v].pc \in Unsaved
                   PROVE  worker'[v].attempt \notin T
        OBVIOUS
      <4>1. v # w /\ worker'[v] = worker[v] /\ Holds(v, j)
        BY <2>2, <2>4, UnsavedWork
      <4> QED BY <3>1, <3>2, <4>1 DEF SaveOk, OwnAttempts
    <3>7. SavedBy(j)'
      <4>1. T \in SUBSET (1 .. row'[j].attempts)
        BY <2>3, <3>2, <3>3
      <4> QED BY <3>5, <3>6, <4>1 DEF SavedBy
    <3>8. OwnAttempts(j)'
      BY <2>3, <2>4, <3>1 DEF SaveOk, OwnAttempts
    <3>9. SavedFirst(j)'
      <4> HIDE DEF T
      <4>1. Cardinality(T) \in Nat /\ Cardinality(T) > 0
        BY <3>4
      <4>2. 1 \in versions'[j]
        BY <3>5, <4>1
      <4> QED BY <4>2 DEF SavedFirst
    <3> QED BY <2>3, <3>1, <3>7, <3>8, <3>9 DEF SaveOk
  <2> QED BY <2>5, <2>6
<1>9. ASSUME NEW w \in Workers, Succeed(w) \/ FailRetry(w) \/ FailPark(w), NEW j \in Jobs
      PROVE  SaveOk(j)'
  <2>1. \A v \in Workers : Holds(v, j)' => worker'[v] = worker[v] /\ Holds(v, j)
    BY <1>0, <1>9, RowIsLetGo DEF Holds, Busy, Job
  <2>2. /\ row'[j].attempts = row[j].attempts /\ versions' = versions
        /\ row'[j].status = "absent" => row[j].status = "absent"
    BY <1>0, <1>9, RowIsLetGo
  <2>3. row'[j].status = "succeeded" => versions[j] # {}
    <3>1. CASE j = Job(w)
      <4>1. Succeed(w) => versions[j] # {}
        BY <1>0, <1>9, <3>1, RowIsLetGo DEF SaveInv, SaveOk, SavedFirst, Succeed, Holds
      <4> QED BY <1>0, <1>9, <3>1, <4>1, RowIsLetGo
    <3>2. CASE j # Job(w)
      BY <1>0, <1>a, <1>9, <3>2, RowIsLetGo
    <3> QED BY <3>1, <3>2
  <2> QED BY <2>1, <2>2, <2>3, SaveKept
<1>10. ASSUME NEW w \in Workers, RequestStop(w) PROVE \A j \in Jobs : SaveOk(j)'
  BY <1>10, SaveKeptBy DEF RequestStop, Busy
<1>11. ASSUME Tick, NEW j \in Jobs PROVE SaveOk(j)'
  <2>1. \A v \in Workers : /\ worker'[v].pc = worker[v].pc
                            /\ worker'[v].job = worker[v].job
                            /\ worker'[v].attempt = worker[v].attempt
    BY <1>0, <1>11 DEF Tick, WorkerState
  <2>2. /\ row'[j].status = row[j].status /\ row'[j].attempts = row[j].attempts
        /\ versions' = versions
    BY <1>0, <1>11 DEF Tick, Row
  <2> QED BY <1>a, <2>1, <2>2, SaveKept DEF Holds, Busy, Job
<1>12. CASE UNCHANGED vars
  BY <1>a, <1>12, SaveKept DEF vars, Holds, Busy, Job
<1> QED
  BY <1>1, <1>2, <1>3, <1>4, <1>5, <1>6, <1>7, <1>8, <1>9, <1>10, <1>11, <1>12
  DEF Next, WorkerStep, RunJob, Fault

LEMMA SaveInvariant == Spec => []SaveInv
BY InitSave, NextSave, PTL DEF Spec

\* A request's itineraries are versions 1..n, and they are at most as many as
\* its attempts, however many workers run it at once (save_itinerary).
THEOREM AttemptsSaveOnce == Spec => []AnAttemptSavesAtMostOnce
<1>1. SaveInv => AnAttemptSavesAtMostOnce
  <2> SUFFICES ASSUME SaveInv, NEW j \in Jobs
               PROVE  \E n \in 0 .. row[j].attempts : versions[j] = 1 .. n
    BY DEF AnAttemptSavesAtMostOnce
  <2>1. row[j].attempts \in Nat
    BY DEF SaveInv, TypeInv, TypeOK, Row
  <2>2. PICK S \in SUBSET (1 .. row[j].attempts) : versions[j] = 1 .. Cardinality(S)
    BY DEF SaveInv, SaveOk, SavedBy
  <2>3. Cardinality(S) \in 0 .. row[j].attempts
    BY <2>1, SomeOfTheFirst
  <2> QED BY <2>2, <2>3
<1> QED BY <1>1, SaveInvariant, PTL

\* A job is never `succeeded' without an itinerary (run_job saves before it
\* marks), even when the lock timeout is too short.
THEOREM SuccessIsSaved == Spec => []SucceededHasItinerary
<1>1. SaveInv => SucceededHasItinerary
  BY DEF SaveInv, SaveOk, SavedFirst, SucceededHasItinerary
<1> QED BY <1>1, SaveInvariant, PTL

-----------------------------------------------------------------------------
(* Stopping. *)

\* As long as nothing was killed, a row is locked by a loop of its own process
\* only while that loop runs the job: it lets go of the row with the statement
\* that ends its attempt, whoever else has run the job meanwhile.
LocksAreHeld ==
  kills = 0 => \A w \in Workers \ Embedded, j \in Jobs :
                 row[j].status = "running" /\ row[j].lockedBy = w => Holds(w, j)

StopInv == TypeInv /\ LocksAreHeld

\* Steps that lock no row and after which who ran a job still runs it.
LEMMA LocksKept ==
  ASSUME StopInv,
         kills' = 0 => kills = 0,
         \A j \in Jobs : row'[j].status = "running" =>
           row[j].status = "running" /\ row'[j].lockedBy = row[j].lockedBy,
         \A w \in Workers, j \in Jobs : w \notin Embedded /\ Holds(w, j)
                                         /\ row'[j].status = "running"
                                         /\ row'[j].lockedBy = w => Holds(w, j)'
  PROVE  LocksAreHeld'
BY DEF StopInv, LocksAreHeld

LEMMA NextStop == StopInv /\ [Next]_vars => StopInv'
<1> SUFFICES ASSUME StopInv, [Next]_vars PROVE LocksAreHeld'
  BY NextType DEF StopInv
<1>0. TypeInv /\ TypeOK /\ row \in [Jobs -> Row] /\ worker \in [Workers -> WorkerState]
  BY DEF StopInv, TypeInv, TypeOK
<1>1. ASSUME NEW k \in Jobs, Enqueue(k) PROVE LocksAreHeld'
  <2>1. /\ \A j \in Jobs : row'[j].status = "running" => row'[j] = row[j]
        /\ worker' = worker /\ kills' = kills
    BY <1>0, <1>1, Names DEF Enqueue, AbsentRow
  <2> QED BY <2>1, LocksKept DEF Holds, Busy, Job
<1>2. ASSUME NEW w \in Workers, Kill(w) \/ LoopRaises(w) PROVE LocksAreHeld'
  <2>1. kills' # 0
    BY <1>0, <1>2 DEF Kill, LoopRaises, TypeOK
  <2> QED BY <2>1 DEF LocksAreHeld
<1>3. ASSUME NEW w \in Workers,
             \/ LeaveLoop(w) \/ ClaimNothing(w) \/ CancelTask(w)
             \/ StartLoop(w) \/ StartOnce(w)
      PROVE  LocksAreHeld'
  <2>1. PICK pc \in {"stopped", "poll", "claim"} : worker' = [worker EXCEPT ![w] = At(pc)]
    BY <1>3 DEF LeaveLoop, ClaimNothing, CancelTask, StartLoop, StartOnce
  <2>2. /\ pc \in Loop \cup Off /\ row' = row /\ kills' = kills
        /\ w \in Embedded \/ ~Busy(w)
    BY <1>3, Names
    DEF LeaveLoop, ClaimNothing, CancelTask, StartLoop, StartOnce, Busy
  <2>3. \A v \in Workers \ {w} : worker'[v] = worker[v]
    BY <1>0, <2>1, <2>2, Leaver
  <2> QED BY <2>2, <2>3, LocksKept DEF Holds, Busy, Job
<1>4. ASSUME NEW w \in Workers, ReclaimStale(w) PROVE LocksAreHeld'
  <2>1. /\ ~Busy(w) /\ kills' = kills
        /\ \A v \in Workers \ {w} : worker'[v] = worker[v]
    BY <1>0, <1>4, Names DEF ReclaimStale, Busy
  <2>2. \A j \in Jobs : row'[j].status = "running" => row'[j] = row[j]
    BY <1>0, <1>4, ReleasedIsRow, Names DEF ReclaimStale
  <2> QED BY <2>1, <2>2, LocksKept DEF Holds, Busy, Job
<1>5. ASSUME NEW w \in Workers, NEW k \in Jobs, Claim(w, k) PROVE LocksAreHeld'
  <2>1. /\ worker'[w].job = k /\ worker'[w].pc = "load"
        /\ \A v \in Workers \ {w} : worker'[v] = worker[v]
        /\ worker[w].pc = "claim" /\ kills' = kills
    BY <1>0, <1>5 DEF Claim, At
  <2>2. row'[k].lockedBy = w /\ \A i \in Jobs \ {k} : row'[i] = row[i]
    BY <1>0, <1>5, ClaimedIsRow DEF Claim
  <2>3. Holds(w, k)' /\ ~Busy(w)
    BY <2>1, Names DEF Holds, Busy, Job
  <2>4. ASSUME kills' = 0, NEW v \in Workers \ Embedded, NEW j \in Jobs,
               row'[j].status = "running", row'[j].lockedBy = v
        PROVE  Holds(v, j)'
    <3>1. CASE j = k
      BY <2>2, <2>3, <2>4, <3>1
    <3>2. CASE j # k
      <4>1. Holds(v, j)
        BY <2>1, <2>2, <2>4, <3>2 DEF StopInv, LocksAreHeld
      <4> QED BY <2>1, <2>3, <4>1 DEF Holds, Busy, Job
    <3> QED BY <3>1, <3>2
  <2> QED BY <2>4 DEF LocksAreHeld
<1>6. ASSUME NEW w \in Workers,
             \/ LoadBrief(w) \/ Generate(w) \/ CommitItinerary(w)
             \/ VersionTaken(w) \/ StepFails(w) \/ SetStage(w)
      PROVE  LocksAreHeld'
  <2>1. PICK from \in Working, to \in Working : Advance(w, from, to)
    BY <1>6, Names
    DEF LoadBrief, Generate, CommitItinerary, VersionTaken, StepFails, SetStage, Advance
  <2>2. \A v \in Workers, j \in Jobs : Holds(v, j) => Holds(v, j)'
    BY <1>0, <2>1, WorkerAdvances DEF Holds, Busy, Job
  <2>3. kills' = kills
    BY <1>6 DEF LoadBrief, Generate, CommitItinerary, VersionTaken, StepFails, SetStage
  <2>4. \A j \in Jobs : row'[j].status = row[j].status /\ row'[j].lockedBy = row[j].lockedBy
    BY <1>0, <1>6, <2>1, WorkerAdvances
    DEF LoadBrief, Generate, CommitItinerary, VersionTaken, StepFails, SetStage, Row
  <2> QED BY <2>2, <2>3, <2>4, LocksKept
<1>7. ASSUME NEW w \in Workers, EngineFails(w) \/ ReadNextVersion(w)
      PROVE  LocksAreHeld'
  <2>1. \A v \in Workers, j \in Jobs : Holds(v, j) => Holds(v, j)'
    BY <1>0, <1>7, WorkerTurns DEF Holds, Busy, Job
  <2> QED BY <1>0, <1>7, <2>1, WorkerTurns, LocksKept
<1>8. ASSUME NEW w \in Workers, Succeed(w) \/ FailRetry(w) \/ FailPark(w)
      PROVE  LocksAreHeld'
  <2>1. \A j \in Jobs : row'[j].status = "running" => row'[j] = row[j] /\ j # Job(w)
    BY <1>0, <1>8, RowIsLetGo
  <2> QED BY <1>0, <1>8, <2>1, RowIsLetGo, LocksKept DEF Holds, Busy, Job
<1>9. ASSUME NEW w \in Workers, RequestStop(w) PROVE LocksAreHeld'
  BY <1>9, LocksKept DEF RequestStop, Holds, Busy, Job
<1>10. CASE Tick
  <2>1. \A v \in Workers : /\ worker'[v].pc = worker[v].pc
                           /\ worker'[v].job = worker[v].job
    BY <1>0, <1>10 DEF Tick, WorkerState
  <2>2. \A j \in Jobs : row'[j].status = row[j].status /\ row'[j].lockedBy = row[j].lockedBy
    BY <1>0, <1>10 DEF Tick, Row
  <2>3. kills' = kills
    BY <1>10 DEF Tick
  <2> QED BY <2>1, <2>2, <2>3, LocksKept DEF Holds, Busy, Job
<1>11. CASE UNCHANGED vars
  BY <1>11, LocksKept DEF vars, Holds, Busy, Job
<1> QED
  BY <1>1, <1>2, <1>3, <1>4, <1>5, <1>6, <1>7, <1>8, <1>9, <1>10, <1>11
  DEF Next, WorkerStep, RunJob, Fault

\* A loop of its own process that ended in an orderly way left no row behind in
\* `running', even if it overran its lock, as long as nothing was killed: stop,
\* `--once' and restart included.
THEOREM StopsCleanly == Spec => []StoppedLeavesNothing
<1>1. Init => StopInv
  BY InitType DEF StopInv, LocksAreHeld, Init, AbsentRow
<1>2. StopInv => StoppedLeavesNothing
  BY Names DEF StopInv, LocksAreHeld, StoppedLeavesNothing, Holds, Busy
<1> QED BY <1>1, <1>2, NextStop, PTL DEF Spec

-----------------------------------------------------------------------------
(* Ownership: when the lock timeout outlasts every run_job, a running job    *)
(* has one owner.                                                            *)

\* The inductive form of OwnerHoldsRow.  The lock is exactly as old as the run,
\* and a run never gets old enough for its lock to be stale; that is all that
\* keeps reclaim_stale away from a live worker's row.
Owned(w, j) ==
  /\ row[j].status = "running"
  /\ row[j].lockedBy = w
  /\ row[j].attempts = worker[w].attempt
  /\ row[j].age = worker[w].elapsed

OwnInv == TypeInv /\ \A w \in Workers, j \in Jobs : Holds(w, j) => Owned(w, j)

LEMMA InitOwn == Init => OwnInv
BY InitType, Names, IdleIsWorkerState DEF OwnInv, Init, Holds, Busy

\* Workers that come to hold nothing new, over rows that do not change.
LEMMA OwnKept ==
  ASSUME OwnInv, row' = row, NEW w \in Workers,
         \A v \in Workers \ {w} : worker'[v] = worker[v],
         Busy(w)' => /\ Busy(w)
                     /\ worker'[w].job = worker[w].job
                     /\ worker'[w].attempt = worker[w].attempt
                     /\ worker'[w].elapsed = worker[w].elapsed
  PROVE  \A v \in Workers, j \in Jobs : Holds(v, j)' => Owned(v, j)'
<1> SUFFICES ASSUME NEW v \in Workers, NEW j \in Jobs, Holds(v, j)'
             PROVE  Owned(v, j)'
  OBVIOUS
<1>1. Holds(v, j)
  BY DEF Holds, Busy, Job
<1>2. worker'[v].attempt = worker[v].attempt /\ worker'[v].elapsed = worker[v].elapsed
  BY DEF Holds, Busy
<1>3. Owned(v, j)
  BY <1>1 DEF OwnInv
<1> QED BY <1>2, <1>3 DEF Owned

\* A job with an owner has no other, is not waiting and is not stale.
LEMMA OwnedAlone ==
  ASSUME OwnInv, MaxRun <= LockTimeout, NEW w \in Workers, NEW j \in Jobs, Holds(w, j)
  PROVE  /\ row[j].status = "running"
         /\ ~Stale(j)
         /\ \A v \in Workers : Holds(v, j) => v = w
<1>1. Owned(w, j) /\ \A v \in Workers : Holds(v, j) => Owned(v, j)
  BY DEF OwnInv
<1>2. worker[w].elapsed \in Nat /\ worker[w].elapsed <= MaxRun
  BY NumbersAssumption DEF OwnInv, TypeInv, TypeOK, WorkerState
<1>3. ~(worker[w].elapsed > LockTimeout)
  BY <1>2, NumbersAssumption
<1> QED BY <1>1, <1>3 DEF Owned, Stale

LEMMA NextOwn ==
  ASSUME MaxRun <= LockTimeout
  PROVE  OwnInv /\ [Next]_vars => OwnInv'
<1> SUFFICES ASSUME OwnInv, [Next]_vars
             PROVE  \A w \in Workers, j \in Jobs : Holds(w, j)' => Owned(w, j)'
  BY NextType DEF OwnInv
<1>0. TypeInv /\ TypeOK /\ row \in [Jobs -> Row] /\ worker \in [Workers -> WorkerState]
  BY DEF OwnInv, TypeInv, TypeOK
<1>1. ASSUME NEW j \in Jobs, Enqueue(j)
      PROVE  \A v \in Workers, k \in Jobs : Holds(v, k)' => Owned(v, k)'
  <2> SUFFICES ASSUME NEW v \in Workers, NEW k \in Jobs, Holds(v, k)'
               PROVE  Owned(v, k)'
    OBVIOUS
  <2>1. worker' = worker /\ Holds(v, k)
    BY <1>1 DEF Enqueue, Holds, Busy, Job
  <2>2. k # j
    BY <1>1, <2>1, OwnedAlone DEF Enqueue
  <2>3. row'[k] = row[k]
    BY <1>0, <1>1, <2>2 DEF Enqueue
  <2> QED BY <2>1, <2>3 DEF Owned, OwnInv
<1>3. ASSUME NEW w \in Workers, ReclaimStale(w)
      PROVE  \A v \in Workers, k \in Jobs : Holds(v, k)' => Owned(v, k)'
  <2> SUFFICES ASSUME NEW v \in Workers, NEW k \in Jobs, Holds(v, k)'
               PROVE  Owned(v, k)'
    OBVIOUS
  <2>1. worker'[w].pc \notin Working
    BY <1>0, <1>3, Names DEF ReclaimStale, WorkerState
  <2>2. worker'[v] = worker[v] /\ Holds(v, k)
    BY <1>0, <1>3, <2>1 DEF ReclaimStale, Holds, Busy, Job
  <2>3. row'[k] = row[k]
    BY <1>0, <1>3, <2>2, OwnedAlone DEF ReclaimStale
  <2> QED BY <2>2, <2>3 DEF Owned, OwnInv
<1>4. ASSUME NEW w \in Workers, NEW j \in Jobs, Claim(w, j)
      PROVE  \A v \in Workers, k \in Jobs : Holds(v, k)' => Owned(v, k)'
  <2> SUFFICES ASSUME NEW v \in Workers, NEW k \in Jobs, Holds(v, k)'
               PROVE  Owned(v, k)'
    OBVIOUS
  <2>1. /\ worker'[w].job = j
        /\ worker'[w].attempt = row[j].attempts + 1
        /\ worker'[w].elapsed = 0
    BY <1>0, <1>4 DEF Claim, At
  <2>2. /\ row'[j].status = "running" /\ row'[j].lockedBy = w
        /\ row'[j].age = 0 /\ row'[j].attempts = row[j].attempts + 1
    BY <1>0, <1>4, ClaimedIsRow DEF Claim
  <2>3. CASE v = w
    <3>1. k = j
      BY <2>1, <2>3 DEF Holds, Job
    <3> QED BY <2>1, <2>2, <2>3, <3>1 DEF Owned
  <2>4. CASE v # w
    <3>1. worker'[v] = worker[v] /\ Holds(v, k)
      BY <1>0, <1>4, <2>4 DEF Claim, Holds, Busy, Job
    <3>2. k # j
      BY <1>4, <3>1, OwnedAlone DEF Claim, NextJob, Runnable
    <3>3. row'[k] = row[k]
      BY <1>0, <1>4, <3>2 DEF Claim
    <3> QED BY <3>1, <3>3 DEF Owned, OwnInv
  <2> QED BY <2>3, <2>4
<1>5. ASSUME NEW w \in Workers,
             \/ LeaveLoop(w) \/ ClaimNothing(w) \/ Kill(w) \/ LoopRaises(w)
             \/ CancelTask(w) \/ StartLoop(w) \/ StartOnce(w)
      PROVE  \A v \in Workers, k \in Jobs : Holds(v, k)' => Owned(v, k)'
  <2>1. PICK pc \in {"stopped", "poll", "down", "detached", "claim"} :
          worker' = [worker EXCEPT ![w] = At(pc)]
    BY <1>5 DEF LeaveLoop, ClaimNothing, Kill, LoopRaises, CancelTask, StartLoop, StartOnce
  <2>2. pc \in Loop \cup Off /\ row' = row
    BY <1>5, Names
    DEF LeaveLoop, ClaimNothing, Kill, LoopRaises, CancelTask, StartLoop, StartOnce
  <2>3. ~Busy(w)' /\ \A v \in Workers \ {w} : worker'[v] = worker[v]
    BY <1>0, <2>1, <2>2, Leaver
  <2> QED BY <2>2, <2>3, OwnKept
<1>6. ASSUME NEW w \in Workers,
             \/ LoadBrief(w) \/ Generate(w) \/ CommitItinerary(w) \/ VersionTaken(w)
             \/ StepFails(w)
      PROVE  \A v \in Workers, k \in Jobs : Holds(v, k)' => Owned(v, k)'
  <2>1. PICK from \in Working, to \in Working : Advance(w, from, to)
    BY <1>6, Names
    DEF LoadBrief, Generate, CommitItinerary, VersionTaken, StepFails, Advance
  <2>2. row' = row
    BY <1>6 DEF LoadBrief, Generate, CommitItinerary, VersionTaken, StepFails
  <2>3. Busy(w)
    BY <2>1 DEF Advance, Busy
  <2> QED BY <1>0, <2>1, <2>2, <2>3, WorkerAdvances, OwnKept
<1>7. ASSUME NEW w \in Workers, EngineFails(w) \/ ReadNextVersion(w)
      PROVE  \A v \in Workers, k \in Jobs : Holds(v, k)' => Owned(v, k)'
  BY <1>0, <1>7, WorkerTurns, OwnKept
<1>8. ASSUME NEW w \in Workers, SetStage(w)
      PROVE  \A v \in Workers, k \in Jobs : Holds(v, k)' => Owned(v, k)'
  <2> SUFFICES ASSUME NEW v \in Workers, NEW k \in Jobs, Holds(v, k)'
               PROVE  Owned(v, k)'
    OBVIOUS
  <2>1. Advance(w, "stage", "save") /\ "stage" \in Working /\ "save" \in Working
    BY <1>8, Names DEF SetStage
  <2>2. Busy(w) /\ Job(w) \in Jobs /\ worker'[w].job = worker[w].job
    BY <1>0, <2>1, WorkerAdvances DEF Busy, Advance
  <2>3. /\ Holds(v, k)
        /\ worker'[v].attempt = worker[v].attempt
        /\ worker'[v].elapsed = worker[v].elapsed
    BY <1>0, <2>1, <2>2, WorkerAdvances DEF Holds, Busy, Job
  <2>4. /\ row'[k].status = row[k].status /\ row'[k].lockedBy = row[k].lockedBy
        /\ row'[k].attempts = row[k].attempts /\ row'[k].age = row[k].age
    BY <1>0, <1>8, <2>2 DEF SetStage, Row
  <2> QED BY <2>3, <2>4 DEF Owned, OwnInv
<1>9. ASSUME NEW w \in Workers, Succeed(w) \/ FailRetry(w) \/ FailPark(w)
      PROVE  \A v \in Workers, k \in Jobs : Holds(v, k)' => Owned(v, k)'
  <2> SUFFICES ASSUME NEW v \in Workers, NEW k \in Jobs, Holds(v, k)'
               PROVE  Owned(v, k)'
    OBVIOUS
  <2>1. v # w /\ worker'[v] = worker[v] /\ Holds(v, k)
    BY <1>0, <1>9, RowIsLetGo DEF Holds, Busy, Job
  <2>2. Job(w) # k
    BY <1>0, <1>9, <2>1, RowIsLetGo, OwnedAlone DEF Holds
  <2>3. row'[k] = row[k]
    BY <1>0, <1>9, <2>2, RowIsLetGo
  <2> QED BY <2>1, <2>3 DEF Owned, OwnInv
<1>10. ASSUME NEW w \in Workers, RequestStop(w)
      PROVE  \A v \in Workers, k \in Jobs : Holds(v, k)' => Owned(v, k)'
  BY <1>10, OwnKept DEF RequestStop, Busy
<1>11. CASE Tick
  <2> SUFFICES ASSUME NEW v \in Workers, NEW k \in Jobs, Holds(v, k)'
               PROVE  Owned(v, k)'
    OBVIOUS
  <2>1. /\ worker' = [w \in Workers |->
                        IF Busy(w) THEN [worker[w] EXCEPT !.elapsed = @ + 1,
                                                          !.inStep = @ + 1]
                        ELSE worker[w]]
        /\ row' = [j \in Jobs |->
                     IF row[j].status = "running" /\ row[j].age <= LockTimeout
                     THEN [row[j] EXCEPT !.age = @ + 1] ELSE row[j]]
        /\ \A w \in Workers : Busy(w) => worker[w].elapsed < MaxRun
    BY <1>11 DEF Tick
  <2>2. worker[v] \in WorkerState /\ row[k] \in Row
    BY <1>0
  <2>3. Holds(v, k)
    BY <2>1, <2>2 DEF Holds, Busy, Job, WorkerState
  <2>4. Owned(v, k) /\ worker[v].elapsed < MaxRun
    BY <2>1, <2>3 DEF OwnInv, Holds
  <2>5. /\ worker'[v].elapsed = worker[v].elapsed + 1
        /\ worker'[v].attempt = worker[v].attempt
    BY <2>1, <2>2, <2>3 DEF Holds, WorkerState
  <2>6. row[k].age <= LockTimeout
    <3>1. worker[v].elapsed \in Nat
      BY <2>2, NumbersAssumption DEF WorkerState
    <3> QED BY <2>4, <3>1, NumbersAssumption DEF Owned
  <2>7. row'[k] = [row[k] EXCEPT !.age = @ + 1]
    BY <2>1, <2>4, <2>6 DEF Owned
  <2> QED BY <2>2, <2>4, <2>5, <2>7 DEF Owned, Row
<1>12. CASE UNCHANGED vars
  BY <1>12 DEF vars, OwnInv, Holds, Owned, Busy, Job
<1> QED
  BY <1>1, <1>3, <1>4, <1>5, <1>6, <1>7, <1>8, <1>9, <1>10, <1>11, <1>12
  DEF Next, WorkerStep, RunJob, Fault

LEMMA OwnInvariant == ASSUME MaxRun <= LockTimeout PROVE Spec => []OwnInv
BY InitOwn, NextOwn, PTL DEF Spec

\* If the lock timeout outlasts every run_job, a worker that is running a job
\* is always the one its row is locked by, on the attempt the row counts.
THEOREM OwnerHolds == ASSUME MaxRun <= LockTimeout PROVE Spec => []OwnerHoldsRow
<1>1. OwnInv => OwnerHoldsRow
  BY DEF OwnInv, OwnerHoldsRow, Owned
<1> QED BY <1>1, OwnInvariant, PTL

-----------------------------------------------------------------------------
(* What a step does to the life of one job. *)

\* Nobody is running a job that is not `running'.
LEMMA HolderRuns ==
  ASSUME OwnInv, NEW w \in Workers, Busy(w)
  PROVE  Job(w) \in Jobs /\ Owned(w, Job(w)) /\ row[Job(w)].status = "running"
BY DEF OwnInv, TypeInv, TypeOK, WellFormed, Busy, Job, Holds, Owned

LEMMA SettledStep ==
  ASSUME OwnInv, [Next]_vars, NEW j \in Jobs, row[j].status \in Settled
  PROVE  row'[j] = row[j]
<1>0. /\ row \in [Jobs -> Row]
      /\ row[j].status \notin {"absent", "queued", "running"}
  BY DEF OwnInv, TypeInv, TypeOK, Settled
<1>1. ASSUME NEW k \in Jobs, Enqueue(k) PROVE row'[j] = row[j]
  BY <1>0, <1>1 DEF Enqueue
<1>2. ASSUME NEW w \in Workers, ReclaimStale(w) PROVE row'[j] = row[j]
  BY <1>0, <1>2 DEF ReclaimStale, Stale
<1>3. ASSUME NEW w \in Workers, NEW k \in Jobs, Claim(w, k) PROVE row'[j] = row[j]
  BY <1>0, <1>3 DEF Claim, NextJob, Runnable
<1>4. ASSUME NEW w \in Workers,
             SetStage(w) \/ Succeed(w) \/ FailRetry(w) \/ FailPark(w)
      PROVE  row'[j] = row[j]
  <2>1. Busy(w)
    BY <1>4, Names DEF SetStage, Advance, Succeed, FailRetry, FailPark, Busy
  <2>2. Job(w) \in Jobs /\ Job(w) # j
    BY <1>0, <2>1, HolderRuns
  <2> QED BY <1>0, <1>4, <2>2 DEF SetStage, Succeed, FailRetry, FailPark
<1>5. CASE Tick
  BY <1>0, <1>5 DEF Tick
<1>6. ASSUME NEW w \in Workers,
             \/ LeaveLoop(w) \/ ClaimNothing(w) \/ LoadBrief(w) \/ Generate(w)
             \/ EngineFails(w) \/ ReadNextVersion(w) \/ CommitItinerary(w)
             \/ VersionTaken(w) \/ StepFails(w) \/ Fault(w) \/ StartLoop(w)
      PROVE  row'[j] = row[j]
  BY <1>6
  DEF LeaveLoop, ClaimNothing, LoadBrief, Generate, EngineFails, ReadNextVersion,
      CommitItinerary, VersionTaken, StepFails, Fault, Kill, LoopRaises, RequestStop,
      CancelTask, StartOnce, StartLoop
<1>7. CASE UNCHANGED vars
  BY <1>7 DEF vars
<1> QED
  BY <1>1, <1>2, <1>3, <1>4, <1>5, <1>6, <1>7 DEF Next, WorkerStep, RunJob

\* If the lock timeout outlasts every run_job, a settled job stays as it is.
THEOREM SettledStays == ASSUME MaxRun <= LockTimeout PROVE Spec => SettledIsFinal
<1>1. OwnInv /\ [Next]_vars
        => [\A j \in Jobs : row[j].status \in Settled => row'[j] = row[j]]_vars
  BY SettledStep
<1> QED BY <1>1, OwnInvariant, PTL DEF Spec, SettledIsFinal

-----------------------------------------------------------------------------
(* Attempts above the maximum. *)

\* The last attempt of j was cut off: nobody runs it, and nothing was written.
Lost(j) == row[j].status \in {"queued", "running"} /\ \A w \in Workers : ~Holds(w, j)

\* What is owed for j: its surplus attempts, and one more in advance once its
\* last attempt is lost, for the claim that will follow.
Debt(j) ==
  IF row[j].attempts < MaxAttempts THEN 0
  ELSE row[j].attempts - MaxAttempts + (IF Lost(j) THEN 1 ELSE 0)

DebtsPaid == \A j, k \in Jobs : Debt(j) + (IF j = k THEN 0 ELSE Debt(k)) <= kills + stops

DebtInv == OwnInv /\ DebtsPaid

LEMMA DebtType ==
  ASSUME TypeOK, NEW j \in Jobs
  PROVE  Debt(j) \in Nat /\ Surplus(j) <= Debt(j)
<1>1. row[j].attempts \in Nat /\ MaxAttempts \in Nat
  BY NumbersAssumption DEF TypeOK, Row
<1> QED BY <1>1 DEF Debt, Surplus

LEMMA DebtTypeNext ==
  ASSUME TypeOK', NEW j \in Jobs
  PROVE  Debt(j)' \in Nat
<1>1. row'[j].attempts \in Nat /\ MaxAttempts \in Nat
  BY NumbersAssumption DEF TypeOK, Row
<1> QED BY <1>1 DEF Debt

\* The debt of a job grows only with its attempts, or when it loses its runner.
LEMMA DebtSame ==
  ASSUME TypeOK, NEW j \in Jobs, row'[j].attempts = row[j].attempts, Lost(j)' => Lost(j)
  PROVE  Debt(j)' <= Debt(j)
<1>1. row[j].attempts \in Nat /\ MaxAttempts \in Nat
  BY NumbersAssumption DEF TypeOK, Row
<1> QED BY <1>1 DEF Debt

\* Nothing is ever forgiven: a step that runs up no debt keeps the account.
LEMMA DebtKept ==
  ASSUME DebtInv, TypeOK', UNCHANGED <<kills, stops>>,
         \A j \in Jobs : Debt(j)' <= Debt(j)
  PROVE  DebtsPaid'
<1>1. TypeOK /\ kills \in Nat /\ stops \in Nat
  BY DEF DebtInv, OwnInv, TypeInv, TypeOK
<1>2. \A j \in Jobs : Debt(j) \in Nat /\ Debt(j)' \in Nat
  BY <1>1, DebtType, DebtTypeNext
<1> QED BY <1>1, <1>2 DEF DebtsPaid, DebtInv

LEMMA DebtIsPaid ==
  ASSUME DebtInv, TypeOK', NEW d, kills' + stops' = kills + stops + 1,
         \A j \in Jobs : Debt(j)' <= Debt(j) + (IF j = d THEN 1 ELSE 0)
  PROVE  DebtsPaid'
<1>1. TypeOK /\ kills \in Nat /\ stops \in Nat
  BY DEF DebtInv, OwnInv, TypeInv, TypeOK
<1>2. \A j \in Jobs : Debt(j) \in Nat /\ Debt(j)' \in Nat
  BY <1>1, DebtType, DebtTypeNext
<1> QED BY <1>1, <1>2 DEF DebtsPaid, DebtInv

\* Steps of w that change no row and after which w and the others run what they ran.
LEMMA LostSame ==
  ASSUME TypeOK, row' = row,
         \A w \in Workers, j \in Jobs : Holds(w, j) => Holds(w, j)'
  PROVE  \A j \in Jobs : Debt(j)' <= Debt(j)
BY DebtSame DEF Lost

LEMMA NextDebt ==
  ASSUME MaxRun <= LockTimeout
  PROVE  DebtInv /\ [Next]_vars => DebtInv'
<1> SUFFICES ASSUME DebtInv, [Next]_vars PROVE DebtsPaid'
  BY NextOwn DEF DebtInv
<1>0. /\ OwnInv /\ TypeInv /\ TypeOK /\ TypeOK'
      /\ row \in [Jobs -> Row] /\ worker \in [Workers -> WorkerState]
      /\ kills \in Nat /\ stops \in Nat
  BY NextType DEF DebtInv, OwnInv, TypeInv, TypeOK
<1>1. ASSUME NEW k \in Jobs, Enqueue(k) PROVE DebtsPaid'
  <2>1. /\ row'[k].attempts = 0 /\ \A j \in Jobs \ {k} : row'[j] = row[j]
        /\ UNCHANGED <<worker, kills, stops>>
    BY <1>0, <1>1 DEF Enqueue, AbsentRow
  <2>2. Debt(k)' <= Debt(k)
    BY <1>0, <2>1, DebtType, NumbersAssumption DEF Debt
  <2>3. \A j \in Jobs \ {k} : Debt(j)' <= Debt(j)
    BY <1>0, <2>1, DebtSame DEF Lost, Holds, Busy, Job
  <2> QED BY <1>0, <2>1, <2>2, <2>3, DebtKept
<1>2. ASSUME NEW w \in Workers, LeaveLoop(w) \/ ClaimNothing(w) \/ StartLoop(w)
      PROVE  DebtsPaid'
  <2>1. ~Busy(w) /\ row' = row /\ \A v \in Workers \ {w} : worker'[v] = worker[v]
    BY <1>0, <1>2, Names DEF LeaveLoop, ClaimNothing, StartLoop, Busy
  <2>2. \A v \in Workers, j \in Jobs : Holds(v, j) => Holds(v, j)'
    BY <2>1 DEF Holds, Busy, Job
  <2>3. UNCHANGED <<kills, stops>>
    BY <1>2 DEF LeaveLoop, ClaimNothing, StartLoop
  <2> QED BY <1>0, <2>1, <2>2, <2>3, LostSame, DebtKept
<1>3. ASSUME NEW w \in Workers,
             Kill(w) \/ LoopRaises(w) \/ CancelTask(w) \/ StartOnce(w) \/ RequestStop(w)
      PROVE  DebtsPaid'
  <2>1. /\ row' = row /\ kills' + stops' = kills + stops + 1
        /\ \A v \in Workers \ {w} : worker'[v] = worker[v]
    BY <1>0, <1>3 DEF Kill, LoopRaises, CancelTask, StartOnce, RequestStop
  <2>2. ASSUME NEW j \in Jobs PROVE Debt(j)' <= Debt(j) + (IF j = Job(w) THEN 1 ELSE 0)
    <3>1. CASE j = Job(w)
      <4>1. row[j].attempts \in Nat /\ MaxAttempts \in Nat
        BY <1>0, NumbersAssumption DEF Row
      <4> QED BY <2>1, <3>1, <4>1 DEF Debt
    <3>2. CASE j # Job(w)
      <4>1. \A v \in Workers : Holds(v, j) => Holds(v, j)'
        BY <2>1, <3>2 DEF Holds, Busy, Job
      <4>2. Debt(j)' <= Debt(j) /\ Debt(j) \in Nat
        BY <1>0, <2>1, <4>1, DebtSame, DebtType DEF Lost
      <4> QED BY <3>2, <4>2
    <3> QED BY <3>1, <3>2
  <2> QED BY <1>0, <2>1, <2>2, DebtIsPaid
<1>4. ASSUME NEW w \in Workers, ReclaimStale(w) PROVE DebtsPaid'
  <2>1. /\ ~Busy(w) /\ UNCHANGED <<kills, stops>>
        /\ \A v \in Workers \ {w} : worker'[v] = worker[v]
    BY <1>0, <1>4, Names DEF ReclaimStale, Busy
  <2>2. ASSUME NEW j \in Jobs
        PROVE  /\ row'[j].attempts = row[j].attempts
               /\ row'[j].status = row[j].status \/ row[j].status = "running"
    BY <1>0, <1>4, ReleasedIsRow, Names DEF ReclaimStale, Stale
  <2>3. \A v \in Workers, j \in Jobs : Holds(v, j) => Holds(v, j)'
    BY <2>1 DEF Holds, Busy, Job
  <2>4. \A j \in Jobs : Lost(j)' => Lost(j)
    BY <2>2, <2>3 DEF Lost
  <2> QED BY <1>0, <2>1, <2>2, <2>4, DebtSame, DebtKept
<1>5. ASSUME NEW w \in Workers, NEW k \in Jobs, Claim(w, k) PROVE DebtsPaid'
  <2>1. /\ worker'[w].job = k /\ worker'[w].pc = "load" /\ worker[w].pc = "claim"
        /\ \A v \in Workers \ {w} : worker'[v] = worker[v]
        /\ UNCHANGED <<kills, stops>>
        /\ row[k].status = "queued"
    BY <1>0, <1>5 DEF Claim, At, NextJob, Runnable
  <2>2. /\ row'[k].attempts = row[k].attempts + 1
        /\ \A i \in Jobs \ {k} : row'[i] = row[i]
    BY <1>0, <1>5, ClaimedIsRow DEF Claim
  <2>3. ~Lost(k)' /\ ~Busy(w)
    BY <2>1, Names DEF Lost, Holds, Busy, Job
  <2>4. Lost(k)
    BY <2>1 DEF Lost, DebtInv, OwnInv, Owned
  <2>5. Debt(k)' <= Debt(k)
    <3>1. row[k].attempts \in Nat /\ MaxAttempts \in Nat
      BY <1>0, NumbersAssumption DEF Row
    <3> QED BY <2>2, <2>3, <2>4, <3>1 DEF Debt
  <2>6. \A j \in Jobs \ {k} : Debt(j)' <= Debt(j)
    <3>1. \A v \in Workers, j \in Jobs : Holds(v, j) => Holds(v, j)'
      BY <2>1, <2>3 DEF Holds, Busy, Job
    <3> QED BY <1>0, <2>2, <3>1, DebtSame DEF Lost
  <2> QED BY <1>0, <2>1, <2>5, <2>6, DebtKept
<1>6. ASSUME NEW w \in Workers,
             \/ LoadBrief(w) \/ Generate(w) \/ CommitItinerary(w)
             \/ VersionTaken(w) \/ StepFails(w) \/ SetStage(w)
      PROVE  DebtsPaid'
  <2>1. PICK from \in Working, to \in Working : Advance(w, from, to)
    BY <1>6, Names
    DEF LoadBrief, Generate, CommitItinerary, VersionTaken, StepFails, SetStage, Advance
  <2>2. \A v \in Workers, j \in Jobs : Holds(v, j) => Holds(v, j)'
    BY <1>0, <2>1, WorkerAdvances DEF Holds, Busy, Job
  <2>3. UNCHANGED <<kills, stops>>
    BY <1>6 DEF LoadBrief, Generate, CommitItinerary, VersionTaken, StepFails, SetStage
  <2>4. \A j \in Jobs : row'[j].status = row[j].status /\ row'[j].attempts = row[j].attempts
    BY <1>0, <1>6, <2>1, WorkerAdvances
    DEF LoadBrief, Generate, CommitItinerary, VersionTaken, StepFails, SetStage, Row
  <2>5. \A j \in Jobs : Lost(j)' => Lost(j)
    BY <2>2, <2>4 DEF Lost
  <2> QED BY <1>0, <2>3, <2>4, <2>5, DebtSame, DebtKept
<1>7. ASSUME NEW w \in Workers, EngineFails(w) \/ ReadNextVersion(w) PROVE DebtsPaid'
  <2>1. \A v \in Workers, j \in Jobs : Holds(v, j) => Holds(v, j)'
    BY <1>0, <1>7, WorkerTurns DEF Holds, Busy, Job
  <2> QED BY <1>0, <1>7, <2>1, WorkerTurns, LostSame, DebtKept
<1>8. ASSUME NEW w \in Workers, Succeed(w) \/ FailRetry(w) \/ FailPark(w) PROVE DebtsPaid'
  <2>1. \A j \in Jobs \ {Job(w)} : Debt(j)' <= Debt(j)
    <3>1. \A v \in Workers, j \in Jobs \ {Job(w)} : Holds(v, j) => Holds(v, j)'
      BY <1>0, <1>8, RowIsLetGo DEF Holds, Busy, Job
    <3> QED BY <1>0, <1>8, <3>1, RowIsLetGo, DebtSame DEF Lost
  <2>2. ASSUME NEW j \in Jobs, j = Job(w) PROVE Debt(j)' <= Debt(j)
    <3>1. CASE FailRetry(w)
      <4>1. row[j].attempts = worker[w].attempt /\ worker[w].attempt \in Nat
        BY <1>0, <1>8, <2>2, RowIsLetGo, HolderRuns DEF Owned, WorkerState
      <4>2. row'[j].attempts = row[j].attempts
        BY <1>0, <1>8, <2>2, RowIsLetGo
      <4>3. ~(worker[w].attempt >= MaxAttempts)
        BY <3>1 DEF FailRetry, WillRetry, IsFinalAttempt
      <4>4. row'[j].attempts < MaxAttempts
        BY <4>1, <4>2, <4>3, NumbersAssumption
      <4> QED BY <1>0, <4>4, DebtType DEF Debt
    <3>2. CASE ~FailRetry(w)
      <4>1. ~Lost(j)' /\ row'[j].attempts = row[j].attempts
        BY <1>0, <1>8, <2>2, <3>2, RowIsLetGo DEF Lost
      <4> QED BY <1>0, <4>1, DebtSame
    <3> QED BY <3>1, <3>2
  <2>3. \A j \in Jobs : Debt(j)' <= Debt(j)
    BY <2>1, <2>2
  <2>4. UNCHANGED <<kills, stops>>
    BY <1>0, <1>8, RowIsLetGo
  <2> QED BY <1>0, <2>3, <2>4, DebtKept
<1>9. CASE Tick
  <2>1. \A v \in Workers : /\ worker'[v].pc = worker[v].pc
                           /\ worker'[v].job = worker[v].job
    BY <1>0, <1>9 DEF Tick, WorkerState
  <2>2. \A j \in Jobs : row'[j].status = row[j].status /\ row'[j].attempts = row[j].attempts
    BY <1>0, <1>9 DEF Tick, Row
  <2>3. \A j \in Jobs : Lost(j)' => Lost(j)
    BY <2>1, <2>2 DEF Lost, Holds, Busy, Job
  <2>4. UNCHANGED <<kills, stops>>
    BY <1>9 DEF Tick
  <2> QED BY <1>0, <2>2, <2>3, <2>4, DebtSame, DebtKept
<1>10. CASE UNCHANGED vars
  <2>1. \A v \in Workers, j \in Jobs : Holds(v, j) => Holds(v, j)'
    BY <1>10 DEF vars, Holds, Busy, Job
  <2>2. row' = row /\ UNCHANGED <<kills, stops>>
    BY <1>10 DEF vars
  <2> QED BY <1>0, <2>1, <2>2, LostSame, DebtKept
<1> QED
  BY <1>1, <1>2, <1>3, <1>4, <1>5, <1>6, <1>7, <1>8, <1>9, <1>10
  DEF Next, WorkerStep, RunJob, Fault

LEMMA InitDebt == Init => DebtInv
<1> SUFFICES ASSUME Init PROVE DebtsPaid
  BY InitOwn DEF DebtInv
<1>1. \A j \in Jobs : Debt(j) = 0
  BY NumbersAssumption DEF Init, AbsentRow, Debt
<1>2. kills = 0 /\ stops = 0
  BY DEF Init
<1> QED BY <1>1, <1>2 DEF DebtsPaid

\* If the lock timeout outlasts every run_job, two jobs together have at most as
\* many attempts above max_attempts as there were crashes and interventions:
\* retries alone never exceed the maximum.
THEOREM SurplusIsPaid == ASSUME MaxRun <= LockTimeout PROVE Spec => []SurplusAttemptsArePaid
<1>1. DebtInv => SurplusAttemptsArePaid
  <2> SUFFICES ASSUME DebtInv, NEW j \in Jobs, NEW k \in Jobs
               PROVE  Surplus(j) + (IF j = k THEN 0 ELSE Surplus(k)) <= kills + stops
    BY DEF SurplusAttemptsArePaid
  <2>1. TypeOK /\ kills \in Nat /\ stops \in Nat
    BY DEF DebtInv, OwnInv, TypeInv, TypeOK
  <2>2. \A i \in Jobs : Surplus(i) <= Debt(i) /\ Debt(i) \in Nat /\ Surplus(i) \in Nat
    <3>1. \A i \in Jobs : row[i].attempts \in Nat /\ MaxAttempts \in Nat
      BY <2>1, NumbersAssumption DEF TypeOK, Row
    <3> QED BY <2>1, <3>1, DebtType DEF Surplus
  <2>3. Debt(j) + (IF j = k THEN 0 ELSE Debt(k)) <= kills + stops
    BY DEF DebtInv, DebtsPaid
  <2> QED BY <2>1, <2>2, <2>3
<1> QED BY <1>1, InitDebt, NextDebt, PTL DEF Spec

-----------------------------------------------------------------------------
(* The queue implements the life cycle of a job (JobLifecycle). *)

LifeInv == OwnInv /\ SaveInv

\* What the abstract variables become when one row takes another status.
LEMMA StatusMoved ==
  ASSUME NEW j \in Jobs, NEW s,
         \A k \in Jobs \ {j} : row'[k].status = row[k].status,
         row'[j].status = s
  PROVE  statusOf' = [statusOf EXCEPT ![j] = s]
BY DEF statusOf

LEMMA AttemptsSame ==
  ASSUME \A k \in Jobs : row'[k].attempts = row[k].attempts
  PROVE  attemptsOf' = attemptsOf
BY DEF attemptsOf

LEMMA LifeStutters ==
  ASSUME \A k \in Jobs : row'[k].status = row[k].status
                         /\ row'[k].attempts = row[k].attempts,
         versions' = versions
  PROVE  [Lifecycle!Next]_Lifecycle!lifecycleVars
BY DEF statusOf, attemptsOf, Lifecycle!lifecycleVars

\* A row that was taken out of `running', with what the caller made of it.
LEMMA LifeGivesBack ==
  ASSUME \A k \in Jobs : \/ row'[k].status = row[k].status
                         \/ row[k].status = "running" /\ row'[k].status = "queued",
         \A k \in Jobs : row'[k].attempts = row[k].attempts,
         versions' = versions
  PROVE  Lifecycle!Next
<1> DEFINE S == {k \in Jobs : row[k].status = "running" /\ row'[k].status = "queued"}
<1>1. S \in SUBSET {k \in Jobs : statusOf[k] = "running"}
  BY DEF statusOf
<1>2. statusOf' = [k \in Jobs |-> IF k \in S THEN "queued" ELSE statusOf[k]]
  BY DEF statusOf
<1>3. attemptsOf' = attemptsOf
  BY AttemptsSame
<1> HIDE DEF S
<1>4. Lifecycle!GiveBack
  BY <1>1, <1>2, <1>3 DEF Lifecycle!GiveBack
<1> QED BY <1>4 DEF Lifecycle!Next

LEMMA EnqueueSubmits ==
  ASSUME LifeInv, NEW j \in Jobs, Enqueue(j)
  PROVE  Lifecycle!Submit(j)
<1>1. /\ row \in [Jobs -> Row] /\ row[j].status = "absent" /\ row[j].attempts = 0
  BY DEF LifeInv, SaveInv, SaveOk, TypeInv, TypeOK, Enqueue
<1>2. /\ row'[j].status = "queued" /\ row'[j].attempts = 0
      /\ \A k \in Jobs \ {j} : row'[k] = row[k]
      /\ versions' = versions
  BY <1>1 DEF Enqueue, AbsentRow
<1>3. statusOf' = [statusOf EXCEPT ![j] = "queued"] /\ statusOf[j] = "absent"
  BY <1>1, <1>2, StatusMoved DEF statusOf
<1>4. attemptsOf' = attemptsOf
  BY <1>1, <1>2, AttemptsSame
<1> QED BY <1>2, <1>3, <1>4 DEF Lifecycle!Submit, Lifecycle!Move

LEMMA ClaimStarts ==
  ASSUME LifeInv, NEW w \in Workers, NEW j \in Jobs, Claim(w, j)
  PROVE  Lifecycle!Start(j)
<1>1. row \in [Jobs -> Row] /\ row[j].status = "queued" /\ versions' = versions
  BY DEF LifeInv, SaveInv, TypeInv, TypeOK, Claim, NextJob, Runnable
<1>2. /\ row'[j].status = "running" /\ row'[j].attempts = row[j].attempts + 1
      /\ \A k \in Jobs \ {j} : row'[k] = row[k]
  BY <1>1, ClaimedIsRow DEF Claim
<1>3. statusOf' = [statusOf EXCEPT ![j] = "running"] /\ statusOf[j] = "queued"
  BY <1>1, <1>2, StatusMoved DEF statusOf
<1>4. attemptsOf' = [attemptsOf EXCEPT ![j] = @ + 1]
  BY <1>2 DEF attemptsOf
<1> QED BY <1>1, <1>3, <1>4 DEF Lifecycle!Start, Lifecycle!Move

\* The attempt that saves has not saved before: its version is the next one,
\* and there are fewer versions than attempts.
LEMMA CommitStores ==
  ASSUME LifeInv, NEW w \in Workers, CommitItinerary(w)
  PROVE  \E j \in Jobs : Lifecycle!Store(j)
<1>1. /\ TypeInv /\ TypeOK /\ row' = row
      /\ worker[w].pc = "insert" /\ worker[w].pc \in Unsaved /\ Busy(w)
      /\ worker[w].version \notin versions[Job(w)]
      /\ versions' = [versions EXCEPT ![Job(w)] = @ \cup {worker[w].version}]
  BY Names DEF LifeInv, SaveInv, TypeInv, CommitItinerary, Advance, Unsaved, Busy
<1>2. PICK j \in Jobs : j = Job(w) /\ Holds(w, j)
  BY <1>1, HolderRuns DEF LifeInv, Holds
<1>3. row[j].attempts \in Nat /\ row[j].status = "running"
  BY <1>1, <1>2, HolderRuns DEF LifeInv, TypeOK, Row
<1>4. PICK S \in SUBSET (1 .. row[j].attempts) :
        versions[j] = 1 .. Cardinality(S) /\ worker[w].attempt \notin S
  BY <1>1, <1>2 DEF LifeInv, SaveInv, SaveOk, SavedBy
<1>5. worker[w].attempt \in 1 .. row[j].attempts
  BY <1>2 DEF LifeInv, SaveInv, SaveOk, OwnAttempts
<1>6. Cardinality(S) \in 0 .. row[j].attempts - 1
  <2>1. IsFiniteSet(S) /\ Cardinality(S) \in Nat
    BY <1>3, SomeOfTheFirst
  <2>2. Cardinality(S \cup {worker[w].attempt}) = Cardinality(S) + 1
    BY <1>4, <2>1, FS_AddElement
  <2>3. S \cup {worker[w].attempt} \in SUBSET (1 .. row[j].attempts)
    BY <1>5
  <2>4. Cardinality(S \cup {worker[w].attempt}) \in 0 .. row[j].attempts
    BY <1>3, <2>3, SomeOfTheFirst
  <2> QED BY <1>3, <2>1, <2>2, <2>4
<1>7. versions' = [versions EXCEPT ![j] = 1 .. Cardinality(S) + 1]
  <2>1. PICK n \in Nat : versions[j] = 1 .. n /\ worker[w].version \in 1 .. n + 1
    BY <1>1, <1>2 DEF TypeInv, Dense, Job
  <2>2. n = Cardinality(S)
    <3>1. Cardinality(S) \in Nat
      BY <1>6
    <3> QED BY <1>4, <2>1, <3>1, SameLength
  <2>3. worker[w].version = n + 1
    BY <1>1, <1>2, <2>1
  <2>4. versions[j] \cup {worker[w].version} = 1 .. n + 1
    BY <2>1, <2>3
  <2> QED BY <1>1, <1>2, <2>2, <2>4
<1>8. statusOf' = statusOf /\ attemptsOf' = attemptsOf
  BY <1>1 DEF statusOf, attemptsOf
<1>9. statusOf[j] = "running" /\ attemptsOf[j] = row[j].attempts
  BY <1>3 DEF statusOf, attemptsOf
<1>10. Lifecycle!Store(j)
  BY <1>4, <1>6, <1>7, <1>8, <1>9 DEF Lifecycle!Store
<1> QED BY <1>10

\* The end of an attempt delivers, parks or gives back the job.
LEMMA EndOfAttempt ==
  ASSUME LifeInv, NEW w \in Workers, Succeed(w) \/ FailRetry(w) \/ FailPark(w)
  PROVE  Lifecycle!Next
<1>0. TypeOK /\ OwnInv
  BY DEF LifeInv, OwnInv, TypeInv
<1>1. PICK j \in Jobs : j = Job(w) /\ Holds(w, j)
  BY <1>0, RowIsLetGo DEF Holds
<1>2. /\ row[j].status = "running" /\ versions' = versions
      /\ \A k \in Jobs \ {j} : row'[k] = row[k]
      /\ row'[j].attempts = row[j].attempts
      /\ \/ row'[j].status = "succeeded" /\ Succeed(w)
         \/ row'[j].status = "queued"
         \/ row'[j].status = "failed"
  BY <1>0, <1>1, RowIsLetGo, HolderRuns
<1>3. attemptsOf' = attemptsOf /\ statusOf[j] = "running"
  BY <1>2, AttemptsSame DEF statusOf
<1>4. CASE row'[j].status = "succeeded" /\ Succeed(w)
  <2>1. versions[j] # {}
    BY <1>1, <1>4 DEF LifeInv, SaveInv, SaveOk, SavedFirst, Succeed
  <2>2. statusOf' = [statusOf EXCEPT ![j] = "succeeded"]
    BY <1>2, <1>4, StatusMoved
  <2>3. Lifecycle!Deliver(j)
    BY <1>2, <1>3, <2>1, <2>2 DEF Lifecycle!Deliver, Lifecycle!Move
  <2> QED BY <2>3 DEF Lifecycle!Next
<1>5. CASE row'[j].status = "queued"
  BY <1>2, <1>5, LifeGivesBack
<1>6. CASE row'[j].status = "failed"
  <2>1. statusOf' = [statusOf EXCEPT ![j] = "failed"]
    BY <1>2, <1>6, StatusMoved
  <2>2. Lifecycle!Park(j)
    BY <1>2, <1>3, <2>1 DEF Lifecycle!Park, Lifecycle!Move
  <2> QED BY <2>2 DEF Lifecycle!Next
<1> QED BY <1>2, <1>4, <1>5, <1>6

LEMMA NextLife ==
  ASSUME LifeInv, [Next]_vars
  PROVE  [Lifecycle!Next]_Lifecycle!lifecycleVars
<1>0. TypeOK /\ row \in [Jobs -> Row]
  BY DEF LifeInv, OwnInv, TypeInv, TypeOK
<1>1. ASSUME NEW j \in Jobs, Enqueue(j) PROVE Lifecycle!Next
  BY <1>1, EnqueueSubmits DEF Lifecycle!Next
<1>2. ASSUME NEW w \in Workers, NEW j \in Jobs, Claim(w, j) PROVE Lifecycle!Next
  BY <1>2, ClaimStarts DEF Lifecycle!Next
<1>3. ASSUME NEW w \in Workers, CommitItinerary(w) PROVE Lifecycle!Next
  BY <1>3, CommitStores DEF Lifecycle!Next
<1>4. ASSUME NEW w \in Workers, Succeed(w) \/ FailRetry(w) \/ FailPark(w)
      PROVE  Lifecycle!Next
  BY <1>4, EndOfAttempt
<1>5. ASSUME NEW w \in Workers, ReclaimStale(w) PROVE Lifecycle!Next
  <2>1. ASSUME NEW k \in Jobs
        PROVE  /\ row'[k].attempts = row[k].attempts
               /\ \/ row'[k].status = row[k].status
                  \/ row[k].status = "running" /\ row'[k].status = "queued"
    BY <1>0, <1>5, ReleasedIsRow, Names DEF ReclaimStale, Stale
  <2> QED BY <1>5, <2>1, LifeGivesBack DEF ReclaimStale
<1>6. ASSUME NEW w \in Workers, SetStage(w)
      PROVE  [Lifecycle!Next]_Lifecycle!lifecycleVars
  <2>1. Job(w) \in Jobs
    BY <1>0, <1>6, Names DEF SetStage, Advance, TypeOK, WellFormed, Job
  <2> QED BY <1>0, <1>6, <2>1, LifeStutters DEF SetStage, Row
<1>7. ASSUME NEW w \in Workers,
             \/ LeaveLoop(w) \/ ClaimNothing(w) \/ LoadBrief(w) \/ Generate(w)
             \/ EngineFails(w) \/ ReadNextVersion(w) \/ VersionTaken(w)
             \/ StepFails(w) \/ Fault(w) \/ StartLoop(w)
      PROVE  [Lifecycle!Next]_Lifecycle!lifecycleVars
  <2>1. row' = row /\ versions' = versions
    BY <1>7
    DEF LeaveLoop, ClaimNothing, LoadBrief, Generate, EngineFails, ReadNextVersion,
        VersionTaken, StepFails, Fault, Kill, LoopRaises, RequestStop, CancelTask,
        StartOnce, StartLoop
  <2> QED BY <2>1, LifeStutters
<1>8. CASE Tick
  BY <1>0, <1>8, LifeStutters DEF Tick, Row
<1>9. CASE UNCHANGED vars
  BY <1>9, LifeStutters DEF vars
<1> QED
  BY <1>1, <1>2, <1>3, <1>4, <1>5, <1>6, <1>7, <1>8, <1>9
  DEF Next, WorkerStep, RunJob

\* If the lock timeout outlasts every run_job, the queue implements the life
\* cycle: whatever workers, clocks, crashes and retries do, each of their steps
\* is a step in the life of one job, a giving back of jobs, or nothing.
THEOREM QueueImplementsLifecycle ==
  ASSUME MaxRun <= LockTimeout PROVE Spec => ImplementsLifecycle
<1>1. Init => Lifecycle!Init
  BY DEF Init, AbsentRow, statusOf, attemptsOf, Lifecycle!Init
<1>2. LifeInv /\ [Next]_vars => [Lifecycle!Next]_Lifecycle!lifecycleVars
  BY NextLife
<1>3. OwnInv /\ SaveInv => LifeInv
  BY DEF LifeInv
<1> QED
  BY <1>1, <1>2, <1>3, OwnInvariant, SaveInvariant, PTL
  DEF Spec, ImplementsLifecycle, Lifecycle!Spec

-----------------------------------------------------------------------------
(* The page that waits for a plan. *)

\* What a poll brings, and a page.
Answer == [status : Status, error : Error, attempts : Nat, version : Nat]
Page   == [at : {"closed", "ask", "read", "reply", "timer", "ended"},
           answer : Answer, shown : Answer, polls : Nat,
           timedOut : BOOLEAN, error : BOOLEAN]

\* An answer that says the job is over says how it is over; with the itinerary
\* read, a success comes with the last version there will be.
Final(j, a) ==
  a.status \in Settled => /\ a.status = row[j].status
                          /\ a.error = row[j].error
                          /\ a.attempts = row[j].attempts
Complete(j, a) == a.status = "succeeded" => a.version = Latest(j) /\ a.version > 0

\* Only an ended page shows that a job is over.
PageOk(j) ==
  /\ Final(j, page[j].answer) /\ Final(j, page[j].shown)
  /\ page[j].at = "reply" => Complete(j, page[j].answer)
  /\ Complete(j, page[j].shown)
  /\ page[j].shown.status \in Settled => page[j].at = "ended"

\* A parked job says why, and was refused by the engine or had its attempts.
ParkedRow(j) ==
  row[j].status = "failed" => /\ row[j].error # "none"
                              /\ row[j].error = "engine" \/ row[j].attempts >= MaxAttempts

PageInv ==
  /\ LifeInv
  /\ \A j \in Jobs : ParkedRow(j)
  /\ page \in [Watched -> Page]
  /\ \A j \in Watched : PageOk(j)

LEMMA LatestOf ==
  ASSUME SaveInv, NEW j \in Jobs
  PROVE  Latest(j) \in Nat /\ (versions[j] # {} => Latest(j) > 0)
<1>1. PICK n \in Nat : versions[j] = 1 .. n
  BY DEF SaveInv, TypeInv, Dense
<1>2. CASE n = 0
  BY <1>1, <1>2 DEF Latest
<1>3. CASE n > 0
  <2>1. n \in versions[j] /\ \A u \in versions[j] : u <= n
    BY <1>1, <1>3
  <2>2. ASSUME NEW v \in versions[j], \A u \in versions[j] : u <= v PROVE v = n
    <3>1. v \in 1 .. n /\ n <= v
      BY <1>1, <2>1, <2>2
    <3> QED BY <3>1
  <2>3. (CHOOSE v \in versions[j] : \A u \in versions[j] : u <= v) = n
    BY <2>1, <2>2
  <2> QED BY <1>3, <2>1, <2>3 DEF Latest
<1> QED BY <1>1, <1>2, <1>3

\* Once a job is settled, neither its row nor its itineraries change.
LEMMA SettledFrozen ==
  ASSUME LifeInv, [Next]_vars, NEW j \in Jobs, row[j].status \in Settled
  PROVE  row'[j] = row[j] /\ versions'[j] = versions[j]
<1>0. OwnInv /\ versions \in [Jobs -> SUBSET (Nat \ {0})] /\ row[j].status # "running"
  BY DEF LifeInv, OwnInv, TypeInv, TypeOK, Settled
<1>1. ASSUME NEW w \in Workers, CommitItinerary(w) PROVE versions'[j] = versions[j]
  <2>1. Busy(w) /\ Job(w) # j
    BY <1>0, <1>1, Names, HolderRuns DEF CommitItinerary, Advance, Busy
  <2> QED BY <1>0, <1>1, <2>1 DEF CommitItinerary
<1>2. CASE \A w \in Workers : ~CommitItinerary(w)
  <2>1. UNCHANGED vars => versions' = versions
    BY DEF vars
  <2>2. Tick => versions' = versions
    BY DEF Tick
  <2>3. versions' = versions
    BY <1>2, <2>1, <2>2
    DEF Next, WorkerStep, RunJob, Fault, Enqueue, LeaveLoop, ReclaimStale, Claim,
        ClaimNothing, LoadBrief, Generate, EngineFails, SetStage, ReadNextVersion,
        VersionTaken, Succeed, StepFails, FailRetry, FailPark, Kill, LoopRaises,
        RequestStop, CancelTask, StartLoop, StartOnce
  <2> QED BY <1>0, <2>3, SettledStep
<1> QED BY <1>0, <1>1, <1>2, SettledStep

\* A job that is parked in a step was parked by fail, in the hands of its runner.
LEMMA ParkedByFail ==
  ASSUME LifeInv, [Next]_vars, NEW j \in Jobs,
         row[j].status # "failed", row'[j].status = "failed"
  PROVE  \E w \in Workers : FailPark(w) /\ j = Job(w)
<1>0. TypeOK /\ row \in [Jobs -> Row]
  BY DEF LifeInv, OwnInv, TypeInv, TypeOK
<1>1. ASSUME NEW k \in Jobs, Enqueue(k) PROVE FALSE
  BY <1>0, <1>1 DEF Enqueue, AbsentRow
<1>2. ASSUME NEW w \in Workers, ReclaimStale(w) PROVE FALSE
  BY <1>0, <1>2, ReleasedIsRow, Names DEF ReclaimStale
<1>3. ASSUME NEW w \in Workers, NEW k \in Jobs, Claim(w, k) PROVE FALSE
  BY <1>0, <1>3, ClaimedIsRow DEF Claim
<1>4. ASSUME NEW w \in Workers, SetStage(w) PROVE FALSE
  BY <1>0, <1>4 DEF SetStage, Row
<1>5. ASSUME NEW w \in Workers, Succeed(w) \/ FailRetry(w) \/ FailPark(w)
      PROVE  FailPark(w) /\ j = Job(w)
  BY <1>0, <1>5, RowIsLetGo
<1>6. CASE Tick
  BY <1>0, <1>6 DEF Tick, Row
<1>7. ASSUME NEW w \in Workers,
             \/ LeaveLoop(w) \/ ClaimNothing(w) \/ LoadBrief(w) \/ Generate(w)
             \/ EngineFails(w) \/ ReadNextVersion(w) \/ CommitItinerary(w)
             \/ VersionTaken(w) \/ StepFails(w) \/ Fault(w) \/ StartLoop(w)
      PROVE  FALSE
  BY <1>7
  DEF LeaveLoop, ClaimNothing, LoadBrief, Generate, EngineFails, ReadNextVersion,
      CommitItinerary, VersionTaken, StepFails, Fault, Kill, LoopRaises, RequestStop,
      CancelTask, StartOnce, StartLoop
<1>8. CASE UNCHANGED vars
  BY <1>8 DEF vars
<1> QED
  BY <1>1, <1>2, <1>3, <1>4, <1>5, <1>6, <1>7, <1>8 DEF Next, WorkerStep, RunJob

LEMMA ParkedKept ==
  ASSUME LifeInv, [Next]_vars, NEW j \in Jobs, ParkedRow(j)
  PROVE  ParkedRow(j)'
<1> SUFFICES ASSUME row'[j].status = "failed" PROVE ParkedRow(j)'
  BY DEF ParkedRow
<1>1. CASE row[j].status = "failed"
  BY <1>1, SettledStep DEF ParkedRow, Settled, LifeInv
<1>2. CASE row[j].status # "failed"
  <2>1. PICK w \in Workers : FailPark(w) /\ j = Job(w)
    BY <1>2, ParkedByFail
  <2>2. /\ TypeOK /\ row \in [Jobs -> Row] /\ Busy(w) /\ Job(w) \in Jobs
        /\ row[j].attempts = worker[w].attempt
        /\ row'[j].attempts = row[j].attempts
    BY <2>1, RowIsLetGo, HolderRuns DEF LifeInv, OwnInv, TypeInv, TypeOK, Owned
  <2>3. row'[j].error = IF worker[w].permanent THEN "engine" ELSE "transient"
    BY <2>1, <2>2, ReleasedIsRow, Names DEF FailPark, FailedRow, Row
  <2>4. worker[w].permanent \/ worker[w].attempt >= MaxAttempts
    BY <2>1 DEF FailPark, WillRetry, IsFinalAttempt
  <2> QED BY <2>2, <2>3, <2>4 DEF ParkedRow
<1> QED BY <1>1, <1>2

LEMMA InitPage == PageInit => PageInv
<1> SUFFICES ASSUME PageInit PROVE PageInv
  OBVIOUS
<1>1. Nothing \in Answer /\ Nothing.status = "absent"
  BY Names DEF Nothing, Answer
<1>2. LifeInv
  BY InitOwn, InitSave DEF LifeInv, PageInit
<1>3. \A j \in Jobs : ParkedRow(j)
  BY DEF PageInit, Init, AbsentRow, ParkedRow
<1>4. /\ [Fresh EXCEPT !.at = "closed"] \in Page
      /\ [Fresh EXCEPT !.at = "closed"].answer = Nothing
      /\ [Fresh EXCEPT !.at = "closed"].shown = Nothing
      /\ [Fresh EXCEPT !.at = "closed"].at = "closed"
  BY <1>1 DEF Fresh, Page
<1>5. \A j \in Watched : page[j] = [Fresh EXCEPT !.at = "closed"]
  BY DEF PageInit
<1>6. page \in [Watched -> Page]
  BY <1>4 DEF PageInit
<1>7. \A j \in Watched : PageOk(j)
  BY <1>1, <1>4, <1>5 DEF PageOk, Final, Complete, Settled
<1> QED BY <1>2, <1>3, <1>6, <1>7 DEF PageInv

\* Whatever the queue does while the page stands still.
LEMMA QueueKeepsPage ==
  ASSUME PageInv, [Next]_vars, UNCHANGED page, NEW j \in Watched
  PROVE  PageOk(j)'
<1>1. j \in Jobs /\ LifeInv /\ PageOk(j)
  BY PageAssumption DEF PageInv
<1>2. row[j].status \in Settled => row'[j] = row[j] /\ Latest(j)' = Latest(j)
  <2>1. row[j].status \in Settled => row'[j] = row[j] /\ versions'[j] = versions[j]
    BY <1>1, SettledFrozen
  <2>2. versions'[j] = versions[j] => Latest(j)' = Latest(j)
    BY DEF Latest
  <2> QED BY <2>1, <2>2
<1>3. ASSUME NEW a, Final(j, a) PROVE Final(j, a)'
  BY <1>2, <1>3 DEF Final
<1>4. ASSUME NEW a, Final(j, a), Complete(j, a) PROVE Complete(j, a)'
  BY <1>2, <1>4 DEF Final, Complete, Settled
<1> QED BY <1>1, <1>3, <1>4 DEF PageOk

\* A page that is replaced by another that is in order.
LEMMA PagePut ==
  ASSUME PageInv, UNCHANGED vars, NEW j \in Watched, NEW s \in Page,
         page' = [page EXCEPT ![j] = s],
         Final(j, s.answer), Final(j, s.shown),
         s.at = "reply" => Complete(j, s.answer),
         Complete(j, s.shown),
         s.shown.status \in Settled => s.at = "ended"
  PROVE  page' \in [Watched -> Page] /\ \A k \in Watched : PageOk(k)'
<1>0. page \in [Watched -> Page] /\ \A k \in Watched : PageOk(k)
  BY DEF PageInv
<1>1. \A k \in Watched : page'[k] = IF k = j THEN s ELSE page[k]
  BY <1>0
<1>2. row' = row /\ versions' = versions
  BY DEF vars
<1>3. \A k \in Watched : Latest(k)' = Latest(k)
  BY <1>2 DEF Latest
<1>4. ASSUME NEW k \in Watched PROVE PageOk(k)'
  <2>1. CASE k = j
    BY <1>1, <1>2, <1>3, <2>1 DEF PageOk, Final, Complete
  <2>2. CASE k # j
    <3>1. page'[k] = page[k] /\ PageOk(k)
      BY <1>0, <1>1, <2>2
    <3> QED BY <1>2, <1>3, <3>1 DEF PageOk, Final, Complete
  <2> QED BY <2>1, <2>2
<1> QED BY <1>0, <1>4

LEMMA StepKeepsPage ==
  ASSUME PageInv, PageStep, UNCHANGED vars
  PROVE  page' \in [Watched -> Page] /\ \A k \in Watched : PageOk(k)'
<1>0. /\ page \in [Watched -> Page] /\ \A k \in Watched : PageOk(k)
      /\ Nothing \in Answer /\ Nothing.status = "absent"
      /\ "absent" \notin Settled
  BY Names DEF PageInv, Nothing, Answer, Settled
<1>1. \A j \in Watched : Final(j, Nothing) /\ Complete(j, Nothing)
  BY <1>0 DEF Final, Complete
<1>2. ASSUME NEW j \in Watched, Open(j) \/ Reload(j)
      PROVE  page' \in [Watched -> Page] /\ \A k \in Watched : PageOk(k)'
  <2>1. Fresh \in Page /\ Fresh.answer = Nothing /\ Fresh.shown = Nothing /\ Fresh.at = "ask"
    BY <1>0 DEF Fresh, Page
  <2>2. page' = [page EXCEPT ![j] = Fresh]
    BY <1>2 DEF Open, Reload
  <2> HIDE DEF Fresh
  <2> QED BY <1>0, <1>1, <2>1, <2>2, PagePut
<1>3. ASSUME NEW j \in Watched, ReadJob(j)
      PROVE  page' \in [Watched -> Page] /\ \A k \in Watched : PageOk(k)'
  <2> DEFINE a == [Nothing EXCEPT !.status = row[j].status, !.error = row[j].error,
                                  !.attempts = row[j].attempts]
             s == [page[j] EXCEPT !.at = "read", !.answer = a]
  <2>1. row[j] \in Row
    BY PageAssumption DEF PageInv, LifeInv, OwnInv, TypeInv, TypeOK
  <2>2. /\ a \in Answer /\ a.status = row[j].status /\ a.error = row[j].error
        /\ a.attempts = row[j].attempts
    BY <2>1 DEF Row, Nothing, Answer
  <2> HIDE DEF a
  <2>3. /\ s \in Page /\ s.answer = a /\ s.shown = page[j].shown /\ s.at = "read"
    BY <1>0, <2>2 DEF Page
  <2>4. page' = [page EXCEPT ![j] = s] /\ page[j].at = "ask"
    BY <1>0, <1>3 DEF ReadJob, Page, a
  <2> HIDE DEF s
  <2>5. Final(j, a) /\ PageOk(j)
    BY <1>0, <2>2 DEF Final
  <2> QED BY <2>3, <2>4, <2>5, PagePut DEF PageOk
<1>4. ASSUME NEW j \in Watched, ReadItinerary(j)
      PROVE  page' \in [Watched -> Page] /\ \A k \in Watched : PageOk(k)'
  <2> DEFINE a == [page[j].answer EXCEPT !.version = Latest(j)]
             s == [page[j] EXCEPT !.at = "reply", !.answer = a]
  <2>1. j \in Jobs /\ SaveInv /\ PageOk(j) /\ page[j] \in Page
    BY <1>0, PageAssumption DEF PageInv, LifeInv
  <2>2. /\ a \in Answer /\ a.status = page[j].answer.status
        /\ a.error = page[j].answer.error /\ a.attempts = page[j].answer.attempts
        /\ a.version = Latest(j)
    BY <2>1, LatestOf DEF Page, Answer
  <2> HIDE DEF a
  <2>3. s \in Page /\ s.answer = a /\ s.shown = page[j].shown /\ s.at = "reply"
    BY <2>1, <2>2 DEF Page
  <2>4. page' = [page EXCEPT ![j] = s] /\ page[j].at = "read"
    BY <1>0, <1>4 DEF ReadItinerary, Page, a
  <2> HIDE DEF s
  <2>5. Final(j, a)
    BY <2>1, <2>2 DEF PageOk, Final
  <2>6. Complete(j, a)
    BY <2>1, <2>2, <2>5, LatestOf DEF Complete, Final, SaveInv, SaveOk, SavedFirst, Settled
  <2> QED BY <2>1, <2>3, <2>4, <2>5, <2>6, PagePut DEF PageOk
<1>5. ASSUME NEW j \in Watched, Receive(j)
      PROVE  page' \in [Watched -> Page] /\ \A k \in Watched : PageOk(k)'
  <2>1. PageOk(j) /\ page[j] \in Page /\ page[j].at = "reply"
    BY <1>0, <1>5 DEF Receive
  <2>2. Final(j, page[j].answer) /\ Complete(j, page[j].answer)
    BY <2>1 DEF PageOk
  <2>3. CASE Finished(page[j].answer)
    <3> DEFINE s == [page[j] EXCEPT !.at = "ended", !.shown = page[j].answer,
                                    !.answer = Nothing]
    <3>1. /\ s \in Page /\ s.answer = Nothing /\ s.shown = page[j].answer
          /\ s.at = "ended"
      BY <1>0, <2>1 DEF Page
    <3>2. page' = [page EXCEPT ![j] = s]
      BY <1>5, <2>3 DEF Receive
    <3> HIDE DEF s
    <3> QED BY <1>1, <2>2, <3>1, <3>2, PagePut
  <2>4. CASE ~Finished(page[j].answer)
    <3> DEFINE spent == page[j].polls + 1 >= MaxPolls
               s == [page[j] EXCEPT !.at = IF spent THEN "ended" ELSE "timer",
                                    !.answer = Nothing, !.shown = page[j].answer,
                                    !.polls = @ + 1, !.timedOut = spent]
    <3>1. page[j].polls + 1 \in Nat /\ spent \in BOOLEAN
      BY <2>1 DEF Page
    <3>2. page' = [page EXCEPT ![j] = s]
      BY <1>5, <2>4 DEF Receive
    <3> HIDE DEF spent
    <3>3. /\ s \in Page /\ s.answer = Nothing /\ s.shown = page[j].answer
          /\ s.at # "reply"
      BY <1>0, <2>1, <3>1 DEF Page
    <3> HIDE DEF s
    <3> QED BY <1>1, <2>2, <2>4, <3>2, <3>3, PagePut DEF Finished
  <2> QED BY <2>3, <2>4
<1>6. ASSUME NEW j \in Watched, LoseContact(j)
      PROVE  page' \in [Watched -> Page] /\ \A k \in Watched : PageOk(k)'
  <2> DEFINE s == [page[j] EXCEPT !.at = "ended", !.error = TRUE, !.answer = Nothing]
  <2>1. /\ s \in Page /\ s.answer = Nothing /\ s.shown = page[j].shown
        /\ s.at = "ended"
    BY <1>0 DEF Page
  <2>2. page' = [page EXCEPT ![j] = s] /\ PageOk(j)
    BY <1>0, <1>6 DEF LoseContact
  <2> HIDE DEF s
  <2> QED BY <1>1, <2>1, <2>2, PagePut DEF PageOk
<1>7. ASSUME NEW j \in Watched, PollAgain(j)
      PROVE  page' \in [Watched -> Page] /\ \A k \in Watched : PageOk(k)'
  <2> DEFINE s == [page[j] EXCEPT !.at = "ask"]
  <2>1. /\ s \in Page /\ s.answer = page[j].answer /\ s.shown = page[j].shown
        /\ s.at = "ask"
    BY <1>0 DEF Page
  <2>2. page' = [page EXCEPT ![j] = s] /\ PageOk(j) /\ page[j].at = "timer"
    BY <1>0, <1>7 DEF PollAgain
  <2> HIDE DEF s
  <2> QED BY <2>1, <2>2, PagePut DEF PageOk
<1> QED
  BY <1>2, <1>3, <1>4, <1>5, <1>6, <1>7 DEF PageStep, Poll

LEMMA NextPage ==
  ASSUME MaxRun <= LockTimeout
  PROVE  PageInv /\ [PageNext]_pageVars => PageInv'
<1> SUFFICES ASSUME PageInv, [PageNext]_pageVars PROVE PageInv'
  OBVIOUS
<1>1. [Next]_vars /\ (UNCHANGED page \/ (PageStep /\ UNCHANGED vars))
  BY DEF PageNext, pageVars
<1>2. LifeInv'
  BY <1>1, NextOwn, NextSave DEF PageInv, LifeInv
<1>3. \A j \in Jobs : ParkedRow(j)'
  BY <1>1, ParkedKept DEF PageInv
<1>4. page' \in [Watched -> Page] /\ \A k \in Watched : PageOk(k)'
  <2>1. CASE UNCHANGED page
    BY <1>1, <2>1, QueueKeepsPage DEF PageInv
  <2>2. CASE PageStep /\ UNCHANGED vars
    BY <2>2, StepKeepsPage
  <2> QED BY <1>1, <2>1, <2>2
<1> QED BY <1>2, <1>3, <1>4 DEF PageInv

LEMMA PageInvariant == ASSUME MaxRun <= LockTimeout PROVE PageFairSpec => []PageInv
BY InitPage, NextPage, PTL DEF PageFairSpec

\* If the lock timeout outlasts every run_job, a page whose job has succeeded
\* shows the itinerary, and no later version will follow it: the poll reads the
\* job before the itinerary.
THEOREM SuccessIsShown ==
  ASSUME MaxRun <= LockTimeout PROVE PageFairSpec => []SuccessShowsThePlan
<1>1. PageInv => SuccessShowsThePlan
  BY Names DEF PageInv, SuccessShowsThePlan, PageOk, Complete, ShowsItinerary
<1> QED BY <1>1, PageInvariant, PTL

\* Under the same condition, a page says that a plan could not be built only of
\* a job that is parked for good, with its reason, its attempts used up or the
\* engine refusing it.
THEOREM FailureIsFinal ==
  ASSUME MaxRun <= LockTimeout PROVE PageFairSpec => []FailureIsTheEnd
<1>1. PageInv => FailureIsTheEnd
  <2> SUFFICES ASSUME PageInv, NEW j \in Watched, ShowsFailure(j)
               PROVE  LET seen == page[j].shown
                      IN  /\ page[j].at \notin {"timer", "ask"} /\ row[j].status = "failed"
                          /\ seen.error = row[j].error /\ seen.error # "none"
                          /\ seen.error = "engine" \/ seen.attempts >= MaxAttempts
    BY DEF FailureIsTheEnd
  <2>1. PageOk(j) /\ page[j].shown.status = "failed" /\ ParkedRow(j)
    BY PageAssumption DEF PageInv, ShowsFailure
  <2> QED BY <2>1 DEF PageOk, Final, ParkedRow, Settled
<1> QED BY <1>1, PageInvariant, PTL
=============================================================================
