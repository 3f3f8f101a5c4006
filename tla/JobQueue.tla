------------------------------ MODULE JobQueue ------------------------------
(***************************************************************************)
(* The itinerary job queue and the workers that drain it                    *)
(* (jobs/queue.py, jobs/worker.py, and the writes of store/itineraries.py   *)
(* that a worker performs).                                                 *)
(*                                                                          *)
(* The queue is one Postgres table.  Every statement of queue.py is a       *)
(* single auto-committed UPDATE, so every statement is one atomic action;   *)
(* everything a worker does between two statements is interleaved with the  *)
(* other workers, with the API, with time and with faults.                  *)
(*                                                                          *)
(* Time is counted in ticks.  run_after is kept as the ticks left until it  *)
(* passes (`wait'), together with the order of the run_after values         *)
(* (`earlier'); locked_at is kept as the age of the lock (`age').           *)
(***************************************************************************)
EXTENDS Integers, FiniteSets

CONSTANTS
  Jobs,          \* one job per trip request: create_plan enqueues exactly one
  Workers,       \* worker loops, in any process
  Embedded,      \* the loops that run as a task inside the API process
  NoJob,         \* "this worker holds no job"
  NoWorker,      \* locked_by IS NULL
  MaxAttempts,   \* itinerary_jobs.max_attempts (3 by default)
  LockTimeout,   \* worker.lock_timeout_seconds, in ticks
  MaxRun,        \* bound: the longest a live worker spends on one job, in ticks
  MaxStep,       \* bound: the longest it spends on one await of that job
  Backoff,       \* ticks of backoff after the a-th attempt
  MaxKills,      \* bound: crashes and raised loops in one behaviour
  MaxStops       \* bound: operator stops and one-shot runs in one behaviour

ASSUME SetsAssumption ==
  /\ Embedded \subseteq Workers
  /\ NoJob \notin Jobs
  /\ NoWorker \notin Workers

ASSUME NumbersAssumption ==
  /\ MaxAttempts \in Nat \ {0}
  /\ LockTimeout \in Nat
  /\ MaxRun \in Nat
  /\ MaxStep \in Nat
  /\ MaxKills \in Nat
  /\ MaxStops \in Nat
  /\ Backoff \in [1 .. MaxAttempts -> Nat]

VARIABLES
  row,        \* the itinerary_jobs table
  wait,       \* run_after - now(), not below zero
  earlier,    \* <<j, k>>: run_after of j sorts before run_after of k
  versions,   \* the itineraries table: the versions saved for each request
  worker,     \* each worker loop: program counter and the ClaimedJob it holds
  stopping,   \* the loops whose stop event is set
  kills,      \* faults so far (a bound, never read by the program)
  stops       \* operator interventions so far (likewise)

vars == <<row, wait, earlier, versions, worker, stopping, kills, stops>>

-----------------------------------------------------------------------------
(* The rows and the program counters. *)

Status   == {"absent", "queued", "running", "succeeded", "failed"}
Settled  == {"succeeded", "failed"}
Stage    == {"none", "retrieval", "assemble"}
Error    == {"none", "transient", "engine"}

Row == [status   : Status,
        stage    : Stage,
        attempts : Nat,
        lockedBy : Workers \cup {NoWorker},
        age      : 0 .. LockTimeout + 1,
        error    : Error]

\* run_job, in the order it awaits: load_brief, generate, set_stage, the two
\* statements of save_itinerary, succeed; "fail" is any of its except clauses.
Working == {"load", "generate", "stage", "save", "insert", "succeed", "fail"}
\* "stopped": the loop ended in an orderly way.  "down": it was killed, or it
\* raised and took its process along.  "detached": it raised inside the API
\* process, which goes on serving without it.
Off     == {"stopped", "down", "detached"}
Loop    == {"poll", "claim"}

WorkerState == [pc        : Loop \cup Working \cup Off,
                job       : Jobs \cup {NoJob},
                attempt   : Nat,          \* ClaimedJob.attempts, as claimed
                elapsed   : 0 .. MaxRun,  \* ticks since the claim
                inStep    : 0 .. MaxStep, \* ticks since pc last changed
                permanent : BOOLEAN,
                version   : Nat]          \* next_version, as read

At(pc) == [pc |-> pc, job |-> NoJob, attempt |-> 0, elapsed |-> 0, inStep |-> 0,
           permanent |-> FALSE, version |-> 0]

Busy(w)     == worker[w].pc \in Working
Job(w)      == worker[w].job
Holds(w, j) == Busy(w) /\ Job(w) = j

\* It holds a job exactly while it is running one, claimed at least once.
WellFormed(s) ==
  IF s.pc \in Working THEN s.job \in Jobs /\ s.attempt > 0 ELSE s.job = NoJob

AbsentRow == [status |-> "absent", stage |-> "none", attempts |-> 0,
              lockedBy |-> NoWorker, age |-> 0, error |-> "none"]

\* What every statement that takes a row out of `running' writes to it.
Released(r, status) ==
  [r EXCEPT !.status = status, !.stage = "none", !.lockedBy = NoWorker, !.age = 0]

-----------------------------------------------------------------------------
Init ==
  /\ row      = [j \in Jobs |-> AbsentRow]
  /\ wait     = [j \in Jobs |-> 0]
  /\ earlier  = {}
  /\ versions = [j \in Jobs |-> {}]
  /\ worker   = [w \in Workers |-> At("poll")]
  /\ stopping = {}
  /\ kills    = 0
  /\ stops    = 0

\* Give j a run_after that lies `delay' ticks ahead: it now sorts behind every
\* job that is due by then and before every job that is due later.
Schedule(j, delay) ==
  /\ wait' = [wait EXCEPT ![j] = delay]
  /\ earlier' =
       LET others == {k \in Jobs \ {j} : row[k].status # "absent"}
       IN  {p \in earlier : j \notin {p[1], p[2]}}
             \cup {<<k, j>> : k \in {k \in others : wait[k] <= delay}}
             \cup {<<j, k>> : k \in {k \in others : wait[k] > delay}}

\* create_plan's transaction: the request and its job, run_after = now().
Enqueue(j) ==
  /\ row[j].status = "absent"
  /\ row' = [row EXCEPT ![j] = [AbsentRow EXCEPT !.status = "queued"]]
  /\ Schedule(j, 0)
  /\ UNCHANGED <<versions, worker, stopping, kills, stops>>

-----------------------------------------------------------------------------
(* The loop: stop if asked to, reclaim, claim, run. *)

\* while not self._stopping.is_set()
LeaveLoop(w) ==
  /\ worker[w].pc = "poll"
  /\ w \in stopping
  /\ worker' = [worker EXCEPT ![w] = At("stopped")]
  /\ stopping' = stopping \ {w}
  /\ UNCHANGED <<row, wait, earlier, versions, kills, stops>>

\* Mutant of Stale: locked_at <= now() - timeout.
StaleAtTimeout(j) == row[j].status = "running" /\ row[j].age >= LockTimeout

\* Mutant of Stale: nothing is ever reclaimed.
StaleNever(j) == row[j].status = "running" /\ row[j].age > LockTimeout + 1

Stale(j) == row[j].status = "running" /\ row[j].age > LockTimeout

\* One UPDATE over all stale rows.  run_after and attempts are left alone.
ReclaimStale(w) ==
  /\ worker[w].pc = "poll"
  /\ w \notin stopping
  /\ row' = [j \in Jobs |-> IF Stale(j) THEN Released(row[j], "queued") ELSE row[j]]
  /\ worker' = [worker EXCEPT ![w].pc = "claim"]
  /\ UNCHANGED <<wait, earlier, versions, stopping, kills, stops>>

\* Mutant of Runnable: parked jobs are claimed again.
RunnableAgain(j) == row[j].status \in {"queued", "failed"} /\ wait[j] = 0

Runnable(j) == row[j].status = "queued" /\ wait[j] = 0

\* ORDER BY run_after, created_at ... LIMIT 1
NextJob(j) ==
  /\ Runnable(j)
  /\ \A k \in Jobs : Runnable(k) => <<k, j>> \notin earlier

\* Mutant of Claimed: the attempt is not counted.
ClaimedUncounted(r, w) ==
  [r EXCEPT !.status = "running", !.age = 0, !.lockedBy = w,
            !.stage = "retrieval", !.error = "none"]

\* One UPDATE ... RETURNING: the claim and the attempt it counts.
Claimed(r, w) ==
  [r EXCEPT !.status = "running", !.age = 0, !.lockedBy = w,
            !.attempts = @ + 1, !.stage = "retrieval", !.error = "none"]

Claim(w, j) ==
  /\ worker[w].pc = "claim"
  /\ NextJob(j)
  /\ row' = [row EXCEPT ![j] = Claimed(@, w)]
  /\ worker' = [worker EXCEPT ![w] = [At("load") EXCEPT !.job = j,
                                        !.attempt = row[j].attempts + 1]]
  /\ UNCHANGED <<wait, earlier, versions, stopping, kills, stops>>

ClaimNothing(w) ==
  /\ worker[w].pc = "claim"
  /\ \A j \in Jobs : ~Runnable(j)
  /\ worker' = [worker EXCEPT ![w] = At("poll")]
  /\ UNCHANGED <<row, wait, earlier, versions, stopping, kills, stops>>

-----------------------------------------------------------------------------
(* run_job *)

Advance(w, from, to) ==
  /\ worker[w].pc = from
  /\ worker' = [worker EXCEPT ![w] = [@ EXCEPT !.pc = to, !.inStep = 0]]

\* load_brief found the request (nothing in the program deletes one).
LoadBrief(w) ==
  /\ Advance(w, "load", "generate")
  /\ UNCHANGED <<row, wait, earlier, versions, stopping, kills, stops>>

Generate(w) ==
  /\ Advance(w, "generate", "stage")
  /\ UNCHANGED <<row, wait, earlier, versions, stopping, kills, stops>>

\* except EngineError
EngineFails(w) ==
  /\ worker[w].pc = "generate"
  /\ worker' = [worker EXCEPT ![w] = [@ EXCEPT !.pc = "fail", !.inStep = 0,
                                               !.permanent = TRUE]]
  /\ UNCHANGED <<row, wait, earlier, versions, stopping, kills, stops>>

\* Mutant of SetStage: the job is marked succeeded before the itinerary is saved.
SetStageThenSucceed(w) ==
  /\ Advance(w, "stage", "succeed")
  /\ row' = [row EXCEPT ![Job(w)].stage = "assemble"]
  /\ UNCHANGED <<wait, earlier, versions, stopping, kills, stops>>

\* WHERE id = $1: the statement asks neither who holds the row nor its status.
SetStage(w) ==
  /\ Advance(w, "stage", "save")
  /\ row' = [row EXCEPT ![Job(w)].stage = "assemble"]
  /\ UNCHANGED <<wait, earlier, versions, stopping, kills, stops>>

\* Mutant of NextVersion: the attempt number is taken for the version.
NextVersionOfAttempt(j) == row[j].attempts

NextVersion(j) ==
  IF versions[j] = {} THEN 1
  ELSE 1 + (CHOOSE v \in versions[j] : \A u \in versions[j] : u <= v)

\* SELECT COALESCE(max(version), 0) + 1, the transaction stays open
ReadNextVersion(w) ==
  /\ worker[w].pc = "save"
  /\ worker' = [worker EXCEPT ![w] = [@ EXCEPT !.pc = "insert", !.inStep = 0,
                                               !.version = NextVersion(Job(w))]]
  /\ UNCHANGED <<row, wait, earlier, versions, stopping, kills, stops>>

\* INSERT ... and COMMIT
CommitItinerary(w) ==
  /\ Advance(w, "insert", "succeed")
  /\ worker[w].version \notin versions[Job(w)]
  /\ versions' = [versions EXCEPT ![Job(w)] = @ \cup {worker[w].version}]
  /\ UNCHANGED <<row, wait, earlier, stopping, kills, stops>>

\* UNIQUE (request_id, version) refuses a version another saver committed
VersionTaken(w) ==
  /\ Advance(w, "insert", "fail")
  /\ worker[w].version \in versions[Job(w)]
  /\ UNCHANGED <<row, wait, earlier, versions, stopping, kills, stops>>

\* WHERE id = $1, whoever holds the row by now
Succeed(w) ==
  /\ worker[w].pc = "succeed"
  /\ row' = [row EXCEPT ![Job(w)] = Released(@, "succeeded")]
  /\ worker' = [worker EXCEPT ![w] = At("poll")]
  /\ UNCHANGED <<wait, earlier, versions, stopping, kills, stops>>

\* except (PostgresError, OSError, TimeoutError) and except Exception: any
\* await of run_job may raise before its effect is committed.
StepFails(w) ==
  /\ worker[w].pc \in Working \ {"fail"}
  /\ worker' = [worker EXCEPT ![w] = [@ EXCEPT !.pc = "fail", !.inStep = 0]]
  /\ UNCHANGED <<row, wait, earlier, versions, stopping, kills, stops>>

-----------------------------------------------------------------------------
(* queue.fail, decided by the ClaimedJob in hand and not by the row. *)

\* Mutant of IsFinalAttempt: one attempt too many.
IsFinalAttemptLate(w)  == worker[w].attempt > MaxAttempts

IsFinalAttempt(w) == worker[w].attempt >= MaxAttempts

WillRetry(w) == ~worker[w].permanent /\ ~IsFinalAttempt(w)

FailedRow(w, status) ==
  [Released(row[Job(w)], status)
     EXCEPT !.error = IF worker[w].permanent THEN "engine" ELSE "transient"]

FailRetry(w) ==
  /\ worker[w].pc = "fail"
  /\ WillRetry(w)
  /\ row' = [row EXCEPT ![Job(w)] = FailedRow(w, "queued")]
  /\ Schedule(Job(w), Backoff[worker[w].attempt])
  /\ worker' = [worker EXCEPT ![w] = At("poll")]
  /\ UNCHANGED <<versions, stopping, kills, stops>>

FailPark(w) ==
  /\ worker[w].pc = "fail"
  /\ ~WillRetry(w)
  /\ row' = [row EXCEPT ![Job(w)] = FailedRow(w, "failed")]
  /\ worker' = [worker EXCEPT ![w] = At("poll")]
  /\ UNCHANGED <<wait, earlier, versions, stopping, kills, stops>>

-----------------------------------------------------------------------------
(* Faults, stops and starts. *)

\* The process of w disappears: SIGKILL, out of memory, power.
Kill(w) ==
  /\ kills < MaxKills
  /\ worker[w].pc \notin Off
  /\ kills' = kills + 1
  /\ worker' = [worker EXCEPT ![w] = At("down")]
  /\ stopping' = stopping \ {w}
  /\ UNCHANGED <<row, wait, earlier, versions, stops>>

\* reclaim_stale, claim or fail itself raises: nothing in Worker.run catches it.
LoopRaises(w) ==
  /\ kills < MaxKills
  /\ worker[w].pc \in Loop \cup {"fail"}
  /\ kills' = kills + 1
  /\ worker' = [worker EXCEPT ![w] = At(IF w \in Embedded THEN "detached" ELSE "down")]
  /\ stopping' = stopping \ {w}
  /\ UNCHANGED <<row, wait, earlier, versions, stops>>

\* Mutant of RequestStop: the handler cancels the loop instead of setting the event.
RequestStopCancels(w) ==
  /\ stops < MaxStops
  /\ w \notin Embedded
  /\ worker[w].pc \notin Off
  /\ stops' = stops + 1
  /\ worker' = [worker EXCEPT ![w] = At("stopped")]
  /\ UNCHANGED <<row, wait, earlier, versions, stopping, kills>>

\* SIGTERM or SIGINT of a process of its own: request_stop sets the event.
RequestStop(w) ==
  /\ stops < MaxStops
  /\ w \notin Embedded
  /\ worker[w].pc \notin Off
  /\ stops' = stops + 1
  /\ stopping' = stopping \cup {w}
  /\ UNCHANGED <<row, wait, earlier, versions, worker, kills>>

\* lifespan, on the way out of the API: worker_task.cancel().  CancelledError
\* is no Exception, so run_job's handlers let it through.
CancelTask(w) ==
  /\ stops < MaxStops
  /\ w \in Embedded
  /\ worker[w].pc \notin Off
  /\ stops' = stops + 1
  /\ worker' = [worker EXCEPT ![w] = At("stopped")]
  /\ UNCHANGED <<row, wait, earlier, versions, stopping, kills>>

\* The process is started (again).
StartLoop(w) ==
  /\ worker[w].pc \in {"stopped", "down"}
  /\ worker' = [worker EXCEPT ![w] = At("poll")]
  /\ UNCHANGED <<row, wait, earlier, versions, stopping, kills, stops>>

\* `tripplan worker --once': claim without reclaiming, run that job, return.
StartOnce(w) ==
  /\ stops < MaxStops
  /\ w \notin Embedded
  /\ worker[w].pc \in {"stopped", "down"}
  /\ stops' = stops + 1
  /\ worker' = [worker EXCEPT ![w] = At("claim")]
  /\ stopping' = stopping \cup {w}
  /\ UNCHANGED <<row, wait, earlier, versions, kills>>

\* Time passes.  A live worker is done with its job within MaxRun ticks, and
\* with each await within MaxStep.
Tick ==
  /\ \A w \in Workers : Busy(w) => /\ worker[w].elapsed < MaxRun
                                  /\ worker[w].inStep < MaxStep
  /\ wait' = [j \in Jobs |-> IF wait[j] > 0 THEN wait[j] - 1 ELSE 0]
  /\ row' = [j \in Jobs |->
               IF row[j].status = "running" /\ row[j].age <= LockTimeout
               THEN [row[j] EXCEPT !.age = @ + 1] ELSE row[j]]
  /\ worker' = [w \in Workers |->
                  IF Busy(w) THEN [worker[w] EXCEPT !.elapsed = @ + 1,
                                                    !.inStep = @ + 1]
                  ELSE worker[w]]
  /\ UNCHANGED <<earlier, versions, stopping, kills, stops>>

-----------------------------------------------------------------------------
RunJob(w) ==
  \/ LoadBrief(w) \/ Generate(w) \/ EngineFails(w) \/ SetStage(w)
  \/ ReadNextVersion(w) \/ CommitItinerary(w) \/ VersionTaken(w)
  \/ Succeed(w) \/ StepFails(w) \/ FailRetry(w) \/ FailPark(w)

WorkerStep(w) ==
  \/ LeaveLoop(w) \/ ReclaimStale(w) \/ ClaimNothing(w)
  \/ \E j \in Jobs : Claim(w, j)
  \/ RunJob(w)

Fault(w) ==
  \/ Kill(w) \/ LoopRaises(w) \/ RequestStop(w) \/ CancelTask(w) \/ StartOnce(w)

Next ==
  \/ \E j \in Jobs : Enqueue(j)
  \/ \E w \in Workers : WorkerStep(w) \/ Fault(w) \/ StartLoop(w)
  \/ Tick

Spec == Init /\ [][Next]_vars

\* Time passes, a live event loop goes on running its task, and whatever
\* supervises the worker processes starts a dead one again.
Fairness ==
  /\ WF_vars(Tick)
  /\ \A w \in Workers : WF_vars(WorkerStep(w)) /\ WF_vars(StartLoop(w))

FairSpec == Spec /\ Fairness

-----------------------------------------------------------------------------
(* Properties. *)

TypeOK ==
  /\ row \in [Jobs -> Row]
  /\ wait \in [Jobs -> Nat]
  /\ earlier \subseteq Jobs \X Jobs
  /\ versions \in [Jobs -> SUBSET (Nat \ {0})]
  /\ worker \in [Workers -> WorkerState]
  /\ \A w \in Workers : WellFormed(worker[w])
  /\ stopping \subseteq Workers
  /\ kills \in 0 .. MaxKills
  /\ stops \in 0 .. MaxStops

\* A worker that is running a job is the one its row is locked by, on the
\* attempt the row counts: nobody reclaimed or settled the job behind its back,
\* although no statement of queue.py checks for that.  Needs the lock timeout to
\* outlast a whole run_job (MaxRun <= LockTimeout).
OwnerHoldsRow ==
  \A w \in Workers, j \in Jobs :
    Holds(w, j) => /\ row[j].status = "running"
                   /\ row[j].lockedBy = w
                   /\ row[j].attempts = worker[w].attempt

\* A settled job stays as it was settled: no late succeed, fail or set_stage
\* of an earlier attempt overwrites it, and no attempt starts after it.
SettledIsFinal ==
  [][\A j \in Jobs : row[j].status \in Settled => row'[j] = row[j]]_vars

\* The stored itineraries of a request are versions 1..n without a gap, and no
\* attempt stores two of them: save_itinerary's read-then-insert is safe under
\* concurrent savers because of the unique constraint.
AnAttemptSavesAtMostOnce ==
  \A j \in Jobs : \E n \in 0 .. row[j].attempts : versions[j] = 1 .. n

\* A succeeded job has an itinerary to show, whatever crashed and whoever
\* wrote the status.
SucceededHasItinerary ==
  \A j \in Jobs : row[j].status = "succeeded" => versions[j] # {}

\* A job outlives its max_attempts only at the price of a worker lost while
\* running it: each attempt above the maximum, of any two jobs together, is paid
\* for by a crash or an operator intervention of its own; ordinary failures and
\* their retries never add up to one attempt too many.
Surplus(j) == IF row[j].attempts > MaxAttempts THEN row[j].attempts - MaxAttempts ELSE 0
SurplusAttemptsArePaid ==
  \A j, k \in Jobs : Surplus(j) + (IF j = k THEN 0 ELSE Surplus(k)) <= kills + stops

\* As long as nothing is killed, a loop of its own process that stopped left no
\* job behind in `running', even if it overran its lock and others took the job
\* ("SIGTERM/SIGINT stop the loop after the in-flight job finishes", worker.py).
StoppedLeavesNothing ==
  kills = 0 =>
    \A w \in Workers \ Embedded, j \in Jobs :
      worker[w].pc = "stopped" => ~(row[j].status = "running" /\ row[j].lockedBy = w)

\* Two workers "will never pick up the same job" (queue.py, module docstring).
NeverTheSameJob ==
  \A v, w \in Workers : (v # w /\ Busy(v) /\ Busy(w)) => Job(v) # Job(w)

\* Every job that was enqueued is settled in the end.
EnqueuedSettles ==
  \A j \in Jobs : row[j].status = "queued" ~> row[j].status \in Settled

=============================================================================
