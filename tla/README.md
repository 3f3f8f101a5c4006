# Verification of Karnataka Trails

TLA+ models of the trip planner, checked on small instances with TLC and, where a
result should hold for every size, proved with TLAPS. `PROJECT.json` lists the runs,
the source lines every definition stands for, the mutants each property was tried
against, the disagreements found and the hazards of the code.

    tlc -workers 2 -config JobQueue_workers.cfg MCJobQueue.tla
    tlapm JobQueue_proofs.tla

Contents: 1 inventory · 2 modules · 3 job queue and workers · 4 plan page · 5 requests ·
6 bookings · 7 catalogue · 8 drafts, composer and pipeline · 9 legs · 10 migrations ·
11 how the modules fit together · 12 what is proved · 13 disagreements between code and
text · 14 limits · 15 next

## 1. Inventory

The system is a Python service (`api/src/tripplan`), a PostgreSQL database
(`api/migrations`) and a Next.js client (`web`). The API, any number of workers and
any number of browser tabs share nothing but the database; a browser remembers one
session token. A trip is asked for (`POST /api/plan`), which stores a request and a job
in one transaction; a worker claims the job, runs the engine and stores an itinerary; the
page polls until the job is settled. A booking request is recorded for something in an
itinerary. The catalogue that trips are made of is loaded from files and published.

| Component | State | Operations that change it | What is hard | What makes it correct |
|---|---|---|---|---|
| Job queue `jobs/queue.py` | `itinerary_jobs` | enqueue, claim, set_stage, succeed, fail, reclaim_stale | concurrent workers, late writers without fencing, crashes, backoff | one owner per running job; settled stays settled; retries are counted; every job settles |
| Worker `jobs/worker.py` | loop, stop event, claimed job | claim, run_job, stop, `--once` | killed, cancelled or failing between any two statements | an orderly stop leaves nothing behind |
| Itinerary store `store/itineraries.py` | `trip_requests`, `itineraries` | create_request, save_itinerary | read-then-insert of a version by concurrent attempts | versions 1..n, one per attempt |
| HTTP API `api/app.py` | an embedded worker | create_plan, bookings, lifespan | several statements per handler, shutdown | a poll shows one job's truth |
| Booking store `store/bookings.py` | `bookings` | request_booking, withdraw | check-then-insert, partial unique index | one open request per target and session |
| Booking form, client `web/` | form state, session token | submit, receive, withdraw, plan | lost answers, two tabs, an answer that overwrites the token | what a form reports is on record and on the list |
| Seed and publish `store/seed.py` | pois, guides, vendors, products | load_*, publish | loads between a publish's statements, order of promotions | nothing reaches a traveller but through the gate |
| Pipeline `engine/pipeline.py` | none across calls | one run | model calls that fail or answer wrongly, repairs, fallback, time | sound plan, visible fallback, warnings of the plan shown, bounded calls |
| Validator `engine/validate.py` | none | judge a draft | which violations are fatal | everything a plan must not be is fatal |
| Composer `engine/compose_greedy.py` | none across calls | one draft | few places, uneven taluks, budgets, exhausted pools | passes the validator |
| LLM adapters `llm/*` | none | one call | answers of any shape | decline, never fail the job |
| Routing `engine/routing.py`, `routing/*`, `store/travel.py` | `travel_estimates`, matrix | warm, route, save legs | providers of different trust, concurrent savers | nothing dropped; provenance is never better than the leg |
| Assembler `engine/assemble.py` | none | clock, costs, warnings | days that end after midnight | warnings speak of the plan shown |
| Retrieval, feasibility `store/pois.py` | none | filters, diagnosis | two queries that must agree, data moving in between | the diagnosis explains what retrieval did |
| Brief `engine/brief.py` | none | normalise; rebuilt by each attempt | columns and joins instead of the object | the job plans what was asked |
| Migrations `db.py` | `schema_migrations` | apply_migrations | concurrent starters, changed or failing file | each file once, in order |
| Plan page `PlanProgress.tsx` | polls, last status | poll, give up | the job moves between polls | never hides a finished plan |
| Market, photos, CLI, importer, pages | none, or files | reads, one-shot batches | network and file I/O | not modelled, see 14 |

## 2. Modules

| Module | Models | Runs |
|---|---|---|
| `JobQueue`, `JobLifecycle`, `JobQueueLifecycle` | queue, workers, saving; the abstract life of a job; that the first implements the second | `JobQueue_workers`, `JobQueue_overrun`, `JobQueue_two_runners` |
| `PlanPage` (extends `JobQueue`) | the page that polls a job while workers run it | `PlanPage_live` |
| `Planning` | form, brief, feasibility, request, the worker's retrieval, over a moving catalogue | `Planning_requests` |
| `Bookings` | forms, identity, handlers, table | `Bookings_forms` |
| `Catalogue` | loads and the publish gate | `Catalogue_publish` |
| `Drafts` | candidates, drafts and the rules of validate.py, used by the next two | |
| `Greedy` | the deterministic composer, a candidate at a time | `Greedy_days`, `Greedy_hole` |
| `Pipeline` | one run of the engine | `Pipeline_drafts` |
| `Legs` | routing, the travel cache that plans share, the clock of a day | `Legs_cache` |
| `Migrations` | several starters over `schema_migrations` | `Migrations_start` |

`MC*` modules hold the constants of the runs, `*_proofs` the theorems. Every module is
written to be proved about: no recursive operators, constants with named assumptions,
one action per operation, invariants as conjunctions of named parts. The type invariants
are theorems (section 12) and no run repeats them.

## 3. The job queue and its workers (`JobQueue.tla`)

**State.** `row` is `itinerary_jobs`, one row per job as a request has exactly one;
`wait` and `earlier` are `run_after` as the ticks left and the order of the values;
`versions` is what `save_itinerary` stored per request; `worker` is each loop's program
counter with the `ClaimedJob` in its hands; `stopping` the stop events.

**Actions.** Each statement of `queue.py` auto-commits and is one action: `Enqueue`,
`Claim` (the oldest runnable row, attempts + 1, lock), `SetStage`, `Succeed`, `FailRetry`,
`FailPark`, `ReclaimStale`. `run_job` is cut at its awaits: `LoadBrief`, `Generate` (or
`EngineFails`), `SetStage`, `ReadNextVersion` and `CommitItinerary` (or `VersionTaken`),
`Succeed`; `StepFails` is any other exception. Faults are a killed process, an exception
that leaves the loop, SIGTERM, cancellation of the embedded loop, `--once`. `Tick`
advances time; it waits for nobody but a step that has reached `MaxStep` or a run that
has reached `MaxRun`, which bound how long the program spends there.

| Run | Shows | Bounds |
|---|---|---|
| `JobQueue_workers` | ownership, attempts, settlement, refinement of `JobLifecycle` | 2 jobs, 2 workers, 2 attempts, 2 kills, runs within the lock |
| `JobQueue_overrun` | what is stored stays consistent when two attempts overlap; an orderly stop leaves no running job | 1 job, a process and an embedded loop, 2 stops, runs up to three lock timeouts |

Two jobs and two workers are the least with which a claim can be stolen, a job overtaken
and another starved; two attempts the least with a retry and a last one; a lock of one
tick the least that can be younger and older than its timeout.

**Fairness** (`PlanPage_live` only): time passes; a live event
loop keeps running its task (asyncio schedules every ready task); a dead worker *process*
is started again. The last is an assumption about the host (render.yaml, docker restart
policies), not something the code does, and it is not assumed of a loop embedded in the
API, which nothing restarts while the API lives. Nothing is assumed about the order of
workers or the success of statements. `EnqueuedSettles` says that every enqueued job is
settled under it, across a kill and all retries. The run has one job: jobs compete only for
claims, and as each of them has finitely many attempts, no job is passed over for ever.

**Properties.** `OwnerHoldsRow` is the one the queue stands on: `succeed`, `fail` and
`set_stage` write `WHERE id = ...` without looking at the lock, so a worker must still own
the row it holds. It is true exactly as long as no run outlasts the lock.
`SettledIsFinal` and the refinement follow it.
`SurplusAttemptsArePaid` replaces the documented bound on attempts, which is not true
(section 13), by the one that is: each attempt above the maximum costs a lost worker.
`AnAttemptSavesAtMostOnce` and `SucceededHasItinerary` need no assumption about the lock.
`StoppedLeavesNothing` speaks of loops in a process of their own: SIGTERM lets the job in
hand finish. The embedded loop is cancelled in mid-job (section 13) and is exempt.

## 4. The plan page (`PlanPage.tla`)

**State.** `page` for each watched request: where its poll is, what the server has read for
it so far, what the page shows, how many polls it has spent. **Actions.** `Open`;
`ReadJob` and `ReadItinerary`, the two statements of `plan_status`, between which anything
of `JobQueue` may happen; `Receive`, `PollAgain`, `LoseContact` and the user's `Reload`.

`PlanPage_live`: one job, two workers, one kill, two attempts, runs within the lock, a page
with two polls; two are the least that differ in "one is left". Fairness: that of the
workers above, and that an open page's timer fires and its requests come to an end (with an
answer or with an error, which the page treats alike).

`SuccessShowsThePlan` is why the order of the two reads matters: job first, itinerary second.
`FailureIsTheEnd` says that a failure is reported with a reason and only when the job is over;
both need runs within the lock. `OutcomeIsShown` is the liveness of a page that has a poll left.
A page whose patience ran out promises nothing, and that is what the code does (section 13).

## 5. Requests (`Planning.tla`)

**State.** The catalogue (`published`, `facts`), the wizard's `form`, the running
`create_plan` (`ask`, `verdict`), the stored `request`, the `job`'s attempt. **Actions.**
`Submit`, `Reject`, `BuildBrief`, `Count` (the slices of `feasibility`, one statement),
`AdviseMonths` or `AdviceRaises`, `AdviseInterests`, `TryRadius`, `NoRadiusWorks`, `Accept`;
the suggestions of a refusal (`PickMonth`, `PickInterest`, `RaiseBudget`, `Widen`, `Shorten`);
in the worker `LoadBrief`, `FetchPlaces`, `FetchStays`, `FetchActivities`, `Diagnose` or
`DiagnoseInVain`, `AttemptEnds`; and between any two of them `Publish` and `Reseed`, whole
transactions of the loader.

Points lie on a line and a region path is the district it lies in; a tag is there or not.
`ORDER BY ... LIMIT` is any choice of as many rows as the cap: no property depends on which.
The search for anchors, the lists of the picker and summaries only read and are left out.

`Planning_requests`: four POIs, each as first loaded or as loaded later (moved, retagged,
out of season, another band or kind), any of them published, a town, two districts, two
months, two bands, forms of every mode including those only another caller sends, one
transaction of the catalogue, two suggestions, two attempts. Four POIs are the least with two
stops of different tags, one of the other kind and a stay. The caps are not below the longest
trip (`CapsCoverDays`), as shipped. Deadlock is not checked: a trip retrieved is the end.

`VerdictIsRight` compares queries that the code writes twice: what the pre-flight refuses,
retrieval could not have planned, and what it accepts is found by the worker, through the row
and the caps, as long as the catalogue stays. `TwoClicksSuffice`: whichever two suggestions
one takes, the third request is not refused; each suggestion is computed under
relaxed filters of its own, so this is not true by construction. `ReplayKeepsTheAsk` is the
round trip of a brief through `create_request` and `load_brief`, over each attempt and each
change of the catalogue. `EmptyIsExplained` is about the diagnosis after an empty retrieval.

## 6. Bookings (`Bookings.tla`)

**State.** `bookings` under the call that inserted them, `token` of each browser,
`panel` of each mounted form, `call` for each HTTP call as its handler sees it,
`published` targets. **Actions.** In the client: `Submit`, `Receive`, `LoseAnswer`,
`Reload`, `Plan`, `PlanAccepted`, `Withdraw`. In the handlers, cut at their statements:
`Resolve`, `Check`, `Insert` or `InsertClash`, `Created` (the list that answers),
`AcceptPlan`, `Close`; `StatementRaises` at any of them.

`Bookings_forms`: two browsers, two forms of one of them for one target and a third
form elsewhere, three calls, plans and withdrawals of anyone's id, one failing statement.
Three calls are enough for two requests that race and a third that withdraws, plans or
repeats one of them. Deadlock is not checked: when the calls of the
bound are used up nothing is left to do.

`OneOpenPerTarget` holds because of the partial unique index and not of the check before
it. `SavedIsOnRecord` and `RecordedIsListed` relate a form to a row through the token it
was sent with; the second makes an exception for a browser that planned a trip before it
had a token, because the answer to the plan overwrites the token (section 13).

## 7. The catalogue (`Catalogue.tla`)

**State.** `row` per slug of the four gated tables (status, source, confidence, vendor),
`gate` the running publish: its next statement, its options, what it has promoted but not
committed, what it reported as refused. **Actions.** `LoadPois`, `LoadGuides` and
`LoadVendors` upsert what any files contain, each in its transaction; `StartPublish`,
`CollectRefused`, `PromotePois`, `PromoteGuides`, `PromoteVendors`, `PromoteProducts`,
`CommitPublish`, `AbortPublish` are publish, a statement at a time under READ COMMITTED:
loads commit between the statements, and wait only for rows already promoted.

`Catalogue_publish`: a row of each table and a second vendor, a product that files may
put under either, two confidence levels and floors, both placeholder settings, and two
loads: one to insert and one to change a row between two statements of a publish.

`OnlyThroughTheGate` judges a row when it becomes *visible*, at the commit, though the
rule was evaluated statements earlier. `NoOrphanOffers` depends on the order of the
promotions and on the row locks of an uncommitted promotion. `NeverDemoted` records what
a re-load keeps.

## 8. Drafts, composer and pipeline

**`Drafts.tla`** is `validate.py`: an operator for each fatal code over a draft and
candidates, `Fatal`, `Ok` and the advisory violations.

**`Greedy.tla`** is `compose_greedy.py`, one action per candidate tried: `StartDay`
(budget less the approach drive, the pool of the day's taluk, the share), `Take`, `Skip`,
`EndDay`. Positions are abstracted: the strongest taluks in any order, any of the measured
drives, any stay as the nearest; equal weights are tried in any order. That is more than
the code does, which is sound for its invariants, and the counterexample of section 13
uses none of it beyond distances that exist. `Greedy_days` takes every set of three
stops over two taluks, two weights, two lengths, repeatable or not, and a single stop,
with and without a bed: two days then meet an exhausted taluk, a day too short for a stop,
a day without budget. `EnoughFillsEveryDay` is the promise of the share: in one taluk with
a stop for each day, a day which every stop would fit is not empty. The composer stops, so
deadlock is not checked.

**`Pipeline.tla`** is `pipeline.generate` with what it calls: `Retrieve`, `DistrictUnknown`,
`Warm`, `ComposeAnswers`, `ComposeDeclines`, `ComposeRaises`, `Accept`, `Repair`, `Reject`,
`FallBack`, `Route`, `Geometry`, `Assemble`. A model's answer is any draft of a universe;
`MCPipeline` makes it 1368 drafts of one to three days with every rule of `validate.py`
broken by some. `result` is the `ValidationResult`: it is made where a draft is received and
carried, through repairs and the fallback, to `Assemble`, which reads its warnings from it.
`modelCalls` and `routerCalls` count the calls for which a run waits. How long one of them takes is
not modelled, as the code does not bound it: `OllamaComposer` gets at least 180 s whatever the
setting (`llm/factory.py:67`), the Claude SDK retries by itself (`llm/claude.py:71`), and an httpx
timeout is one of each phase of a request (`llm/hosted.py`, `routing/osrm.py`). The provider
that is shipped is OSRM (`config.py:85`); the static one asks nobody, and its runs are those in
which no router call is counted.

`PlanIsSound` is that no fatal rule of `validate.py` is broken by what is shown, whoever
composed it. `NothingIsDropped` covers a gap between two modules: `route` leaves out refs it cannot
look up, silently, and only validation keeps stops from disappearing so. `WarningsSpeakOfThePlan`
joins draft, result, plan and warnings: what is only advisory (a missing bed, a day of driving, an
overfull day) is said of exactly the days of the plan that are so, although the result was made
stages before and others were made for the drafts rejected. `FallbackIsVisible` ties the warning, the
credited composer and the reason together over every order of rejected and declined calls.
`CallsAreBounded` counts the calls of the repair loop, and those of the map, of which there is one
for each day of a draft only because validation insists on the days asked for.

## 9. Legs (`Legs.tla`)

**State.** `estimates` is `travel_estimates`; `run` is each plan being routed: its provider
and warmed matrix, what it read from the table (`read`, kept for the properties) and what of it
`load_legs` let through (`cached`), the legs still to be saved (`computed`), the cursor, the legs of the
day and the days. **Actions.** `Begin` (any provider, any part of the matrix, any draft),
`LoadCachedLegs`, `BeginDay`, `Visit` (the nearest stop left), `EndDay` with the drive to the
bed, `Return`, `SaveLeg` (a statement each), `Done`, and `Leave` at any moment: the plan is
stored or its worker died.

`Legs_cache`: two plans at once, two stops and a bed, seven drafts (both stops in a day, a stop a
day, one stop twice in a day, no bed, idle days, nothing), a matrix of all, some or no pairs, a table that is empty or has
rows of each source. Two plans are enough for a good and a bad provider to save in either
order; a third row source comes from the initial table, as no provider writes `maps_api`. The
clock of the run is short, so that days end before the late limit, after it and after midnight.
Deadlock is not checked: two plans are begun, then nothing is left to do.

`NoWorseThanKnown` is the promise of the floor in `load_legs`; `BestRowSurvives` the one of the
primary key; `RoutedIsRemembered` joins the two across plans. `TripIsContinuous` relates days,
nights and days without a stop through the cursor, `DayIsItsWeakestLeg` a day's claim to all its
legs. `ClockIsHonest`: the times shown are clamped at 23:59, never run backwards, and a late or
clamped one is warned about.

## 10. Migrations (`Migrations.tla`)

**State.** `recorded` is `schema_migrations`, `ran` counts how often a file's SQL took effect;
each starter has its release (`disk`), what it read once (`applied`) and the file it looks at.
**Actions.** `Start`, `ReadApplied`, `Skip`, `Apply` (one transaction), `Raise`, `Serve`; `Fail`
(killed, or the database lost) and `Deploy` (another release under a process that is down).

`Migrations_start`: two starters, four releases (one file; three; three with the second edited
after the fact; three with a broken second), a file whose SQL is idempotent, two faults and two
deployments. Two starters are the least that race, three files the least with one before, one
at and one after the contested one.

`SchemaIsRecorded`: racing or dying, no file runs twice or goes unrecorded. `ServesItsSchema`:
a process that serves runs on its release's migrations although it read the table once.
`ComesUp`: who loses a race raises and does not start, but does so once per file; under fairness
of each starter (it goes on, and its host starts it again, an assumption about the host) a release
that can be served is served. Releases are numbered without gaps; with a file inserted between
applied ones the runner would apply it late, in an order no fresh database has.

## 11. How the modules fit together

- `JobQueue`'s `Generate` is a whole run of `Pipeline`; its `EngineFails` is `Pipeline`'s
  "failed" and its `StepFails` includes "model_error" and "router_error".
- `JobQueue` needs `MaxRun <= LockTimeout` for ownership, and that is an assumption: nothing in
  the code bounds a run in seconds. `CallBound` says of how many calls it consists: `1 + repairs` to a
  model and `1 + days` to the router, beside the program and the database themselves. If each call took
  its configured timeout and no longer, a week's trip with one repair would take 2 * 90 + 8 * 20 = 340 s
  (2 * 180 + 8 * 20 = 520 s with Ollama), above the lock of 300 s (section 13); a call may take
  longer, so these figures are not `MaxRun` but a length a run can reach without anything going wrong
  that the settings rule out.
- `Pipeline`'s `FallBack` takes any draft that satisfies `Deterministic`, of `Drafts`; `Greedy`'s
  `OnlyHolesCanFail` says that its finished drafts satisfy it wherever there is a stop, and
  `Pipeline` composes nothing without one (`Supplied`). All three are theorems, so that what
  one module assumes of the other holds for every candidate set.
- `PlanPage` extends `JobQueue`: its pages read the very rows and versions the workers write.
- `Planning`'s `Accept` is `JobQueue`'s `Enqueue`, its `AttemptEnds` any end of an attempt
  there that leads to another; its candidates are the ones `Greedy` and `Pipeline` take as given, any
  set of which they allow. `EngineFails` of `JobQueue` includes `Diagnose`.
- `Planning`'s `Publish` and `Reseed` are `Catalogue`'s publish and `LoadPois` seen from
  outside, each as one commit.
- `Legs` takes the drafts `Pipeline` accepts; `Pipeline`'s `Route` is a run of `Legs`, of which
  it keeps which stops and beds come out.
- `Bookings`' `published` is `Catalogue`'s published rows; `Catalogue` shows that a
  published row stays published, which `Bookings` assumes.

## 12. What is proved

For every value of the constants, under the assumptions named in the modules. Every safety
property that a passing run checks is a theorem; the modules' type invariants are too, and
no run checks those.

| Theorem | States | Argument |
|---|---|---|
| **`JobQueue_proofs`** | | |
| `TypeCorrect` | `TypeOK` | inductive with `Dense`: the versions of a request are 1..n, without which the version read by a saver is not typed |
| `AttemptsSaveOnce`, `SuccessIsSaved` | `AnAttemptSavesAtMostOnce`, `SucceededHasItinerary` | `SaveInv`: the versions are as many as the attempts that saved one, no two workers run the same attempt, and who has still to insert is not among those that saved |
| `StopsCleanly` | `StoppedLeavesNothing` | `StopInv`: unless something was killed, a row is locked by a process only while that process runs the job |
| `OwnerHolds`, `SettledStays`* | `OwnerHoldsRow`, `SettledIsFinal` | `OwnInv`: the lock of a held row is exactly as old as the run, so it is not stale while the run lasts; who writes a row holds it, and who holds it finds it running |
| `SurplusIsPaid`* | `SurplusAttemptsArePaid` | `DebtInv`: an attempt that was cut off is paid for when it is lost, before reclaim and claim turn it into a surplus one |
| `QueueImplementsLifecycle`* | the refinement of `JobLifecycle` | from `OwnInv` and `SaveInv`, step by step: a step of the life of one job, a giving back of stale jobs, or a stutter |
| `SuccessIsShown`, `FailureIsFinal`* | `SuccessShowsThePlan`, `FailureIsTheEnd` | `PageInv`: what a poll has read of a settled job is what the row still says, for settled rows and their versions are frozen |
| **`Bookings_proofs`** | | |
| `OneOpen`, `SavedRecorded`, `OwnSessionCloses` | `OneOpenPerTarget`, `SavedIsOnRecord`, `OnlyItsSessionCloses` | `RecordInv`: answers and forms are traced back to the row behind them (`Backing`, `Forms`), rows of unused calls are absent (`Fresh`) |
| `RequestsAreListed` | `RecordedIsListed` | `ListInv`: a call carries its browser's token or was sent before there was one, and its row the session it was resolved to; a token changes only where there was none or a plan brought another (`TokensKept`) |
| `RefusedWhileOpen` | `RefusedOnlyWhileOpen` | a 409 is decided by the statement that finds the open row |
| **`Planning_proofs`** | | |
| `ReplayIsFaithful` | `ReplayKeepsTheAsk` | `PlanInv`: the row is what `create_request` makes of the accepted brief (`StoreInv`), and `Loaded` undoes it for a well-made brief |
| `VerdictAgrees`, `EmptinessIsExplained` | `VerdictIsRight`, `EmptyIsExplained` | `JobInv`: what was fetched is a cap's worth of the candidates of the brief while the catalogue stood still; a lemma says that the pre-flight's counts are of the same sets |
| `TwoClicks` | `TwoClicksSuffice` | `ClickInv`: a suggestion names a filter under which the brief it leads to has a candidate, so that after one click nothing but the days can be refused, and after two nothing |
| **`Catalogue_proofs`** | | |
| `OffersAreBacked`, `GateIsKept`, `ReloadKeeps` | `NoOrphanOffers`, `OnlyThroughTheGate`, `NeverDemoted` | `GateInv`: what is promoted and uncommitted still satisfies the gate (its rows are locked), and a promoted product's vendor is published or promoted |
| **`Greedy_proofs`** | | |
| `FallbackRules` | `OnlyHolesCanFail` | `GreedyInv`: what may not come again and was placed is in `used`, and the pool holds none of it; days are numbered in order; `Touring`: where there is a stop there is a tour |
| `EnoughForEveryDay` | `EnoughFillsEveryDay` | `StopsLeft`: before each day there are as many free stops as days left, and during it the rest of the share beyond that; rounding the share up must leave one for each later day |
| `DaysAreNotPacked` | `NeverPacked` | `Tallied`: what is spent is what the picked stops cost, in the order they were taken; lemmas turn that running total into the sum over a set that validate.py takes |
| **`Pipeline_proofs`** | | |
| `CallBound`, `FallbackShows` | `CallsAreBounded`, `FallbackIsVisible` | `PipelineInv`: calls are counted stage by stage, an accepted draft has as many days as the trip, and the reason is set before the fallback runs |
| `WarningsAreOfThePlan` | `WarningsSpeakOfThePlan` | `Judged`: the result in hand is the judgement of the draft in hand; `Said`: the warnings are that result's; as day numbers are unique in a sound draft, what is said of a number is said of one day (`AdviceByDay`) |
| `RoutingDropsNothing`, `SoundPlans` | `NothingIsDropped`, `PlanIsSound` | `Planned`: from acceptance on the draft is sound, and routing a day of a sound draft gives that day back (`AllLookedUp`) |
| `Supplied` | composers have stops to choose from | the guard of `Retrieve`, kept to the end |
| **`Legs_proofs`** | | |
| `NoWorse`, `WeakestLegOfTheDay`, `Remembering`, `BestRowKept` | `NoWorseThanKnown`, `DayIsItsWeakestLeg`, `RoutedIsRemembered`, `BestRowSurvives` | `LInv`: a cached leg is as good as the row read and the provider's own measure, and every leg driven between two POIs is in the table or on the list still to be saved; that the best of a set exists rests on the finitely many ranks |
| `ContinuousTrip` | `TripIsContinuous` | `TInv`: the legs of the finished days and of today, joined, are one chain that ends at the cursor (`OnTheWay`) |
| `HonestClock` | `ClockIsHonest` | of any day: the clock never runs backwards, clamping keeps that, and what is clamped or late has its warning |
| **`Migrations_proofs`** | | |
| `SchemaRecorded`, `ServesOwnSchema` | `SchemaIsRecorded`, `ServesItsSchema` | `MInv`: the recorded files are a prefix, each run once; all that a starter has passed is recorded with its own content |

\* under `MaxRun <= LockTimeout`: no `run_job` outlasts the lock. That is the configuration's
business and not guaranteed as shipped (sections 11 and 13); `JobQueue_two_runners` shows what happens without.

Each invariant is inductive: `Init` implies it, and under it each action keeps it, one lemma per
action or group of actions. The parts that no run checks (`SaveOk`, `LocksAreHeld`, `DebtsPaid`,
`StopsLeft`, `Tallied`, `OnTheWay`, `PlanInv`, `ClickInv`, `ListInv`, `PageOk`) hold in TLC on the
instances of the runs.

What is said of positions in a sequence, of days or of sets of positions needs induction. The
library's induction theorems take an operator, which the installed provers cannot instantiate, so
the modules that need it derive it from the well-foundedness of `<`: `Counting` (a set of
naturals that has 0 and with each number the next one has all) and `Recursion` (a function defined
from its value before exists and obeys its equation). Recursive functions (`LookedUp`, the clock)
and `MapThenSumSet` are unfolded with these.

The assumptions on the constants say that sets are sets of what they are called, bounds are naturals
and placeholders for "nothing" are not values. Two carry more: `CapsCoverDays` (retrieval's caps
for places and activities are not below the longest trip; 30 and 20 against 14 days as shipped) and
`FormsAssumption` of `Planning` (a form has passed `PlanRequestIn`).

Only model-checked: `EnqueuedSettles`, `OutcomeIsShown` and `ComesUp`. They are liveness under
fairness, which needs ENABLED and is beyond the prover. Their safety halves (nothing is settled
twice, what is shown is final, no file is lost) are among the theorems above.

## 13. Disagreements between the code and what is written about it

Each has a run that finds it; the quotations are in `PROJECT.json`.

| Run | The text | The code |
|---|---|---|
| `JobQueue_two_runners` | two workers never pick up the same job | the lock is as old as the claim; a long run is reclaimed under a live worker |
| `Greedy_hole` | the engine still produces a valid itinerary | a day in an exhausted taluk is empty, and fatal without a bed |

Also met while modelling, without a run of their own:

- `store/pois.py:687-714`: without interests the statement for the months has no `$1`, yet a value
  for it is bound; PostgreSQL then cannot determine the type of that parameter and refuses the statement.
  A district or location request to be refused with advice becomes a server error (`AdviceRaises`), and
  a job's diagnosis a failed attempt (`DiagnoseInVain`). `tests/test_modes.py:269-284` asserts
  the advice only inside `if not verdict.ok`.
- `jobs/queue.py:191-198`: a job that kills its worker should stop at max_attempts; reclaim and
  claim do not look at it (`SurplusAttemptsArePaid` says what holds instead).
- `jobs/queue.py:11` against `jobs/worker.py:98-99`: "exactly-once completion", but saving and marking
  are two transactions and a failure between them saves a second version.
- `api/app.py:578-579`: a double click is to be a 409; of two concurrent requests the loser of the
  unique index is answered with a 500 (`InsertClash`).
- `PlanProgress.tsx:17-19`: the 60 polls (90 s) are to be long enough for a compose and a repair, but
  one call alone may take 90 s and more (config.py:113); after them, or at the first network error, the page stops
  for good, and the trip is there on a reload.
- `PlanProgress.tsx:87`: a failed job hides an itinerary that an earlier attempt saved.
- `engine/pipeline.py:82`: if rows are published between an empty retrieval and its diagnosis, the
  job fails with the text of the reason "ok".
- `store/itineraries.py:185`: the slug of an anchor that is a region is not stored, its label stands in.
- `engine/assemble.py:168-179`: "not reached until about" names the time the last stop ends.

- `api/app.py:83-85`: the comment lets the job in flight finish, the next line cancels it.
- `jobs/worker.py:58-77`: a loop inside the API that raises is gone until the API restarts;
  its stale lock is then reclaimed by nobody.
- `web/lib/api.ts:159`: the answer to a first plan overwrites the token a request made in
  the meantime was saved under (`RecordedIsListed`'s exception).
- `store/seed.py:747-752`: a row published as checked and loaded again as a placeholder
  stays published, against `migrations/007_marketplace.sql:18`.
- `store/seed.py:1015`: a product of a refused vendor is neither promoted nor reported.
- `config.py:145-147`: the lock "must exceed the worst-case stage runtime", but it is as old as the
  claim, a run has no worst case in seconds, and the configured timeouts alone add up to more than
  the lock that is shipped (section 11).
- `docs/architecture.md:265`: validation is to check "exactly one stay per night; a stay is not reused
  non-contiguously". A missing stay is advisory (`validate.py:154-165`), and that a stay comes again on
  later nights is not checked anywhere: a model's draft that does so is accepted, as it is in `Pipeline`.
- `docs/architecture.md:266`: "per-day activity duration within the daily budget" is advisory too
  (`validate.py:221-232`); an overfull day is accepted and warned about (`WarningsSpeakOfThePlan`).
  Lines 263, 264 and 267 (refs, days, repetitions) are the fatal rules and hold (`PlanIsSound`).
- `llm/hosted.py:102`, `llm/ollama.py:82`, `routing/osrm.py:132`: JSON of another shape raises
  where the docstrings say that nothing is raised (`ComposeRaises`, `WarmRaises`,
  `GeometryRaises` in `Pipeline`).

## 14. Limits

- Seconds are modelled nowhere but in `JobQueue`'s `Tick`: how long a run, a call or a statement takes is
  assumed there (`MaxRun`, `MaxStep`), not derived.
- The cancellation of an embedded loop (`StoppedLeavesNothing` exempts it), the token a plan overwrites
  (`RecordedIsListed` excepts it), a failure shown over a stored itinerary, a page out of polls and a
  diagnosis of "ok" are what the code does: the models show them, no property forbids them (section 13).
- `PlanPage_live` has one job and no embedded loop: competition of jobs is not exercised under fairness.
- Data the properties do not tell apart is left out: prose, prices, positions, costs,
  dates, photographs, snapshots of what was booked.
- PostgreSQL is taken at its word: a statement is atomic, a unique index is enforced, READ
  COMMITTED re-evaluates a row it waited for. Connection pools and their exhaustion are
  not modelled.
- A database error is an exception at the statement (`StepFails`, `StatementRaises`), never
  a statement that took effect although its answer was lost; `Kill` after a statement
  covers the worker's side of that.
- `Catalogue` leaves out interest tags, regions and specialities, which have no status.
- `Planning`'s anchor search (`PlanWizard.tsx:123-136`) is debounced and not sequenced, so that a
  slow answer may replace the list of a later query; the list only offers, and is not modelled.
- The rows of `travel_estimates` are not invalidated when a POI's position changes; positions do not move
  in `Legs`.
- `Assembler`: costs, permits and the payload; `Catalogue`: what publish reports.
- Market, photographs, the command line, the importer and the itinerary's view are queries, one-shot
  batches or rendering without concurrent state; their I/O is out of a model checker's reach.

## 15. Next

1. Proofs: that `JobQueue`'s `Generate` may be replaced by a run of `Pipeline`, and `Pipeline`'s
   `Route` by a run of `Legs`, as refinements rather than in words (section 11); a measure that
   decreases with every attempt, as the safety half of `EnqueuedSettles`.
2. The report of `publish`: every row is promoted or named.
3. The anchor search with answers out of order; the take-home strip of an itinerary.
4. A larger `PlanPage_live`: two jobs of two pages.
