------------------------- MODULE JobQueueLifecycle -------------------------
(* JobQueue implements JobLifecycle when the lock outlasts every run.        *)
EXTENDS JobQueue

statusOf   == [j \in Jobs |-> row[j].status]
attemptsOf == [j \in Jobs |-> row[j].attempts]

Lifecycle == INSTANCE JobLifecycle
               WITH phase <- statusOf, tries <- attemptsOf, plans <- versions

\* The queue with its workers, locks, crashes and retries behaves, job by job,
\* like the life cycle: one runner at a time, one itinerary at most per try,
\* and nothing after the job has ended.
ImplementsLifecycle == Lifecycle!Spec
=============================================================================
