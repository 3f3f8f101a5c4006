----------------------------- MODULE MCJobQueue -----------------------------
(* Small instances of JobQueue for TLC. *)
EXTENDS JobQueueLifecycle, TLC

CONSTANT BackoffBase   \* the 10 s of the first backoff, in ticks

\* backoff = 10 * (2 ** (job.attempts - 1))
DoublingBackoff == [a \in 1 .. MaxAttempts |-> BackoffBase * 2 ^ (a - 1)]

Symmetry == Permutations(Jobs) \cup Permutations(Workers)
=============================================================================
