----------------------------- MODULE MCPlanPage -----------------------------
(* A small instance of PlanPage for TLC. *)
EXTENDS PlanPage

CONSTANT BackoffBase   \* the 10 s of the first backoff, in ticks

\* backoff = 10 * (2 ** (job.attempts - 1))
DoublingBackoff == [a \in 1 .. MaxAttempts |-> BackoffBase * 2 ^ (a - 1)]
=============================================================================
