---------------------------- MODULE JobLifecycle ----------------------------
(***************************************************************************)
(* What the queue promises about a job, with no workers, locks or clocks:   *)
(* it is tried, each try stores at most one itinerary, a try is given back  *)
(* or ends the job, and a job that has ended is never touched again.        *)
(***************************************************************************)
EXTENDS Integers

CONSTANT Jobs

VARIABLES
  phase,   \* where the job is in its life
  tries,   \* how often it was started
  plans    \* the itinerary versions stored for it

lifecycleVars == <<phase, tries, plans>>

Init ==
  /\ phase = [j \in Jobs |-> "absent"]
  /\ tries = [j \in Jobs |-> 0]
  /\ plans = [j \in Jobs |-> {}]

Move(j, from, to) ==
  /\ phase[j] = from
  /\ phase' = [phase EXCEPT ![j] = to]

Submit(j) == Move(j, "absent", "queued") /\ UNCHANGED <<tries, plans>>

Start(j) ==
  /\ Move(j, "queued", "running")
  /\ tries' = [tries EXCEPT ![j] = @ + 1]
  /\ UNCHANGED plans

\* The next version in line, and never more versions than tries.
Store(j) ==
  /\ phase[j] = "running"
  /\ \E n \in 0 .. tries[j] - 1 :
       /\ plans[j] = 1 .. n
       /\ plans' = [plans EXCEPT ![j] = 1 .. n + 1]
  /\ UNCHANGED <<phase, tries>>

Deliver(j) ==
  /\ plans[j] # {}
  /\ Move(j, "running", "succeeded")
  /\ UNCHANGED <<tries, plans>>

Park(j) == Move(j, "running", "failed") /\ UNCHANGED <<tries, plans>>

\* A retry gives back one job, one reclaim_stale all the stale ones at once.
GiveBack ==
  \E S \in SUBSET {j \in Jobs : phase[j] = "running"} :
    /\ phase' = [j \in Jobs |-> IF j \in S THEN "queued" ELSE phase[j]]
    /\ UNCHANGED <<tries, plans>>

Next ==
  \/ \E j \in Jobs : \/ Submit(j) \/ Start(j) \/ Store(j)
                     \/ Deliver(j) \/ Park(j)
  \/ GiveBack

Spec == Init /\ [][Next]_lifecycleVars
=============================================================================
