------------------------------ MODULE PlanPage ------------------------------
(***************************************************************************)
(* The page that waits for a plan (web/components/PlanProgress.tsx), the   *)
(* endpoint it polls (api/app.py, plan_status) and the queue behind it.    *)
(*                                                                         *)
(* One poll is two SELECTs of two autocommitted statements: the job, then  *)
(* the latest itinerary.  Everything of JobQueue happens in between.  A    *)
(* page only reads, so one page for each watched request meets all that    *)
(* any number of them can.                                                 *)
(***************************************************************************)
EXTENDS JobQueue

CONSTANTS
    Watched,    \* requests with a page
    MaxPolls    \* MAX_POLLS: unsettled answers after which the page gives up

ASSUME PageAssumption == Watched \subseteq Jobs /\ MaxPolls \in Nat \ {0}

VARIABLE page   \* request -> its page, with the poll in flight

pageVars == <<vars, page>>

Nothing == [status |-> "absent", error |-> "none", attempts |-> 0, version |-> 0]

\* answer: what the server has read so far for the poll in flight; shown: the
\* page's `status', of which version 0 stands for an absent itinerary.
Fresh == [at |-> "ask", answer |-> Nothing, shown |-> Nothing, polls |-> 0,
          timedOut |-> FALSE, error |-> FALSE]

PageInit ==
    /\ Init
    /\ page = [j \in Watched |-> [Fresh EXCEPT !.at = "closed"]]

-----------------------------------------------------------------------------
\* create_plan answers after its transaction, so the job of a page exists.
Open(j) ==
    /\ page[j].at = "closed"
    /\ row[j].status # "absent"
    /\ page' = [page EXCEPT ![j] = Fresh]

Latest(j) == IF versions[j] = {} THEN 0
             ELSE CHOOSE v \in versions[j] : \A u \in versions[j] : u <= v

\* queue.status
ReadJob(j) ==
    /\ page[j].at = "ask"
    /\ page' = [page EXCEPT ![j].at = "read",
          ![j].answer = [Nothing EXCEPT !.status = row[j].status, !.error = row[j].error,
                                        !.attempts = row[j].attempts]]

\* latest_for_request, a second statement
ReadItinerary(j) ==
    /\ page[j].at = "read"
    /\ page' = [page EXCEPT ![j].at = "reply", ![j].answer.version = Latest(j)]

\* Mutant of Finished: only success ends the polling.
FinishedBySuccess(answer) == answer.status = "succeeded"

Finished(answer) == answer.status \in Settled

\* setStatus, and then the end of the polling, of its patience, or the timer.
Receive(j) ==
    LET p == page[j]
        spent == p.polls + 1 >= MaxPolls
    IN  /\ p.at = "reply"
        /\ page' = [page EXCEPT ![j] =
              IF Finished(p.answer)
              THEN [p EXCEPT !.at = "ended", !.shown = p.answer, !.answer = Nothing]
              ELSE [p EXCEPT !.at = IF spent THEN "ended" ELSE "timer", !.answer = Nothing,
                             !.shown = p.answer, !.polls = @ + 1, !.timedOut = spent]]

\* The request fails, or is answered with an error: no second try.
LoseContact(j) ==
    /\ page[j].at \in {"ask", "read", "reply"}
    /\ page' = [page EXCEPT ![j] = [@ EXCEPT !.at = "ended", !.error = TRUE,
                                             !.answer = Nothing]]

\* Mutant of PollAgain: the page waits on for running jobs only.
PollAgainIfRunning(j) ==
    /\ page[j].at = "timer"
    /\ page[j].shown.status = "running"
    /\ page' = [page EXCEPT ![j].at = "ask"]

PollAgain(j) ==
    /\ page[j].at = "timer"
    /\ page' = [page EXCEPT ![j].at = "ask"]

\* A reload of a page that still polls comes to the same as opening one.
Reload(j) ==
    /\ page[j].at = "ended"
    /\ page' = [page EXCEPT ![j] = Fresh]

Poll(j) == ReadJob(j) \/ ReadItinerary(j) \/ Receive(j) \/ PollAgain(j)

PageStep == \E j \in Watched : Open(j) \/ Poll(j) \/ LoseContact(j) \/ Reload(j)

PageNext ==
    \/ Next /\ UNCHANGED page
    \/ PageStep /\ UNCHANGED vars

\* Besides what keeps the workers going: the page's timers fire while it is
\* open, and each request it sends comes to an end.
PageFairSpec ==
    /\ PageInit /\ [][PageNext]_pageVars
    /\ WF_pageVars(Tick /\ UNCHANGED page)
    /\ \A w \in Workers : /\ WF_pageVars(WorkerStep(w) /\ UNCHANGED page)
                          /\ WF_pageVars(StartLoop(w) /\ UNCHANGED page)
    /\ \A j \in Watched : WF_pageVars(Poll(j) /\ UNCHANGED vars)

-----------------------------------------------------------------------------
(* What is on the screen: an error covers everything, a failed job covers an *)
(* itinerary, an itinerary covers the patience that ran out.                 *)

ShowsFailure(j) == ~page[j].error /\ page[j].shown.status = "failed"

ShowsItinerary(j) ==
    /\ ~page[j].error
    /\ page[j].shown.status \notin {"absent", "failed"}
    /\ page[j].shown.version > 0

\* A page whose job has succeeded shows the itinerary, and the last one there
\* will be: the job is read before the itinerary, and nothing is saved once it
\* has settled.  Needs MaxRun <= LockTimeout.
SuccessShowsThePlan ==
    \A j \in Watched :
        (page[j].at = "ended" /\ page[j].shown.status = "succeeded" /\ ~page[j].error)
            => ShowsItinerary(j) /\ page[j].shown.version = Latest(j)

\* "We could not build this itinerary" is said of a job that is over, with its
\* attempts spent or refused by the engine, and always with a reason ("failed
\* without a reason, which is a bug on our side", PlanProgress.tsx).
FailureIsTheEnd ==
    \A j \in Watched : ShowsFailure(j) =>
        LET seen == page[j].shown
        IN  /\ page[j].at \notin {"timer", "ask"} /\ row[j].status = "failed"
            /\ seen.error = row[j].error /\ seen.error # "none"
            /\ seen.error = "engine" \/ seen.attempts >= MaxAttempts

\* A page that has a poll left when its job settles shows what came of it, or
\* that it lost contact; it never waits on, nor runs out of patience.
OutcomeIsShown ==
    \A j \in Watched :
        (row[j].status \in Settled /\ page[j].at = "timer")
            ~> page[j].at = "ended" /\ (page[j].error \/ page[j].shown.status = row[j].status)
=============================================================================
