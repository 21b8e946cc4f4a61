----------------------------- MODULE MCScheduler -----------------------------
(* Small instances of the scheduler. *)
EXTENDS Scheduler, TLC

CONSTANTS j1, w1, w2

Schedule == [maxAmount |-> 2, maxTotal |-> 3, maxRuns |-> 2, startsAt |-> 1, endsAt |-> 4,
             interval |-> 2, maxAttempts |-> 2, retryDelay |-> 1]

MCTerms == [j \in Jobs |-> Schedule]
=============================================================================
