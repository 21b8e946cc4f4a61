------------------------------ MODULE Scheduler ------------------------------
(***************************************************************************)
(* The scheduled-payment agent: the store of packages/store/src/           *)
(* scheduler.ts, the tick loop and the executor of apps/payment-scheduler, *)
(* and its command line.  Any number of worker processes share one SQLite  *)
(* file; each store method is one immediate transaction, hence one action, *)
(* and a worker may die between any two of them.                           *)
(*                                                                         *)
(*   jobs     payment_jobs, a partial function                             *)
(*   runs     payment_runs in id order; rows are never deleted             *)
(*   worker   each process: its tick loop and the run it executes          *)
(*   wire     payment headers that are out and not yet decided             *)
(*   charged  what the chain charged for each run (history)                *)
(*   now      Date.now()                                                   *)
(***************************************************************************)
EXTENDS Integers, Sequences, FiniteSets, FiniteSetsExt, Functions

CONSTANTS
    Jobs,       \* schedule ids
    Workers,    \* `tick` and `run` processes
    Terms,      \* each job's PaymentSchedule
    Offers,     \* the amounts a seller may ask for
    MaxTime,    \* bound: the last instant of a behaviour
    MaxCrashes  \* bound: worker deaths in a behaviour

PaymentSchedule ==
    [maxAmount : Nat \ {0}, maxTotal : Nat, maxRuns : Nat \ {0}, startsAt : Nat, endsAt : Nat,
     interval : Nat \ {0}, maxAttempts : Nat \ {0}, retryDelay : Nat \ {0}]

ASSUME SchedulerAssumption ==
    /\ Terms \in [Jobs -> PaymentSchedule]
    /\ \A j \in Jobs : Terms[j].endsAt > Terms[j].startsAt /\ Terms[j].maxTotal >= Terms[j].maxAmount
    /\ Offers \subseteq Nat \ {0}
    /\ MaxTime \in Nat /\ MaxCrashes \in Nat

VARIABLES jobs, runs, worker, wire, charged, now, crashes

storeVars == <<jobs, runs>>
vars == <<jobs, runs, worker, wire, charged, now, crashes>>

Statuses == {"active", "paused", "cancelled", "completed"}
JobRow == [status : Statuses, nextAt : Nat, runCount : Nat, attempts : Nat, committed : Nat]
RunRow == [job : Jobs, at : Nat, attempt : Nat, outcome : {"unknown", "paid", "unpaid"},
           amount : Nat, finished : BOOLEAN]

\* A ScheduledResult: only a paid one has an amount, only an unpaid one may be retried.
Result == [outcome : {"unknown", "paid", "unpaid"}, amount : Nat, retry : BOOLEAN]
Unknown == [outcome |-> "unknown", amount |-> 0, retry |-> FALSE]
Unpaid(retry) == [outcome |-> "unpaid", amount |-> 0, retry |-> retry]
Paid(amount) == [outcome |-> "paid", amount |-> amount, retry |-> FALSE]

Worker == [pc : {"down", "idle", "ticking", "offer", "signing", "sent", "result"},
           running : BOOLEAN, todo : Seq(Jobs), run : Nat, offer : Nat, result : Result]
FreshWorker == [pc |-> "idle", running |-> TRUE, todo |-> <<>>, run |-> 0, offer |-> 0,
                result |-> Unknown]

TypeOK ==
    /\ DOMAIN jobs \subseteq Jobs /\ jobs \in [DOMAIN jobs -> JobRow]
    /\ runs \in Seq(RunRow)
    /\ worker \in [Workers -> Worker]
    /\ wire \subseteq [run : DOMAIN runs, amount : Nat]
    /\ charged \in [DOMAIN runs -> Nat]
    /\ now \in 0 .. MaxTime
    /\ crashes \in 0 .. MaxCrashes

Init ==
    /\ jobs = [j \in {} |-> 0]
    /\ runs = <<>>
    /\ worker = [w \in Workers |-> FreshWorker]
    /\ wire = {}
    /\ charged = <<>>
    /\ now = 0
    /\ crashes = 0

-----------------------------------------------------------------------------
(* The command line: local management of the same file. *)

Add(j) ==
    /\ j \notin DOMAIN jobs
    /\ jobs' = [k \in DOMAIN jobs \cup {j} |->
                  IF k = j THEN [status |-> "active", nextAt |-> Terms[j].startsAt,
                                 runCount |-> 0, attempts |-> 0, committed |-> 0]
                  ELSE jobs[k]]
    /\ UNCHANGED <<runs, worker, wire, charged, now, crashes>>

Cancel(j) ==
    /\ j \in DOMAIN jobs
    /\ jobs' = [jobs EXCEPT ![j].status = "cancelled"]
    /\ UNCHANGED <<runs, worker, wire, charged, now, crashes>>

-----------------------------------------------------------------------------
(* The store. *)

\* No slot, no time or no room for another maximum payment is left.
SlotsUsed(j, attempts) == attempts = 0 /\ jobs[j].runCount >= Terms[j].maxRuns
NoRoom(j, committed) == committed + Terms[j].maxAmount > Terms[j].maxTotal

Due(j) ==
    /\ jobs[j].status = "active"
    /\ now >= jobs[j].nextAt
    /\ now >= Terms[j].startsAt

Exhausted(j) ==
    \/ now >= Terms[j].endsAt
    \/ SlotsUsed(j, jobs[j].attempts)
    \/ NoRoom(j, jobs[j].committed)

\* claim() takes the slot: the maximum is reserved and the job paused in one transaction,
\* with a run that is unknown until a result is written.
TakeSlot(j) ==
    LET first == jobs[j].attempts = 0
    IN  /\ jobs' = [jobs EXCEPT ![j].status = "paused",
                                ![j].committed = @ + Terms[j].maxAmount,
                                ![j].runCount = @ + (IF first THEN 1 ELSE 0),
                                ![j].attempts = @ + 1]
        /\ runs' = Append(runs, [job |-> j, at |-> now, attempt |-> jobs[j].attempts + 1,
                                 outcome |-> "unknown", amount |-> Terms[j].maxAmount,
                                 finished |-> FALSE])
        /\ charged' = Append(charged, 0)

\* Mutant: missed intervals are caught up with.
NextSlotMut(j) == jobs[j].nextAt + Terms[j].interval

\* Missed intervals are skipped: the first boundary after now.
NextSlot(j) ==
    Terms[j].startsAt + (((now - Terms[j].startsAt) \div Terms[j].interval) + 1) * Terms[j].interval

\* What the run will have cost: the reservation is settled, released, or stays.
FinalAmount(r, res) ==
    CASE res.outcome = "paid" -> res.amount
      [] res.outcome = "unpaid" -> 0
      [] OTHER -> runs[r].amount

CommittedAfter(r, res) ==
    jobs[runs[r].job].committed - runs[r].amount + FinalAmount(r, res)

MayRetry(j, res) ==
    res.outcome = "unpaid" /\ res.retry /\ jobs[j].attempts < Terms[j].maxAttempts

\* finish(): the run and its job move together, once.  A result that is neither paid nor
\* worth a retry leaves the job paused; a cancelled job stays cancelled.
FinishRun(r, res) ==
    LET j == runs[r].job
        paid == res.outcome = "paid"
        again == MayRetry(j, res)
        attempts == IF paid THEN 0 ELSE jobs[j].attempts
        next == CASE paid -> NextSlot(j)
                  [] again -> now + Terms[j].retryDelay
                  [] OTHER -> jobs[j].nextAt
        over == \/ next >= Terms[j].endsAt
                \/ SlotsUsed(j, attempts)
                \/ NoRoom(j, CommittedAfter(r, res))
        status == IF jobs[j].status = "cancelled" THEN "cancelled"
                  ELSE IF ~paid /\ ~again THEN "paused"
                  ELSE IF over THEN "completed" ELSE "active"
    IN  /\ ~runs[r].finished
        /\ paid => res.amount \in 1 .. Terms[j].maxAmount
        /\ jobs' = [jobs EXCEPT ![j].status = status, ![j].nextAt = next,
                                ![j].attempts = attempts, ![j].committed = CommittedAfter(r, res)]
        /\ runs' = [runs EXCEPT ![r].outcome = res.outcome, ![r].finished = TRUE,
                                ![r].amount = FinalAmount(r, res)]

-----------------------------------------------------------------------------
(* tick(), over the jobs as list() returned them. *)

\* list(): every job, by next_at and then id.
Listings ==
    {s \in [1 .. Cardinality(DOMAIN jobs) -> DOMAIN jobs] :
        /\ IsInjective(s)
        /\ \A m, n \in DOMAIN s : m < n => jobs[s[m]].nextAt <= jobs[s[n]].nextAt}

StartTick(w) ==
    /\ worker[w].pc = "idle" /\ worker[w].running
    /\ \E s \in Listings : worker' = [worker EXCEPT ![w].pc = "ticking", ![w].todo = s]
    /\ UNCHANGED <<storeVars, wire, charged, now, crashes>>

\* `run` sleeps and ticks again; `tick`, or a process told to stop, exits.
EndTick(w) ==
    /\ worker[w].pc = "ticking" /\ worker[w].todo = <<>>
    /\ \/ worker[w].running /\ worker' = [worker EXCEPT ![w].pc = "idle"]
       \/ worker' = [worker EXCEPT ![w].pc = "down"]
    /\ UNCHANGED <<storeVars, wire, charged, now, crashes>>

\* SIGINT or SIGTERM: claims go on to the end of the tick, payments do not.
Stop(w) ==
    /\ worker[w].pc # "down" /\ worker[w].running
    /\ worker' = [worker EXCEPT ![w].running = FALSE,
                                ![w].pc = IF @ = "idle" THEN "down" ELSE @]
    /\ UNCHANGED <<storeVars, wire, charged, now, crashes>>

\* Mutant: a job that is over is skipped, not completed.
ClaimNextMut(w) ==
    /\ worker[w].pc = "ticking" /\ worker[w].todo # <<>>
    /\ LET j == Head(worker[w].todo)
           rest == [worker[w] EXCEPT !.todo = Tail(@)]
       IN  \/ /\ ~Due(j) \/ Exhausted(j)
              /\ worker' = [worker EXCEPT ![w] = rest]
              /\ UNCHANGED <<storeVars, charged>>
           \/ /\ Due(j) /\ ~Exhausted(j)
              /\ TakeSlot(j)
              /\ worker' = [worker EXCEPT ![w] =
                              [rest EXCEPT !.run = Len(runs) + 1,
                                           !.pc = IF rest.running THEN "offer" ELSE "result",
                                           !.result = Unpaid(FALSE)]]
    /\ UNCHANGED <<wire, now, crashes>>

\* One turn of the loop: claim() finds the job not due, completes it, or takes its slot,
\* which a process told to stop gives back unpaid.
ClaimNext(w) ==
    /\ worker[w].pc = "ticking" /\ worker[w].todo # <<>>
    /\ LET j == Head(worker[w].todo)
           rest == [worker[w] EXCEPT !.todo = Tail(@)]
       IN  \/ /\ ~Due(j)
              /\ worker' = [worker EXCEPT ![w] = rest]
              /\ UNCHANGED <<storeVars, charged>>
           \/ /\ Due(j) /\ Exhausted(j)
              /\ jobs' = [jobs EXCEPT ![j].status = "completed"]
              /\ worker' = [worker EXCEPT ![w] = rest]
              /\ UNCHANGED <<runs, charged>>
           \/ /\ Due(j) /\ ~Exhausted(j)
              /\ TakeSlot(j)
              /\ worker' = [worker EXCEPT ![w] =
                              [rest EXCEPT !.run = Len(runs) + 1,
                                           !.pc = IF rest.running THEN "offer" ELSE "result",
                                           !.result = Unpaid(FALSE)]]
    /\ UNCHANGED <<wire, now, crashes>>

Decide(w, res) == worker' = [worker EXCEPT ![w].pc = "result", ![w].result = res]

\* The run is over in the store; the loop goes on with the next job.
FinishStep(w) ==
    /\ worker[w].pc = "result"
    /\ FinishRun(worker[w].run, worker[w].result)
    /\ worker' = [worker EXCEPT ![w].pc = "ticking", ![w].run = 0, ![w].offer = 0]
    /\ UNCHANGED <<wire, charged, now, crashes>>

-----------------------------------------------------------------------------
(* paymentExecutor(). *)

JobOf(w) == runs[worker[w].run].job

Allowed(w) == jobs[JobOf(w)].status # "cancelled" /\ now < Terms[JobOf(w)].endsAt

\* The first fetch, or the preflight, could not be made: retried later.
NoOffer(w) ==
    /\ worker[w].pc = "offer"
    /\ Decide(w, Unpaid(TRUE))
    /\ UNCHANGED <<storeVars, wire, charged, now, crashes>>

\* No usable offer, the preflight refused, the offer breaks the job's conditions
\* (policyDenied), or the leaf could not be signed: no header left this process.
Denied(w) ==
    /\ worker[w].pc \in {"offer", "signing"}
    /\ Decide(w, Unpaid(FALSE))
    /\ UNCHANGED <<storeVars, wire, charged, now, crashes>>

\* An offer for the job's payee, within its cap, while it may still be paid: sign it.
AcceptOffer(w) ==
    /\ worker[w].pc = "offer"
    /\ Allowed(w)
    /\ \E a \in Offers :
          /\ a <= Terms[JobOf(w)].maxAmount
          /\ worker' = [worker EXCEPT ![w].pc = "signing", ![w].offer = a]
    /\ UNCHANGED <<storeVars, wire, charged, now, crashes>>

\* Mutant: the conditions are not checked again after signing.
SendHeaderMut(w) ==
    /\ worker[w].pc = "signing"
    /\ wire' = wire \cup {[run |-> worker[w].run, amount |-> worker[w].offer]}
    /\ worker' = [worker EXCEPT ![w].pc = "sent"]
    /\ UNCHANGED <<storeVars, charged, now, crashes>>

\* Signed, and still allowed: the payment header goes out.
SendHeader(w) ==
    /\ worker[w].pc = "signing"
    /\ Allowed(w)
    /\ wire' = wire \cup {[run |-> worker[w].run, amount |-> worker[w].offer]}
    /\ worker' = [worker EXCEPT ![w].pc = "sent"]
    /\ UNCHANGED <<storeVars, charged, now, crashes>>

\* The seller and its facilitator (external): a header that is out may be settled, late or
\* after its sender died ...
Settle(h) ==
    /\ h \in wire
    /\ wire' = wire \ {h}
    /\ charged' = [charged EXCEPT ![h.run] = h.amount]
    /\ UNCHANGED <<storeVars, worker, now, crashes>>

\* ... or come to nothing.
Lapse(h) ==
    /\ h \in wire
    /\ wire' = wire \ {h}
    /\ UNCHANGED <<storeVars, worker, charged, now, crashes>>

\* 2xx: the resource came back, which a seller serves only once it was paid.
AnswerPaid(w) ==
    /\ worker[w].pc = "sent" /\ charged[worker[w].run] > 0
    /\ Decide(w, Paid(worker[w].offer))
    /\ UNCHANGED <<storeVars, wire, charged, now, crashes>>

\* 429 or 503 (SELLER_UNAVAILABLE): the seller turned the header away uncharged.
AnswerUnavailable(w) ==
    /\ worker[w].pc = "sent" /\ charged[worker[w].run] = 0
    /\ \A h \in wire : h.run # worker[w].run
    /\ Decide(w, Unpaid(TRUE))
    /\ UNCHANGED <<storeVars, wire, charged, now, crashes>>

\* Mutant: a connection that dies after the header is a transport error like any other.
AnswerUnknownMut(w) ==
    /\ worker[w].pc = "sent"
    /\ Decide(w, Unpaid(TRUE))
    /\ UNCHANGED <<storeVars, wire, charged, now, crashes>>

\* A rejection, a doubt, a lost answer or an unreadable body; or a throw, at any point.
AnswerUnknown(w) ==
    /\ worker[w].pc \in {"offer", "signing", "sent"}
    /\ Decide(w, Unknown)
    /\ UNCHANGED <<storeVars, wire, charged, now, crashes>>

-----------------------------------------------------------------------------
\* A process dies, or a store method threw and took it down.
Crash(w) ==
    /\ worker[w].pc # "down" /\ crashes < MaxCrashes
    /\ crashes' = crashes + 1
    /\ worker' = [worker EXCEPT ![w] = [FreshWorker EXCEPT !.pc = "down"]]
    /\ UNCHANGED <<storeVars, wire, charged, now>>

\* "No startup lease or replay is needed": a new process only starts to tick.
Restart(w) ==
    /\ worker[w].pc = "down"
    /\ worker' = [worker EXCEPT ![w] = FreshWorker]
    /\ UNCHANGED <<storeVars, wire, charged, now, crashes>>

Advance ==
    /\ now < MaxTime
    /\ now' = now + 1
    /\ UNCHANGED <<storeVars, worker, wire, charged, crashes>>

Work(w) ==
    \/ StartTick(w) \/ EndTick(w) \/ ClaimNext(w) \/ FinishStep(w)
    \/ NoOffer(w) \/ Denied(w) \/ AcceptOffer(w) \/ SendHeader(w)
    \/ AnswerPaid(w) \/ AnswerUnavailable(w) \/ AnswerUnknown(w)

Next ==
    \/ \E j \in Jobs : Add(j) \/ Cancel(j)
    \/ \E w \in Workers : Work(w) \/ Stop(w) \/ Crash(w) \/ Restart(w)
    \/ \E h \in wire : Settle(h) \/ Lapse(h)
    \/ Advance

Spec == Init /\ [][Next]_vars

\* A worker that keeps being started gets its turns even if it is stopped now and then,
\* and time passes.
LiveSpec ==
    /\ Spec
    /\ \A w \in Workers : SF_vars(Work(w)) /\ WF_vars(Restart(w))
    /\ WF_vars(Advance)

-----------------------------------------------------------------------------
(* Properties. *)

RunsOf(j) == {r \in DOMAIN runs : runs[r].job = j}

\* The running total a job carries, moved up by every claim and down by every result, is
\* what its runs say was spent or may have been; and it never passes the job's total cap.
CommittedExact ==
    \A j \in DOMAIN jobs :
        /\ jobs[j].committed = SumFunctionOnSet([r \in DOMAIN runs |-> runs[r].amount], RunsOf(j))
        /\ jobs[j].committed <= Terms[j].maxTotal

\* Whatever the chain charged is covered by the run that caused it: a run on file as
\* unpaid was never charged and never will be, a paid one cost exactly what is recorded.
ChargesCovered ==
    \A r \in DOMAIN runs :
        /\ charged[r] <= runs[r].amount
        /\ \A h \in wire : h.run = r => runs[r].outcome = "unknown"
        /\ runs[r].outcome = "paid" => charged[r] = runs[r].amount

\* The first run of r's slot: retries of one slot count their attempts up from it.
SlotStart(r) == Max({s \in RunsOf(runs[r].job) : s <= r /\ runs[s].attempt = 1})

\* "Two workers that take the same job execute it once" (README): however claims, deaths,
\* restarts and retries interleave, one slot is charged at most once.
SlotChargedOnce ==
    \A r, s \in DOMAIN runs :
        r # s /\ runs[r].job = runs[s].job /\ SlotStart(r) = SlotStart(s)
            => ~(charged[r] > 0 /\ charged[s] > 0)

\* Only so many slots are ever taken, and in each only so many attempts.
SlotsBounded ==
    \A j \in DOMAIN jobs :
        /\ jobs[j].runCount = Cardinality({r \in RunsOf(j) : runs[r].attempt = 1})
        /\ jobs[j].runCount <= Terms[j].maxRuns
        /\ \A r \in RunsOf(j) : runs[r].attempt <= Terms[j].maxAttempts

Window(r) == (runs[r].at - Terms[runs[r].job].startsAt) \div Terms[runs[r].job].interval

\* "Never catch up with a burst of payments": each slot is taken in a later interval than
\* anything the job ran before it.
OnePerInterval ==
    \A r, s \in DOMAIN runs :
        r < s /\ runs[r].job = runs[s].job /\ runs[s].attempt = 1 => Window(r) < Window(s)

\* A run that was interrupted keeps its job from running again: while a run is open its
\* job is paused or was cancelled, and no second run of the job is open.
OpenRunHoldsJob ==
    \A r \in DOMAIN runs : ~runs[r].finished =>
        /\ jobs[runs[r].job].status \in {"paused", "cancelled"}
        /\ \A s \in RunsOf(runs[r].job) : ~runs[s].finished => s = r

\* The books of the scheduler's store: typed rows, exact totals, bounded slots and
\* attempts, one slot per interval, and a job held while its run is open.
BooksExact == TypeOK /\ CommittedExact /\ SlotsBounded /\ OnePerInterval /\ OpenRunHoldsJob

\* A cancelled job stays cancelled, takes no new slot, and sends no header it had not
\* sent: not even for the claim that was being signed as it was cancelled or expired.
CancelHolds ==
    [][/\ \A j \in DOMAIN jobs : jobs[j].status = "cancelled" =>
             /\ jobs'[j].status = "cancelled"
             /\ jobs'[j].runCount = jobs[j].runCount
       /\ \A h \in wire' \ wire :
             /\ jobs[runs[h.run].job].status # "cancelled"
             /\ now < Terms[runs[h.run].job].endsAt]_vars

\* Every job comes to rest: it is paid out, stopped on a doubt, or cancelled.
JobsComeToRest ==
    \A j \in Jobs : <>[](j \in DOMAIN jobs => jobs[j].status # "active")
=============================================================================
