------------------------------ MODULE Outings ------------------------------
(***************************************************************************)
(* A guardian's outings (apps/delegated-seller/outings): a job bought with *)
(* one permission plays up to `Admissions` paid rounds.  Jobs live in      *)
(* SQLite; a runner takes one at a time under a lease, persists the signed *)
(* payment header before it is sent, and resubmits the same header when    *)
(* the answer was lost.  The owner may stop and resume, the guardian may   *)
(* be sold, the process dies and comes back, the permission expires.       *)
(*                                                                         *)
(* One guardian, one game, and one seller process at a time, as the        *)
(* operator is told (outings/README.txt: never run two): a step is the     *)
(* synchronous code between two awaits, in which the reads of a row and    *)
(* the save of it cannot be separated, except that a process can die       *)
(* between two SQLite commits, so the second one is a step of its own.     *)
(***************************************************************************)
EXTENDS Integers, Sequences, FiniteSets

CONSTANTS
    Jobs,
    Keys,           \* agent keys the process may be started with
    Admissions,     \* rounds a job is bought for
    RankedAttempts, \* RANKED_ATTEMPTS: ranked rounds a guardian has per day
    TotalLimit,     \* open jobs the store takes (256)
    MaxDay, MaxEpoch, MaxFaults, MaxHeaders

ASSUME BoundsAssumption == {Admissions, RankedAttempts, TotalLimit, MaxDay, MaxEpoch, MaxFaults, MaxHeaders} \subseteq Nat
                           /\ Admissions # 0
ASSUME KeysAssumption == Keys # {}

VARIABLES
    jobs,       \* arcade_outings
    before,     \* its rows by updated_at: <<j, k>> when j was updated before k
    results,    \* arcade_guardian_results with their ranked attempt
    lease,      \* arcade_outing_lease
    run,        \* the runner: where tick() is, and its copy of the job
    asked,      \* the ownership epoch a start request read, until it inserts
    charged,    \* payment headers the facilitator settled
    headers,    \* headers signed so far, with their job
    day, epoch, expired, faults

disk == <<jobs, before>>
world == <<charged, headers, day, epoch, expired>>
vars == <<jobs, before, results, lease, run, asked, world, faults>>

None == 0
Dead == -1      \* the workerId of a process that died
Self == 1       \* the workerId of the process that runs
Active == {"queued", "running", "paused"}
FirstKey == CHOOSE k \in Keys : TRUE
NoPending == [day |-> 0, attempt |-> 0, header |-> None, tx |-> None, drawn |-> FALSE]
NoJob == [status |-> "none", stop |-> FALSE, pending |-> NoPending, spent |-> 0, epoch |-> 0, key |-> FirstKey]
Rest(k) == [stage |-> "idle", id |-> None, job |-> NoJob, key |-> k]

Init ==
    /\ jobs = [j \in Jobs |-> NoJob]
    /\ before = {}
    /\ results = {}
    /\ lease = None
    /\ run = Rest(FirstKey)
    /\ asked = [j \in Jobs |-> -1]
    /\ charged = {}
    /\ headers = <<>>
    /\ day = 1 /\ epoch = 1
    /\ expired = {}
    /\ faults = 0

Fault == faults < MaxFaults /\ faults' = faults + 1

\* Neither a header nor a transaction: nothing can have been paid.
Unsubmitted(job) == job.pending.header = None /\ job.pending.tx = None
Open(table) == {j \in Jobs : table[j].status \in Active}
Rows == {j \in Jobs : jobs[j].status # "none"}

-----------------------------------------------------------------------------
(* The store.                                                              *)

\* The rows of S are updated: they move behind the others and keep their order.
Behind(S, rel) == {p \in rel : p[1] \in S => p[2] \in S} \cup ((Rows \ S) \X S)
Save(j, job) == jobs' = [jobs EXCEPT ![j] = job] /\ before' = Behind({j}, before)

Stopped(job) == [job EXCEPT !.status = "stopped", !.pending = NoPending]

\* Mutant: a job that holds a header is swept too.
ExpirableMut == {j \in Jobs : jobs[j].status \in {"queued", "paused"} /\ j \in expired}

\* expireUnsubmitted: expired jobs that never acquired a header, running ones excluded.
Expirable == {j \in Jobs : jobs[j].status \in {"queued", "paused"} /\ j \in expired /\ Unsubmitted(jobs[j])}
Swept == [j \in Jobs |-> IF j \in Expirable THEN Stopped(jobs[j]) ELSE jobs[j]]
SweptOrder == Behind(Expirable, before)

\* lease(): refused while a dead process's has not lapsed.  Once granted it is not lost
\* without a second process, so asking for it again (before the payment, before the
\* dispatch, every 10 s) changes nothing.
TakeLease == lease # Dead /\ lease' = Self

-----------------------------------------------------------------------------
(* The owner: start, stop, resume.                                         *)

\* A request is served between two sections of the runner, and the one that stores a
\* transaction goes on to the result without an await.
Listening == run.stage # "result"

\* POST /: the chain is read first, the row is inserted later.
Ask(j) ==
    /\ jobs[j].status = "none" /\ asked[j] = -1
    /\ Listening
    /\ asked' = [asked EXCEPT ![j] = epoch]
    /\ UNCHANGED <<disk, results, lease, run, world, faults>>

\* A row of a later epoch refuses the start, one of the same epoch is busy; rows of
\* earlier epochs are told to stop, and end at once unless they hold a payment.
Insert(j) ==
    /\ asked[j] # -1 /\ Listening
    /\ asked' = [asked EXCEPT ![j] = -1]
    /\ LET e == asked[j]
           open == Open(Swept)
           Retired(k) == [(IF Unsubmitted(Swept[k]) THEN Stopped(Swept[k]) ELSE Swept[k]) EXCEPT !.stop = TRUE]
           left == {k \in open : ~Unsubmitted(Swept[k])} IN
       IF (\A k \in open : Swept[k].epoch < e) /\ Cardinality(left) < TotalLimit
       THEN /\ jobs' = [k \in Jobs |-> IF k = j THEN [NoJob EXCEPT !.status = "queued", !.epoch = e, !.key = run.key]
                                       ELSE IF k \in open THEN Retired(k) ELSE Swept[k]]
            /\ before' = Behind(open, SweptOrder) \cup (Rows \X {j})
       ELSE UNCHANGED disk
    /\ UNCHANGED <<results, lease, run, world, faults>>

\* control(stop): a payment in flight finishes once.
Stop(j) ==
    /\ Listening
    /\ jobs[j].status \in Active
    /\ Save(j, CASE jobs[j].status = "running" -> [jobs[j] EXCEPT !.stop = TRUE]
                 [] jobs[j].status # "running" /\ ~Unsubmitted(jobs[j]) -> [jobs[j] EXCEPT !.stop = TRUE, !.status = "queued"]
                 [] OTHER -> [jobs[j] EXCEPT !.stop = TRUE, !.status = "stopped"])
    /\ UNCHANGED <<results, lease, run, asked, world, faults>>

\* control(resume).
Resume(j) ==
    /\ Listening
    /\ jobs[j].status \in Active
    /\ jobs[j].key = run.key \/ jobs[j].pending.tx # None
    /\ ~Unsubmitted(jobs[j]) \/ j \notin expired
    /\ Save(j, [jobs[j] EXCEPT !.status = IF @ = "paused" THEN "queued" ELSE @])
    /\ UNCHANGED <<results, lease, run, asked, world, faults>>

-----------------------------------------------------------------------------
(* tick().                                                                 *)

End == run' = Rest(run.key) /\ lease' = None
At(j, job, s) == run' = [stage |-> s, id |-> j, job |-> job, key |-> run.key]

\* pause(): on the row as it is now.
Paused(job) == IF job.status \notin Active THEN job
               ELSE IF job.stop /\ Unsubmitted(job) THEN Stopped(job)
               ELSE [job EXCEPT !.status = "paused"]
Pause(j) == IF jobs[j].status \in Active THEN Save(j, Paused(jobs[j])) ELSE UNCHANGED disk

\* Mutant: an interrupted row is not picked up again.
RunnableMut == {j \in Jobs : jobs[j].status = "queued"}

\* next(): of the rows that are queued or running, the least recently updated one.
Runnable == {j \in Jobs : jobs[j].status \in {"queued", "running"}}
Oldest(S) == {j \in S : \A k \in S \ {j} : <<j, k>> \in before}

\* With the lease: the sweep, then the next job up to the first await.  The sweep is a
\* commit of its own, so a tick that sweeps something is counted as two.
Sweep ==
    /\ run.stage = "idle" /\ lease # Dead /\ Expirable # {}
    /\ jobs' = Swept /\ before' = SweptOrder
    /\ UNCHANGED <<results, lease, run, asked, world, faults>>

\* Mutant: only settled rounds count.
TakenMut(j) == {r.attempt : r \in {r \in results : r.day = day}}

\* The rounds taken today: settled ones and those pending in another open job.
Taken(j) == {r.attempt : r \in {r \in results : r.day = day}}
            \cup {jobs[k].pending.attempt : k \in {k \in Open(jobs) \ {j} : jobs[k].pending.drawn /\ jobs[k].pending.day = day}}

\* The lowest free attempt, else an unranked round (0).
Admission(j) ==
    LET free == (1 .. RankedAttempts) \ Taken(j) IN
    [NoPending EXCEPT !.drawn = TRUE, !.day = IF free = {} THEN 0 ELSE day,
                      !.attempt = IF free = {} THEN 0 ELSE CHOOSE a \in free : \A b \in free : a <= b]

\* Mark the copy running and save it over the row.
Launch(j, job) ==
    LET ready == [job EXCEPT !.status = "running", !.pending = IF @.drawn THEN @ ELSE Admission(j)] IN
    /\ Save(j, ready)
    /\ TakeLease
    /\ At(j, ready, CASE ready.pending.tx # None -> "result"
                      [] ready.pending.tx = None /\ ready.pending.header # None -> "submit"
                      [] OTHER -> "sign")

Tick ==
    /\ run.stage = "idle" /\ lease # Dead /\ Expirable = {}
    /\ \E j \in Oldest(Runnable) : LET job == jobs[j] IN
       \/ /\ Unsubmitted(job) /\ j \in expired
          /\ Save(j, Stopped(job)) /\ End
       \/ /\ ~(Unsubmitted(job) /\ j \in expired)
          /\ job.status = "running" \/ (job.key # run.key /\ job.pending.tx = None)
          /\ Pause(j) /\ End
       \/ /\ ~(Unsubmitted(job) /\ j \in expired)
          /\ job.status = "queued" /\ (job.key = run.key \/ job.pending.tx # None)
          /\ IF Unsubmitted(job)
             THEN IF job.stop THEN Save(j, [job EXCEPT !.status = "stopped"]) /\ End
                  ELSE UNCHANGED disk /\ At(j, job, "inspect") /\ TakeLease
             ELSE Launch(j, job)
    /\ UNCHANGED <<results, asked, world, faults>>

\* The chain answers; the copy read before the await is saved over the row.
Inspected ==
    /\ run.stage = "inspect"
    /\ LET j == run.id
           job == run.job IN
       IF job.epoch # epoch THEN Save(j, Stopped(job)) /\ End
       ELSE IF jobs[j].stop THEN UNCHANGED disk /\ End
       ELSE Launch(j, job)
    /\ UNCHANGED <<results, asked, world, faults>>

InspectFails ==
    /\ run.stage = "inspect"
    /\ Pause(run.id) /\ End
    /\ UNCHANGED <<results, asked, world, faults>>

\* The catch of a payment or a simulation that threw.
Caught(j) ==
    IF jobs[j].status \notin Active THEN UNCHANGED disk
    ELSE IF Unsubmitted(jobs[j]) /\ (jobs[j].stop \/ j \in expired) THEN Save(j, Stopped(jobs[j]))
    ELSE Pause(j)

\* Mutant: a stop that arrived while the payment was signed is not looked at.
MayDispatchMut ==
    LET j == run.id IN
    /\ jobs[j].status = "running" /\ jobs[j].key = run.key
    /\ j \notin expired
    /\ jobs[j].pending.header = None

\* persist(header): the last look before a signed request leaves.
MayDispatch ==
    LET j == run.id IN
    /\ jobs[j].status = "running" /\ jobs[j].key = run.key
    /\ ~jobs[j].stop /\ j \notin expired
    /\ jobs[j].pending.header = None

Persist ==
    /\ run.stage = "sign"
    /\ LET j == run.id IN
       IF MayDispatch
       THEN /\ Len(headers) < MaxHeaders
            /\ headers' = Append(headers, j)
            /\ Save(j, [jobs[j] EXCEPT !.pending.header = Len(headers) + 1])
            /\ At(j, [run.job EXCEPT !.pending.header = Len(headers) + 1], "submit")
            /\ UNCHANGED lease
       ELSE Caught(j) /\ End /\ UNCHANGED headers
    /\ UNCHANGED <<results, asked, charged, day, epoch, expired, faults>>

\* The offer, the policy or the signature fails before anything is sent.
SignFails ==
    /\ run.stage = "sign"
    /\ Caught(run.id) /\ End
    /\ UNCHANGED <<results, asked, world, faults>>

\* The facilitator settles a header that left, at most once however often it is sent, and
\* perhaps long after the sender gave up on it.
Charge(h) ==
    /\ h \in 1 .. Len(headers) /\ h \notin charged
    /\ charged' = charged \cup {h}
    /\ UNCHANGED <<disk, results, lease, run, asked, headers, day, epoch, expired, faults>>

\* The receipt is verified and its transaction stored on the row.
SubmitOk ==
    /\ run.stage = "submit"
    /\ run.job.pending.header \in charged
    /\ LET j == run.id
           h == run.job.pending.header IN
       IF jobs[j].pending.drawn
       THEN /\ Save(j, [jobs[j] EXCEPT !.pending.tx = h])
            /\ At(j, [run.job EXCEPT !.pending.tx = h], "result")
            /\ UNCHANGED lease
       ELSE Caught(j) /\ End
    /\ UNCHANGED <<results, asked, world, faults>>

\* Refused, timed out, or an answer that cannot be confirmed.
SubmitFails ==
    /\ run.stage = "submit"
    /\ Caught(run.id) /\ End
    /\ UNCHANGED <<results, asked, world, faults>>

\* store.result with the ledger's insert, one transaction; its UNIQUE keys refuse a
\* second round for one admission, one payment or one ranked attempt.
Clash(j) == \E r \in results : \/ r.job = j /\ r.round = jobs[j].spent + 1
                               \/ r.tx # None /\ r.tx = jobs[j].pending.tx
                               \/ /\ jobs[j].pending.attempt # 0
                                  /\ r.day = jobs[j].pending.day /\ r.attempt = jobs[j].pending.attempt

\* After a round: stop was asked, the rounds are used up, or another one follows.
AfterRound(job, spent) == IF job.stop THEN "stopped" ELSE IF spent >= Admissions THEN "complete" ELSE "queued"

Result ==
    /\ run.stage = "result"
    /\ LET j == run.id
           job == jobs[j]
           spent == job.spent + 1 IN
       IF Clash(j) \/ job.pending.tx = None THEN Caught(j) /\ UNCHANGED results
       ELSE /\ results' = results \cup {[job |-> j, round |-> spent, tx |-> job.pending.tx,
                                         day |-> job.pending.day, attempt |-> job.pending.attempt]}
            /\ Save(j, [job EXCEPT !.spent = spent, !.pending = NoPending,
                          !.status = AfterRound(job, spent)])
    /\ End
    /\ UNCHANGED <<asked, world, faults>>

\* The simulation throws, or its outcome is too large.
SimulationFails ==
    /\ run.stage = "result"
    /\ Caught(run.id) /\ End
    /\ UNCHANGED <<results, asked, world, faults>>

-----------------------------------------------------------------------------
(* Processes, the chain and time.                                          *)

\* The process dies with its requests and comes back under another workerId, perhaps with
\* another key; a lease it held stays until it lapses.
Crash ==
    /\ Fault
    /\ \E k \in Keys : run' = Rest(k)
    /\ lease' = IF lease = Self THEN Dead ELSE lease
    /\ asked' = [j \in Jobs |-> -1]
    /\ UNCHANGED <<disk, results, world>>

\* 120 s without a heartbeat.  A live holder whose heartbeats fail loses nothing: nobody
\* else asks for the lease.
Lapse ==
    /\ lease = Dead
    /\ lease' = None
    /\ UNCHANGED <<disk, results, run, asked, world, faults>>

Expire(j) ==
    /\ jobs[j].status \in Active /\ j \notin expired
    /\ expired' = expired \cup {j}
    /\ UNCHANGED <<disk, results, lease, run, asked, charged, headers, day, epoch, faults>>

Transfer ==
    /\ epoch < MaxEpoch
    /\ epoch' = epoch + 1
    /\ UNCHANGED <<disk, results, lease, run, asked, charged, headers, day, expired, faults>>

Midnight ==
    /\ day < MaxDay
    /\ day' = day + 1
    /\ UNCHANGED <<disk, results, lease, run, asked, charged, headers, epoch, expired, faults>>

Work == \/ Sweep \/ Tick \/ Inspected \/ InspectFails \/ Persist \/ SignFails
           \/ SubmitOk \/ SubmitFails \/ Result \/ SimulationFails

Owner(j) == Ask(j) \/ Insert(j) \/ Stop(j) \/ Resume(j)

Next == \/ Work \/ Crash
        \/ \E j \in Jobs : Owner(j) \/ Expire(j)
        \/ \E h \in 1 .. MaxHeaders : Charge(h)
        \/ Lapse \/ Transfer \/ Midnight

\* The runner polls every two seconds, each await ends, and a dead lease lapses.
Fairness == WF_vars(Lapse) /\ WF_vars(Work)

Spec == Init /\ [][Next]_vars
FairSpec == Spec /\ Fairness

-----------------------------------------------------------------------------
(* Properties.                                                             *)

\* rel is a strict total order on S.
Ordered(S, rel) ==
    /\ rel \subseteq S \X S
    /\ \A j, k \in S : (<<j, k>> \in rel) = (j # k /\ <<k, j>> \notin rel)
    /\ \A i, j, k \in S : <<i, j>> \in rel /\ <<j, k>> \in rel => <<i, k>> \in rel

\* The variables keep their types; the rows are totally ordered by their last update.
TypeOK ==
    /\ \A j \in Jobs : /\ jobs[j].status \in Active \cup {"none", "stopped", "complete"}
                       /\ jobs[j].spent \in 0 .. Admissions
    /\ Ordered(Rows, before)
    /\ lease \in {None, Self, Dead}
    /\ run.stage \in {"idle", "inspect", "sign", "submit", "result"}
    /\ charged \subseteq 1 .. Len(headers)

\* A signed header is a financial intent: whatever crashes, stops, expires or changes
\* hands, it stays on its job until the round it pays for is recorded, so what it may
\* have charged is never paid again.
HeaderKept ==
    \A h \in 1 .. Len(headers) : \/ \E r \in results : r.tx = h
                                 \/ jobs[headers[h]].pending.header = h

\* A paid round always enters the ledger: its ranked attempt and its admission are free.
PaidRoundFits == \A j \in Open(jobs) : jobs[j].pending.header # None => ~Clash(j)

\* Every recorded round was paid for, by a payment of its own job.
RoundsPaid == \A r \in results : r.tx \in charged /\ headers[r.tx] = r.job

\* The store's rounds: every recorded one was paid for, every paid one can be recorded.
RoundsSound == TypeOK /\ PaidRoundFits /\ RoundsPaid

\* A stopped job signs nothing any more, and stays told to stop until it has ended.
StopHeld == [][\A j \in Jobs : jobs[j].stop =>
                 /\ jobs'[j].stop \/ jobs'[j].status = "stopped"
                 /\ jobs'[j].pending.header \in {jobs[j].pending.header, None}]_vars

\* Every queued or interrupted job is attended: it ends, or it pauses for its owner, once
\* the owners stop pressing stop and resume (each press sends the job to the back).
Attended ==
    <>[][\A j \in Jobs : ~Stop(j) /\ ~Resume(j)]_vars
        => \A j \in Jobs : jobs[j].status \in {"queued", "running"} ~> jobs[j].status \notin {"queued", "running"}
=============================================================================
