--------------------------- MODULE OutingsProofs ---------------------------
(***************************************************************************)
(* Proofs about Outings.  The rows, the headers and the runner's copy      *)
(* first; then what a stop forbids; then the ledger of rounds.             *)
(***************************************************************************)
EXTENDS Outings, SumTheorems

Statuses == Active \cup {"none", "stopped", "complete"}
Stages == {"idle", "inspect", "sign", "submit", "result"}
Pending == [day : Nat, attempt : Nat, header : Nat, tx : Nat, drawn : BOOLEAN]
Job == [status : Statuses, stop : BOOLEAN, pending : Pending, spent : Nat, epoch : Nat, key : Keys]
Runner == [stage : Stages, id : Jobs \cup {None}, job : Job, key : Keys]
Round == [job : Jobs, round : Nat, tx : Nat, day : Nat, attempt : Nat]

Types ==
    /\ jobs \in [Jobs -> Job]
    /\ results \subseteq Round
    /\ lease \in {None, Self, Dead}
    /\ run \in Runner
    /\ asked \in [Jobs -> Nat \cup {-1}]
    /\ headers \in Seq(Jobs)
    /\ charged \subseteq 1 .. Len(headers)
    /\ day \in Nat /\ epoch \in Nat

\* What a row of job j may hold, given the headers signed and charged.
RowOK(j, v, hs, cs) ==
    /\ v.status = "none" => v = NoJob
    /\ v.spent <= Admissions
    /\ v.status \in Active \/ v.pending.drawn => v.spent < Admissions
    /\ ~Unsubmitted(v) \/ v.status = "running" => v.pending.drawn
    /\ v.pending.header # None => v.pending.header \in 1 .. Len(hs) /\ hs[v.pending.header] = j
    /\ v.pending.tx # None => v.pending.tx \in cs /\ hs[v.pending.tx] = j

RowsOK == \A j \in Jobs : RowOK(j, jobs[j], headers, charged)

AskedOK == \A j \in Jobs : asked[j] # -1 => jobs[j].status = "none"

\* What a runner's copy is worth: nothing is known of it after it has been signed but its header.
RunnerOK(r, rows, hs, cs) ==
    /\ r.stage # "idle" => r.id \in rows
    /\ r.stage = "inspect" => r.job.status = "queued" /\ Unsubmitted(r.job) /\ RowOK(r.id, r.job, hs, cs)
    /\ r.stage = "submit" => r.job.pending.header \in 1 .. Len(hs) /\ hs[r.job.pending.header] = r.id

RunnersOK == RunnerOK(run, Rows, headers, charged)

\* The store and the runner are well formed.
IInv == Types /\ RowsOK /\ AskedOK /\ RunnersOK /\ RoundsPaid /\ Ordered(Rows, before)

\* No recorded round and no other open job has the ranked attempt of p.
Exclusive(j, p, table, rounds) ==
    p.drawn /\ p.attempt # 0 =>
        /\ \A r \in rounds : ~(r.day = p.day /\ r.attempt = p.attempt)
        /\ \A k \in Open(table) \ {j} : table[k].pending.drawn =>
               ~(table[k].pending.day = p.day /\ table[k].pending.attempt = p.attempt)

\* A row's payment is its own header, kept while the job is open.
PaymentOK(v) ==
    /\ v.pending.tx # None => v.pending.tx = v.pending.header
    /\ v.pending.header # None => v.status \in Active
PaymentsOK == \A j \in Jobs : PaymentOK(jobs[j])

\* The ledger is behind the rows.
LedgerOK == \A r \in results : r.round <= jobs[r.job].spent /\ r.tx # jobs[r.job].pending.header

AttemptsOK == \A j \in Open(jobs) : Exclusive(j, jobs[j].pending, jobs, results)

\* The copy of a runner that waits agrees with the row where it will overwrite it.
CopyOK(r) ==
    /\ r.stage = "inspect" => /\ Unsubmitted(jobs[r.id]) /\ r.job.spent = jobs[r.id].spent
                              /\ Exclusive(r.id, r.job.pending, jobs, results)
    /\ r.stage = "submit" => jobs[r.id].pending.header = r.job.pending.header

\* The ledger of rounds agrees with the rows, and the rows with the headers.
LInv == PaymentsOK /\ LedgerOK /\ AttemptsOK /\ CopyOK(run) /\ HeaderKept

-----------------------------------------------------------------------------
(* The order of the rows, and the updates that leave a payment alone.      *)

\* The constants have their types.
LEMMA ConstantTypes ==
    /\ NoPending \in Pending /\ NoJob \in Job
    /\ \A k \in Keys : Rest(k) \in Runner /\ Rest(k).stage = "idle"
    /\ FirstKey \in Keys
<1>1. FirstKey \in Keys
    BY KeysAssumption DEF FirstKey
<1>2. NoPending \in Pending
    BY DEF NoPending, Pending, None
<1>3. NoJob \in Job
    BY <1>1, <1>2 DEF NoJob, Job, Statuses
<1> QED
    BY <1>1, <1>2, <1>3 DEF Rest, Runner, Stages

\* Rows moved behind the others are still totally ordered (save, expireUnsubmitted).
LEMMA BehindOrdered ==
    ASSUME NEW S, S \subseteq Rows, NEW rel, Ordered(Rows, rel)
    PROVE  Ordered(Rows, Behind(S, rel))
<1> DEFINE B == Behind(S, rel)
<1>1. \A j, k \in Rows : <<j, k>> \in B <=> (<<j, k>> \in rel /\ (j \in S => k \in S)) \/ (j \notin S /\ k \in S)
    BY DEF Behind
<1>2. B \subseteq Rows \X Rows
    BY DEF Behind, Ordered
<1> HIDE DEF B
<1>3. ASSUME NEW j \in Rows, NEW k \in Rows PROVE (<<j, k>> \in B) = (j # k /\ <<k, j>> \notin B)
    BY <1>1 DEF Ordered
<1>4. ASSUME NEW i \in Rows, NEW j \in Rows, NEW k \in Rows, <<i, j>> \in B, <<j, k>> \in B PROVE <<i, k>> \in B
    BY <1>1, <1>4 DEF Ordered
<1> QED
    BY <1>2, <1>3, <1>4 DEF Ordered, B

\* A row newly inserted comes last.
LEMMA LastOrdered ==
    ASSUME NEW S, NEW rel, Ordered(S, rel), NEW j, j \notin S
    PROVE  Ordered(S \cup {j}, rel \cup (S \X {j}))
<1> DEFINE B == rel \cup (S \X {j})
           T == S \cup {j}
<1>1. \A a, b \in T : <<a, b>> \in B <=> <<a, b>> \in rel \/ (a \in S /\ b = j)
    OBVIOUS
<1>2. B \subseteq T \X T
    BY DEF Ordered
<1>3. \A a, b : <<a, b>> \in rel => a \in S /\ b \in S
    BY DEF Ordered
<1> HIDE DEF B
<1>4. ASSUME NEW a \in T, NEW b \in T PROVE (<<a, b>> \in B) = (a # b /\ <<b, a>> \notin B)
    BY <1>1, <1>3 DEF Ordered
<1>5. ASSUME NEW a \in T, NEW b \in T, NEW c \in T, <<a, b>> \in B, <<b, c>> \in B PROVE <<a, c>> \in B
    BY <1>1, <1>3, <1>5 DEF Ordered
<1> QED
    BY <1>2, <1>4, <1>5 DEF Ordered, B

\* An update that keeps a payment where it is: it may end the job only when there is none.
Mild(old, new) ==
    \/ new = old
    \/ /\ old.status \in Active
       /\ new.status \in Active \cup {"stopped"}
       /\ new.status = "running" => old.status = "running"
       /\ new.spent = old.spent /\ (old.stop => new.stop)
       /\ \/ new.pending = old.pending
          \/ Unsubmitted(old) /\ new.pending = NoPending /\ new.status = "stopped"
       /\ ~Unsubmitted(old) => new.status \in Active

MildStep ==
    /\ jobs' \in [Jobs -> Job] /\ \A k \in Jobs : Mild(jobs[k], jobs'[k])
    /\ Rows' = Rows /\ Ordered(Rows', before')

\* A mild update keeps what a row holds.
LEMMA MildRow ==
    ASSUME NEW j, NEW v \in Job, NEW u \in Job, NEW hs, NEW cs, Mild(v, u), RowOK(j, v, hs, cs)
    PROVE  RowOK(j, u, hs, cs)
BY DEF Mild, RowOK, Unsubmitted, NoPending, None, Active, Job, Pending

\* A mild update neither makes a row nor removes one.
LEMMA MildStatus ==
    ASSUME NEW v, NEW u, Mild(v, u)
    PROVE  u.status = "none" <=> v.status = "none"
BY DEF Mild, Active

\* Saving a mild update of a row.
LEMMA MildSave ==
    ASSUME jobs \in [Jobs -> Job], Ordered(Rows, before),
           NEW j \in Rows, NEW v \in Job, Mild(jobs[j], v), Save(j, v)
    PROVE  MildStep
<1>1. jobs' \in [Jobs -> Job] /\ \A k \in Jobs : jobs'[k] = IF k = j THEN v ELSE jobs[k]
    BY DEF Save, Rows
<1>2. \A k \in Jobs : Mild(jobs[k], jobs'[k])
    BY <1>1 DEF Mild
<1>3. Rows' = Rows
    BY <1>1, <1>2, MildStatus DEF Rows
<1>4. Ordered(Rows, Behind({j}, before))
    BY BehindOrdered
<1> QED
    BY <1>1, <1>2, <1>3, <1>4 DEF MildStep, Save

\* Nothing written.
LEMMA MildStutter ==
    ASSUME jobs \in [Jobs -> Job], Ordered(Rows, before), UNCHANGED disk
    PROVE  MildStep
BY DEF MildStep, Mild, disk, Rows, Ordered

\* Ending an open job without a payment.
LEMMA StoppedMild ==
    ASSUME NEW v \in Job, v.status \in Active, Unsubmitted(v)
    PROVE  Stopped(v) \in Job /\ Mild(v, Stopped(v))
BY ConstantTypes DEF Stopped, Mild, Job, Statuses, Active

\* pause() is mild.
LEMMA PauseMild ==
    ASSUME jobs \in [Jobs -> Job], Ordered(Rows, before), NEW j \in Rows, Pause(j)
    PROVE  MildStep
<1>1. CASE jobs[j].status \in Active
    <2>1. Paused(jobs[j]) \in Job /\ Mild(jobs[j], Paused(jobs[j]))
        <3>1. jobs[j] \in Job
            BY DEF Rows
        <3>2. CASE jobs[j].stop /\ Unsubmitted(jobs[j])
            BY <1>1, <3>1, <3>2, StoppedMild DEF Paused
        <3>3. CASE ~(jobs[j].stop /\ Unsubmitted(jobs[j]))
            <4>1. Paused(jobs[j]) = [jobs[j] EXCEPT !.status = "paused"]
                BY <1>1, <3>3 DEF Paused
            <4> QED
                BY <1>1, <3>1, <4>1 DEF Mild, Job, Statuses, Active
        <3> QED
            BY <3>2, <3>3
    <2> QED
        BY <1>1, <2>1, MildSave DEF Pause
<1>2. CASE jobs[j].status \notin Active
    BY <1>2, MildStutter DEF Pause
<1> QED
    BY <1>1, <1>2

\* The runner's catch is mild.
LEMMA CaughtMild ==
    ASSUME jobs \in [Jobs -> Job], Ordered(Rows, before), NEW j \in Rows, Caught(j)
    PROVE  MildStep
<1>1. CASE jobs[j].status \notin Active
    BY <1>1, MildStutter DEF Caught
<1>2. CASE jobs[j].status \in Active /\ Unsubmitted(jobs[j]) /\ (jobs[j].stop \/ j \in expired)
    <2>1. Stopped(jobs[j]) \in Job /\ Mild(jobs[j], Stopped(jobs[j]))
        BY <1>2, StoppedMild DEF Rows
    <2> QED
        BY <1>2, <2>1, MildSave DEF Caught
<1>3. CASE jobs[j].status \in Active /\ ~(Unsubmitted(jobs[j]) /\ (jobs[j].stop \/ j \in expired))
    BY <1>3, PauseMild DEF Caught
<1> QED
    BY <1>1, <1>2, <1>3

-----------------------------------------------------------------------------
(* The rows and the runner.                                                *)

\* The facilitator settles headers and the runner signs new ones; none is taken back.
Grown ==
    /\ headers' \in Seq(Jobs) /\ Len(headers) <= Len(headers')
    /\ \A i \in 1 .. Len(headers) : headers'[i] = headers[i]
    /\ charged \subseteq charged' /\ charged' \subseteq 1 .. Len(headers')

\* What the runners keep in a step.
RunStep ==
    /\ run' \in Runner /\ lease' \in {None, Self, Dead}
    /\ run' = run \/ RunnerOK(run', Rows', headers', charged')

\* The headers stay.
LEMMA SameGrown ==
    ASSUME Types, UNCHANGED <<headers, charged>>
    PROVE  Grown
BY DEF Types, Grown

\* A row stays right while headers are signed and charged.
LEMMA RowGrown ==
    ASSUME Types, Grown, NEW j, NEW v \in Job, RowOK(j, v, headers, charged)
    PROVE  RowOK(j, v, headers', charged')
<1>1. Len(headers) \in Nat /\ Len(headers') \in Nat
    BY DEF Types, Grown
<1>2. \A h \in Nat : h \in charged => h \in 1 .. Len(headers)
    BY DEF Types
<1>3. v.pending.header \in Nat /\ v.pending.tx \in Nat
    BY DEF Job, Pending
<1> QED
    BY <1>1, <1>2, <1>3 DEF RowOK, Grown, None

\* So does a runner.
LEMMA RunnerGrown ==
    ASSUME Types, Grown, Rows \subseteq Rows', NEW r \in Runner, RunnerOK(r, Rows, headers, charged)
    PROVE  RunnerOK(r, Rows', headers', charged')
<1>1. Len(headers) \in Nat /\ Len(headers') \in Nat
    BY DEF Types, Grown
<1>2. r.job \in Job /\ r.job.pending.header \in Nat
    BY DEF Runner, Job, Pending
<1>3. r.stage = "inspect" => RowOK(r.id, r.job, headers', charged')
    BY <1>2, RowGrown DEF RunnerOK
<1> QED
    BY <1>1, <1>2, <1>3 DEF RunnerOK, Grown

\* A step keeps the invariant when each row, runner and round is untouched or right by itself.
LEMMA Framed ==
    ASSUME IInv, Grown, RunStep, jobs' \in [Jobs -> Job], Rows \subseteq Rows', Ordered(Rows', before'),
           \A k \in Jobs : jobs'[k] = jobs[k] \/ RowOK(k, jobs'[k], headers', charged'),
           results' \subseteq Round,
           \A r \in results' : r \in results \/ (r.tx \in charged' /\ headers'[r.tx] = r.job),
           asked' \in [Jobs -> Nat \cup {-1}],
           \A j \in Jobs : asked'[j] # -1 => jobs'[j].status = "none",
           day' \in Nat, epoch' \in Nat
    PROVE  IInv'
<1>1. Types'
    BY DEF Types, RunStep, Grown
<1>2. RowsOK'
    <2>1. ASSUME NEW k \in Jobs PROVE RowOK(k, jobs'[k], headers', charged')
        <3>1. jobs[k] \in Job /\ RowOK(k, jobs[k], headers, charged)
            BY DEF IInv, Types, RowsOK
        <3>2. RowOK(k, jobs[k], headers', charged')
            BY <3>1, RowGrown DEF IInv
        <3> QED
            BY <3>2
    <2> QED
        BY <2>1 DEF RowsOK
<1>3. AskedOK'
    BY DEF AskedOK
<1>4. RunnersOK'
    <2>1. run \in Runner /\ RunnerOK(run, Rows, headers, charged)
        BY DEF IInv, Types, RunnersOK
    <2>2. RunnerOK(run, Rows', headers', charged')
        BY <2>1, RunnerGrown DEF IInv
    <2> QED
        BY <2>2 DEF RunStep, RunnersOK
<1>5. RoundsPaid'
    <2>1. ASSUME NEW r \in results PROVE r.tx \in charged' /\ headers'[r.tx] = r.job
        <3>1. r.tx \in charged /\ headers[r.tx] = r.job /\ charged \subseteq 1 .. Len(headers)
            BY DEF IInv, RoundsPaid, Types
        <3> QED
            BY <3>1 DEF Grown
    <2> QED
        BY <2>1 DEF RoundsPaid
<1> QED
    BY <1>1, <1>2, <1>3, <1>4, <1>5 DEF IInv

\* A runner at rest knows nothing.
LEMMA RestOK ==
    ASSUME NEW k, NEW rows, NEW hs, NEW cs
    PROVE  RunnerOK(Rest(k), rows, hs, cs)
BY DEF RunnerOK, Rest

\* The end of a tick, and the start of a stage.
LEMMA EndStep ==
    ASSUME Types, End
    PROVE  RunStep
<1>1. run.key \in Keys
    BY DEF Types, Runner
<1>2. Rest(run.key) \in Runner
    BY <1>1, ConstantTypes
<1>3. run' \in Runner
    BY <1>2 DEF End, Types
<1>4. run' = Rest(run.key)
    BY DEF End, Types
<1>5. lease' \in {None, Self, Dead}
    BY DEF End, Types
<1> QED
    BY <1>3, <1>4, <1>5, RestOK DEF RunStep

LEMMA IdleStep ==
    ASSUME Types, UNCHANGED run, lease' \in {None, Self, Dead}
    PROVE  RunStep
BY DEF Types, RunStep

LEMMA AtStep ==
    ASSUME Types, NEW j \in Jobs, NEW job \in Job, NEW s \in Stages, At(j, job, s),
           lease' \in {None, Self, Dead},
           RunnerOK([stage |-> s, id |-> j, job |-> job, key |-> run.key], Rows', headers', charged')
    PROVE  RunStep
<1> DEFINE r == [stage |-> s, id |-> j, job |-> job, key |-> run.key]
<1>1. r \in Runner
    BY DEF Types, Runner
<1>2. run' = r
    BY DEF At
<1> HIDE DEF r
<1>3. run' \in Runner
    BY <1>1, <1>2
<1> QED
    BY <1>2, <1>3 DEF RunStep, r

LEMMA LeaseType ==
    ASSUME Types, TakeLease
    PROVE  lease' \in {None, Self, Dead}
BY DEF Types, TakeLease

-----------------------------------------------------------------------------
(* Most steps are quiet: the rows change mildly and nothing is signed,     *)
(* charged or recorded.                                                    *)

\* A runner keeps its copy, rests, or has just read a queued row.
Reads ==
    /\ UNCHANGED jobs
    /\ run'.stage = "inspect" /\ run'.id \in Rows /\ run'.job = jobs[run'.id]
    /\ jobs[run'.id].status = "queued" /\ Unsubmitted(jobs[run'.id])
Rested == run' = run \/ run'.stage = "idle"

\* A start request that read the chain has no row yet.
AskStep == asked' \in [Jobs -> Nat \cup {-1}] /\ \A j \in Jobs : asked'[j] # -1 => jobs[j].status = "none"

Quiet ==
    /\ MildStep /\ AskStep /\ UNCHANGED <<results, headers, charged>>
    /\ day' \in Nat /\ epoch' \in Nat
    /\ run' \in Runner /\ lease' \in {None, Self, Dead}
    /\ Rested \/ Reads

\* A quiet step keeps the invariant.
LEMMA QuietKeeps ==
    ASSUME IInv, Quiet
    PROVE  IInv'
<1>1. Grown
    BY SameGrown DEF IInv, Quiet
<1>2. ASSUME NEW k \in Jobs PROVE RowOK(k, jobs'[k], headers', charged')
    <2>1. jobs[k] \in Job /\ jobs'[k] \in Job /\ Mild(jobs[k], jobs'[k]) /\ RowOK(k, jobs[k], headers, charged)
        BY DEF IInv, Types, RowsOK, MildStep, Quiet
    <2> QED
        BY <2>1, MildRow DEF Quiet
<1>3. \A j \in Jobs : asked'[j] # -1 => jobs'[j].status = "none"
    BY MildStatus DEF MildStep, Quiet, AskStep
<1>4. Rows \subseteq Rows' /\ Ordered(Rows', before') /\ jobs' \in [Jobs -> Job]
    BY DEF MildStep, Quiet
<1>5. results' \subseteq Round /\ asked' \in [Jobs -> Nat \cup {-1}] /\ results' = results
    BY DEF IInv, Types, Quiet, AskStep
<1>6. RunStep
    <2>1. ASSUME run'.stage = "idle" PROVE RunnerOK(run', Rows', headers', charged')
        BY <2>1 DEF RunnerOK
    <2>2. ASSUME Reads PROVE RunnerOK(run', Rows', headers', charged')
        BY <1>2, <1>4, <2>2 DEF RunnerOK, Reads, Rows
    <2> QED
        BY <2>1, <2>2 DEF RunStep, Quiet, Rested
<1> QED
    BY <1>1, <1>2, <1>3, <1>4, <1>5, <1>6, Framed DEF Quiet

\* No request starts or ends in the steps of the runners.
LEMMA AskKept ==
    ASSUME IInv, UNCHANGED asked
    PROVE  AskStep
BY DEF IInv, Types, AskedOK, AskStep

\* A tick that ends after a mild update.
LEMMA EndQuiet ==
    ASSUME IInv, MildStep, End, UNCHANGED <<results, asked, world>>
    PROVE  Quiet
<1>1. run.key \in Keys
    BY DEF IInv, Types, Runner
<1>2. Rest(run.key) \in Runner /\ Rest(run.key).stage = "idle"
    BY <1>1, ConstantTypes
<1>3. run' \in Runner
    BY <1>2 DEF End, Types, IInv
<1>4. run' = Rest(run.key)
    BY DEF End, Types, IInv
<1>5. lease' \in {None, Self, Dead}
    BY DEF End, Types, IInv
<1> QED
    BY <1>2, <1>3, <1>4, <1>5, AskKept DEF Quiet, Rested, world, IInv, Types

\* A mild update outside the runners.
LEMMA RunQuiet ==
    ASSUME IInv, MildStep, AskStep, UNCHANGED <<results, run, lease, headers, charged>>, day' \in Nat, epoch' \in Nat
    PROVE  Quiet
BY DEF Quiet, Rested, IInv, Types

\* Runners read rows that exist.
LEMMA RunnerRow ==
    ASSUME IInv, run.stage # "idle"
    PROVE  run.id \in Rows /\ run.id \in Jobs
BY DEF IInv, RunnersOK, RunnerOK, Rows

LEMMA AskQuiet ==
    ASSUME IInv, NEW j \in Jobs, Ask(j)
    PROVE  Quiet
<1>1. MildStep
    BY MildStutter DEF IInv, Types, Ask
<1>2. AskStep
    BY DEF IInv, Types, AskedOK, AskStep, Ask
<1> QED
    BY <1>1, <1>2, RunQuiet DEF Ask, world, IInv, Types

LEMMA StopQuiet ==
    ASSUME IInv, NEW j \in Jobs, Stop(j)
    PROVE  Quiet
<1>1. jobs[j] \in Job /\ j \in Rows
    BY DEF IInv, Types, Stop, Rows, Active
<1>2. ASSUME NEW v, v = [jobs[j] EXCEPT !.stop = TRUE], jobs[j].status = "running", Save(j, v)
      PROVE  MildStep
    <2>1. v \in Job /\ Mild(jobs[j], v)
        BY <1>1, <1>2 DEF Mild, Job, Active
    <2> QED
        BY <1>1, <1>2, <2>1, MildSave DEF IInv, Types
<1>3. ASSUME NEW v, v = [jobs[j] EXCEPT !.stop = TRUE, !.status = "queued"], jobs[j].status \in Active, Save(j, v)
      PROVE  MildStep
    <2>1. v \in Job /\ Mild(jobs[j], v)
        BY <1>1, <1>3 DEF Mild, Job, Active, Statuses
    <2> QED
        BY <1>1, <1>3, <2>1, MildSave DEF IInv, Types
<1>4. ASSUME NEW v, v = [jobs[j] EXCEPT !.stop = TRUE, !.status = "stopped"], jobs[j].status \in Active, Unsubmitted(jobs[j]), Save(j, v)
      PROVE  MildStep
    <2>1. v \in Job /\ Mild(jobs[j], v)
        BY <1>1, <1>4 DEF Mild, Job, Active, Statuses
    <2> QED
        BY <1>1, <1>4, <2>1, MildSave DEF IInv, Types
<1>5. MildStep
    BY <1>2, <1>3, <1>4 DEF Stop
<1> QED
    BY <1>5, RunQuiet, AskKept DEF Stop, world, IInv, Types

LEMMA ResumeQuiet ==
    ASSUME IInv, NEW j \in Jobs, Resume(j)
    PROVE  Quiet
<1> DEFINE v == [jobs[j] EXCEPT !.status = IF @ = "paused" THEN "queued" ELSE @]
<1>1. jobs[j] \in Job /\ j \in Rows
    BY DEF IInv, Types, Resume, Rows, Active
<1>2. v \in Job /\ Mild(jobs[j], v)
    BY <1>1 DEF Resume, Mild, Job, Active, Statuses
<1>3. Save(j, v)
    BY DEF Resume
<1>4. MildStep
    BY <1>1, <1>2, <1>3, MildSave DEF IInv, Types
<1> QED
    BY <1>4, RunQuiet, AskKept DEF Resume, world, IInv, Types

\* What the sweep makes of the table.
LEMMA SweptMild ==
    ASSUME IInv
    PROVE  /\ Swept \in [Jobs -> Job] /\ \A k \in Jobs : Mild(jobs[k], Swept[k])
           /\ Expirable \subseteq Rows /\ Ordered(Rows, SweptOrder)
<1>1. ASSUME NEW k \in Jobs PROVE Swept[k] \in Job /\ Mild(jobs[k], Swept[k])
    <2>1. jobs[k] \in Job
        BY DEF IInv, Types
    <2>2. k \in Expirable => jobs[k].status \in Active /\ Unsubmitted(jobs[k])
        BY DEF Expirable, Active
    <2>3. Swept[k] = IF k \in Expirable THEN Stopped(jobs[k]) ELSE jobs[k]
        BY DEF Swept
    <2>4. Mild(jobs[k], jobs[k])
        BY DEF Mild
    <2> QED
        BY <2>1, <2>2, <2>3, <2>4, StoppedMild
<1>2. Swept \in [Jobs -> Job]
    BY <1>1 DEF Swept
<1>3. Expirable \subseteq Rows
    BY DEF Expirable, Rows
<1> QED
    BY <1>1, <1>2, <1>3, BehindOrdered DEF SweptOrder, IInv

LEMMA SweepQuiet ==
    ASSUME IInv, Sweep
    PROVE  Quiet
<1>1. jobs' = Swept /\ before' = SweptOrder
    BY DEF Sweep
<1>2. Rows' = Rows
    BY <1>1, SweptMild, MildStatus DEF Rows
<1>3. MildStep
    BY <1>1, <1>2, SweptMild DEF MildStep
<1> QED
    BY <1>3, RunQuiet, AskKept DEF Sweep, world, IInv, Types

\* Whatever fails after a row was taken ends the tick with a mild update.
LEMMA FailureQuiet ==
    ASSUME IInv, run.stage # "idle",
           Pause(run.id) \/ Caught(run.id) \/ UNCHANGED disk,
           End, UNCHANGED <<results, asked, world>>
    PROVE  Quiet
<1>1. MildStep
    BY RunnerRow, PauseMild, CaughtMild, MildStutter DEF IInv, Types
<1> QED
    BY <1>1, EndQuiet

LEMMA CrashQuiet ==
    ASSUME IInv, Crash
    PROVE  Quiet
<1>1. PICK k \in Keys : run' = Rest(k)
    BY DEF Crash
<1>2. Rest(k) \in Runner /\ Rest(k).stage = "idle"
    BY ConstantTypes
<1>3. run' \in Runner
    BY <1>1, <1>2 DEF IInv, Types
<1>4. lease' \in {None, Self, Dead}
    BY DEF Crash, IInv, Types
<1>5. MildStep
    BY MildStutter DEF IInv, Types, Crash
<1>6. AskStep
    BY DEF AskStep, Crash
<1> QED
    BY <1>1, <1>2, <1>3, <1>4, <1>5, <1>6 DEF Quiet, Rested, Crash, world, IInv, Types

\* Time, the chain and the lease.
LEMMA WorldQuiet ==
    ASSUME IInv, Lapse \/ Transfer \/ Midnight \/ (\E j \in Jobs : Expire(j)) \/ UNCHANGED vars
    PROVE  Quiet
<1>1. UNCHANGED <<disk, results, run, asked, headers, charged>>
    BY DEF Lapse, Transfer, Midnight, Expire, vars, disk, world
<1>2. lease' \in {None, Self, Dead}
    BY DEF Lapse, Transfer, Midnight, Expire, vars, IInv, Types
<1>3. day' \in Nat /\ epoch' \in Nat
    BY DEF Lapse, Transfer, Midnight, Expire, vars, world, IInv, Types
<1>4. MildStep
    BY <1>1, MildStutter DEF IInv, Types
<1> QED
    BY <1>1, <1>2, <1>3, <1>4, AskKept DEF Quiet, Rested, IInv, Types

-----------------------------------------------------------------------------
(* The steps that launch, sign, settle or record a round.                  *)

\* A job that already paid goes on with its payment, one row at a time.
LEMMA TickCases ==
    ASSUME IInv, Tick
    PROVE  \/ Quiet
           \/ \E j \in Rows : /\ jobs[j].status = "queued" /\ ~Unsubmitted(jobs[j])
                              /\ Launch(j, jobs[j]) /\ UNCHANGED <<results, asked, world>>
<1>1. PICK j \in Oldest(Runnable) :
          \/ /\ Unsubmitted(jobs[j]) /\ j \in expired
             /\ Save(j, Stopped(jobs[j])) /\ End
          \/ Pause(j) /\ End
          \/ /\ jobs[j].status = "queued"
             /\ \/ /\ Unsubmitted(jobs[j]) /\ Save(j, [jobs[j] EXCEPT !.status = "stopped"]) /\ End
                \/ /\ Unsubmitted(jobs[j]) /\ UNCHANGED disk /\ At(j, jobs[j], "inspect") /\ TakeLease
                \/ /\ ~Unsubmitted(jobs[j]) /\ Launch(j, jobs[j])
    BY Zenon DEF Tick
<1>2. jobs[j] \in Job /\ j \in Rows /\ jobs[j].status \in Active
    BY DEF Oldest, Runnable, IInv, Types, Rows, Active
<1>3. UNCHANGED <<results, asked, world>>
    BY DEF Tick
<1>4. CASE Unsubmitted(jobs[j]) /\ Save(j, Stopped(jobs[j])) /\ End
    BY <1>2, <1>3, <1>4, StoppedMild, MildSave, EndQuiet DEF IInv, Types
<1>5. CASE Pause(j) /\ End
    BY <1>2, <1>3, <1>5, PauseMild, EndQuiet DEF IInv, Types
<1>6. CASE Unsubmitted(jobs[j]) /\ Save(j, [jobs[j] EXCEPT !.status = "stopped"]) /\ End
    <2> DEFINE v == [jobs[j] EXCEPT !.status = "stopped"]
    <2>1. v \in Job /\ Mild(jobs[j], v)
        BY <1>2, <1>6 DEF Job, Statuses, Mild
    <2> QED
        BY <1>2, <1>3, <1>6, <2>1, MildSave, EndQuiet DEF IInv, Types
<1>7. CASE /\ jobs[j].status = "queued" /\ Unsubmitted(jobs[j])
           /\ UNCHANGED disk /\ At(j, jobs[j], "inspect") /\ TakeLease
    <2> DEFINE r == [stage |-> "inspect", id |-> j, job |-> jobs[j], key |-> run.key]
    <2>1. r \in Runner
        BY <1>2 DEF IInv, Types, Runner, Stages, Rows
    <2>2. run' \in Runner /\ run' = r
        BY <1>7, <2>1 DEF At, IInv, Types
    <2>3. UNCHANGED jobs /\ MildStep
        BY <1>7, MildStutter DEF IInv, Types, disk
    <2>4. Reads
        BY <1>2, <1>7, <2>2, <2>3 DEF Reads
    <2>5. lease' \in {None, Self, Dead}
        BY <1>7, LeaseType DEF IInv
    <2> HIDE DEF r
    <2> QED
        BY <1>3, <2>2, <2>3, <2>4, <2>5, AskKept DEF Quiet, Rested, world, IInv, Types
<1>8. CASE jobs[j].status = "queued" /\ ~Unsubmitted(jobs[j]) /\ Launch(j, jobs[j])
    BY <1>2, <1>3, <1>8
<1> QED
    BY <1>1, <1>4, <1>5, <1>6, <1>7, <1>8

\* The copy read before the await is dropped, ends the row, or launches it.
LEMMA InspectedCases ==
    ASSUME IInv, Inspected
    PROVE  \/ Quiet
           \/ Save(run.id, Stopped(run.job)) /\ End /\ UNCHANGED <<results, asked, world>>
           \/ ~jobs[run.id].stop /\ Launch(run.id, run.job) /\ UNCHANGED <<results, asked, world>>
<1>1. \/ Save(run.id, Stopped(run.job)) /\ End
      \/ UNCHANGED disk /\ End
      \/ ~jobs[run.id].stop /\ Launch(run.id, run.job)
    BY Zenon DEF Inspected
<1>2. UNCHANGED <<results, asked, world>> /\ run.stage # "idle"
    BY DEF Inspected
<1> QED
    BY <1>1, <1>2, FailureQuiet

\* A new admission is a round of its own: no settled and no pending one has its attempt today.
LEMMA AdmissionOK ==
    ASSUME IInv, NEW j \in Jobs
    PROVE  /\ Admission(j) \in Pending /\ Admission(j).drawn
           /\ Admission(j).header = None /\ Admission(j).tx = None
           /\ Admission(j).attempt # 0 => Admission(j).attempt \notin Taken(j) /\ Admission(j).day = day
<1> DEFINE free == (1 .. RankedAttempts) \ Taken(j)
           a == CHOOSE x \in free : \A b \in free : x <= b
<1>1. day \in Nat
    BY DEF IInv, Types
<1>2. CASE free = {}
    <2>1. Admission(j) = [NoPending EXCEPT !.drawn = TRUE, !.day = 0, !.attempt = 0]
        BY <1>2 DEF Admission
    <2> QED
        BY <2>1, ConstantTypes DEF Pending, NoPending
<1>3. CASE free # {}
    <2>1. Admission(j) = [NoPending EXCEPT !.drawn = TRUE, !.day = day, !.attempt = a]
        BY <1>3 DEF Admission
    <2>2. free \in SUBSET Nat
        BY BoundsAssumption
    <2>3. \E x \in free : \A b \in free : x <= b
        BY <1>3, <2>2, LeastNatural
    <2>4. a \in free /\ a \in Nat
        BY <2>2, <2>3
    <2>5. a \notin Taken(j)
        BY <2>4
    <2> HIDE DEF free, a
    <2> QED
        BY <1>1, <2>1, <2>4, <2>5, ConstantTypes DEF Pending, NoPending
<1> QED
    BY <1>2, <1>3

\* Saving a row that is right by itself, with a runner that is.
LEMMA SaveKeeps ==
    ASSUME IInv, Grown, NEW j \in Rows, NEW v \in Job, v.status # "none", Save(j, v), RowOK(j, v, headers', charged'),
           Rows' = Rows => RunStep, results' \subseteq Round,
           \A r \in results' : r \in results \/ (r.tx \in charged' /\ headers'[r.tx] = r.job),
           UNCHANGED <<asked, day, epoch>>
    PROVE  IInv'
<1>1. jobs' \in [Jobs -> Job] /\ \A k \in Jobs : jobs'[k] = IF k = j THEN v ELSE jobs[k]
    BY DEF Save, Rows, IInv, Types
<1>2. Rows' = Rows
    BY <1>1 DEF Rows
<1>3. Ordered(Rows', before')
    BY <1>2, BehindOrdered DEF Save, IInv
<1>4. \A k \in Jobs : asked'[k] # -1 => jobs'[k].status = "none"
    BY <1>1 DEF IInv, AskedOK, Rows
<1>5. asked' \in [Jobs -> Nat \cup {-1}] /\ day' \in Nat /\ epoch' \in Nat
    BY DEF IInv, Types
<1>6. \A k \in Jobs : jobs'[k] = jobs[k] \/ RowOK(k, jobs'[k], headers', charged')
    BY <1>1
<1> QED
    BY <1>1, <1>2, <1>3, <1>4, <1>5, <1>6, Framed

\* The row as it is launched.
Ready(j, job) == [job EXCEPT !.status = "running", !.pending = IF @.drawn THEN @ ELSE Admission(j)]

LEMMA ReadyOK ==
    ASSUME IInv, NEW j \in Jobs, NEW job \in Job, job.status = "queued", RowOK(j, job, headers, charged)
    PROVE  /\ Ready(j, job) \in Job /\ RowOK(j, Ready(j, job), headers, charged)
           /\ Ready(j, job).status = "running" /\ Ready(j, job).stop = job.stop /\ Ready(j, job).spent = job.spent
           /\ Ready(j, job).pending = IF job.pending.drawn THEN job.pending ELSE Admission(j)
           /\ Ready(j, job).pending.header = job.pending.header /\ Ready(j, job).pending.tx = job.pending.tx
<1>1. /\ Ready(j, job).status = "running" /\ Ready(j, job).stop = job.stop /\ Ready(j, job).spent = job.spent
      /\ Ready(j, job).pending = IF job.pending.drawn THEN job.pending ELSE Admission(j)
    BY DEF Ready, Job
<1>2. job.pending \in Pending
    BY DEF Job
<1>3. Ready(j, job) \in Job
    BY <1>2, AdmissionOK DEF Ready, Job, Statuses, Active
<1>4. Ready(j, job).pending.header = job.pending.header /\ Ready(j, job).pending.tx = job.pending.tx
    BY <1>1, AdmissionOK DEF RowOK, Unsubmitted
<1>5. Ready(j, job).pending.drawn
    BY <1>1, AdmissionOK, <1>2 DEF Pending
<1> QED
    BY <1>1, <1>3, <1>4, <1>5 DEF RowOK, Unsubmitted, Active

\* What Launch does: the row is saved, then the runner goes on.
LEMMA LaunchSteps ==
    ASSUME NEW j, NEW job, Launch(j, job)
    PROVE  /\ Save(j, Ready(j, job))
           /\ \/ At(j, Ready(j, job), "result") /\ TakeLease
              \/ Ready(j, job).pending.header = None /\ At(j, Ready(j, job), "sign") /\ TakeLease
              \/ Ready(j, job).pending.header # None /\ At(j, Ready(j, job), "submit") /\ TakeLease
BY Zenon DEF Launch, Ready

LEMMA LaunchKeeps ==
    ASSUME IInv, NEW j \in Rows, NEW job \in Job, job.status = "queued",
           RowOK(j, job, headers, charged), Launch(j, job), UNCHANGED <<results, asked, world>>
    PROVE  IInv'
<1> DEFINE v == Ready(j, job)
<1>0. j \in Jobs
    BY DEF Rows
<1>1. v \in Job /\ RowOK(j, v, headers, charged) /\ v.status = "running"
    BY <1>0, ReadyOK
<1>2. Grown /\ UNCHANGED <<headers, charged, day, epoch>>
    BY SameGrown DEF IInv, world
<1>3. ASSUME NEW s \in {"sign", "submit", "result"}, At(j, v, s), TakeLease, Rows' = Rows,
             s = "submit" => v.pending.header # None
      PROVE  RunStep
    <2> HIDE DEF v
    <2>1. RunnerOK([stage |-> s, id |-> j, job |-> v, key |-> run.key], Rows', headers', charged')
        BY <1>1, <1>2, <1>3 DEF RunnerOK, RowOK
    <2>2. lease' \in {None, Self, Dead}
        BY <1>3, LeaseType DEF IInv
    <2> QED
        BY <1>0, <1>1, <1>3, <2>1, <2>2, AtStep DEF Stages, IInv
<1>4. Rows' = Rows => RunStep
    BY <1>3, LaunchSteps, EndStep DEF IInv
<1>5. results' \subseteq Round /\ results' = results
    BY DEF IInv, Types
<1> HIDE DEF v
<1>6. Save(j, v)
    BY LaunchSteps DEF v
<1> QED
    BY <1>1, <1>2, <1>4, <1>5, <1>6, SaveKeeps

\* A row overwritten by a copy that ends it.
LEMMA OverwriteKeeps ==
    ASSUME IInv, run.stage = "inspect", Save(run.id, Stopped(run.job)), End,
           UNCHANGED <<results, asked, world>>
    PROVE  IInv'
<1> DEFINE j == run.id
           job == run.job
<1>1. job \in Job /\ j \in Rows /\ job.status = "queued" /\ Unsubmitted(job) /\ RowOK(j, job, headers, charged)
    BY DEF IInv, RunnersOK, RunnerOK, Types, Runner
<1> HIDE DEF j, job
<1>2. Stopped(job) \in Job /\ Mild(job, Stopped(job))
    BY <1>1, StoppedMild DEF Active
<1>3. RowOK(j, Stopped(job), headers, charged)
    BY <1>1, <1>2, MildRow
<1>4. Grown /\ UNCHANGED <<headers, charged, day, epoch>>
    BY SameGrown DEF IInv, world
<1>5. RunStep /\ results' = results /\ results' \subseteq Round
    BY EndStep DEF IInv, Types
<1>6. Stopped(job).status # "none" /\ Save(j, Stopped(job))
    BY <1>1 DEF Stopped, Job, j, job
<1> QED
    BY <1>1, <1>2, <1>3, <1>4, <1>5, <1>6, SaveKeeps

\* A start that is taken: a fresh row last, the open ones of earlier epochs retired.
Inserts(j) ==
    /\ jobs[j].status = "none" /\ jobs' \in [Jobs -> Job]
    /\ jobs'[j].status = "queued" /\ jobs'[j].pending = NoPending /\ jobs'[j].spent = 0
    /\ \A k \in Jobs \ {j} : Mild(jobs[k], jobs'[k])
    /\ Rows' = Rows \cup {j} /\ Ordered(Rows', before')
    /\ asked' \in [Jobs -> Nat \cup {-1}] /\ \A k \in Jobs : asked'[k] # -1 => jobs'[k].status = "none"
    /\ UNCHANGED <<results, lease, run, world>>

LEMMA InsertCases ==
    ASSUME IInv, NEW j \in Jobs, Insert(j)
    PROVE  Quiet \/ Inserts(j)
<1> DEFINE e == asked[j]
           open == Open(Swept)
           Retired(k) == [(IF Unsubmitted(Swept[k]) THEN Stopped(Swept[k]) ELSE Swept[k]) EXCEPT !.stop = TRUE]
           fresh == [NoJob EXCEPT !.status = "queued", !.epoch = e, !.key = run.key]
<1>1. /\ asked[j] # -1 /\ asked' = [asked EXCEPT ![j] = -1]
      /\ UNCHANGED <<results, lease, run, world>>
    BY DEF Insert
<1>2. jobs[j].status = "none" /\ jobs[j] \in Job /\ j \notin Rows
    BY <1>1 DEF IInv, AskedOK, Types, Rows
<1>3. /\ asked' \in [Jobs -> Nat \cup {-1}] /\ asked'[j] = -1
      /\ \A k \in Jobs \ {j} : asked'[k] = asked[k]
    BY <1>1 DEF IInv, Types
<1>4. CASE UNCHANGED disk
    <2>1. MildStep
        BY <1>4, MildStutter DEF IInv, Types
    <2>2. AskStep
        BY <1>3 DEF AskStep, IInv, AskedOK
    <2> QED
        BY <1>1, <2>1, <2>2, RunQuiet DEF world, IInv, Types
<1>5. CASE /\ jobs' = [k \in Jobs |-> IF k = j THEN fresh ELSE IF k \in open THEN Retired(k) ELSE Swept[k]]
           /\ before' = Behind(open, SweptOrder) \cup (Rows \X {j})
    <2>1. fresh \in Job /\ fresh.status = "queued" /\ fresh.pending = NoPending /\ fresh.spent = 0
        <3>1. e \in Nat /\ run.key \in Keys
            BY <1>1 DEF IInv, Types, Runner
        <3> QED
            BY <3>1, ConstantTypes DEF NoJob, Job, Statuses, Active
    <2>2. ASSUME NEW k \in open PROVE Retired(k) \in Job /\ Mild(jobs[k], Retired(k)) /\ k \in Rows
        <3>1. k \in Jobs /\ Swept[k].status \in Active /\ jobs[k] \in Job
            BY DEF Open, IInv, Types
        <3>2. Swept[k] = jobs[k]
            BY <3>1 DEF Swept, Stopped, Active, Job
        <3>3. CASE Unsubmitted(jobs[k])
            <4>1. Retired(k) = [Stopped(jobs[k]) EXCEPT !.stop = TRUE]
                BY <3>2, <3>3
            <4>2. Retired(k) \in Job /\ Retired(k).status = "stopped" /\ Retired(k).pending = NoPending
                  /\ Retired(k).spent = jobs[k].spent /\ Retired(k).stop
                BY <3>1, <4>1, ConstantTypes DEF Stopped, Job, Statuses
            <4> HIDE DEF Retired
            <4> QED
                BY <3>1, <3>2, <3>3, <4>2 DEF Mild, Rows, Active
        <3>4. CASE ~Unsubmitted(jobs[k])
            <4>1. Retired(k) = [jobs[k] EXCEPT !.stop = TRUE]
                BY <3>2, <3>4
            <4>2. Retired(k) \in Job /\ Retired(k).status = jobs[k].status /\ Retired(k).pending = jobs[k].pending
                  /\ Retired(k).spent = jobs[k].spent /\ Retired(k).stop
                BY <3>1, <4>1 DEF Job
            <4> HIDE DEF Retired
            <4> QED
                BY <3>1, <3>2, <4>2 DEF Mild, Rows, Active
        <3> QED
            BY <3>3, <3>4
    <2>3. \A k \in Jobs : Swept[k] \in Job /\ Mild(jobs[k], Swept[k])
        BY SweptMild
    <2> HIDE DEF fresh, Retired, open
    <2>4. jobs' \in [Jobs -> Job] /\ jobs'[j] = fresh
        BY <1>5, <2>1, <2>2, <2>3
    <2>5. \A k \in Jobs \ {j} : Mild(jobs[k], jobs'[k])
        BY <1>5, <2>2, <2>3
    <2>6. Rows' = Rows \cup {j}
        <3>1. \A k \in Jobs \ {j} : jobs'[k].status = "none" <=> jobs[k].status = "none"
            BY <2>5, MildStatus
        <3> QED
            BY <2>1, <2>4, <3>1 DEF Rows
    <2>7. Ordered(Rows, Behind(open, SweptOrder))
        <3>1. open \subseteq Rows
            BY <2>2
        <3> QED
            BY <3>1, SweptMild, BehindOrdered
    <2>8. Ordered(Rows \cup {j}, Behind(open, SweptOrder) \cup (Rows \X {j}))
        BY <1>2, <2>7, LastOrdered
    <2>9. \A k \in Jobs : asked'[k] # -1 => jobs'[k].status = "none"
        <3>1. ASSUME NEW k \in Jobs \ {j}, asked'[k] # -1 PROVE jobs'[k].status = "none"
            <4>1. jobs[k].status = "none"
                BY <1>3, <3>1 DEF IInv, AskedOK
            <4> QED
                BY <2>5, <4>1, MildStatus
        <3> QED
            BY <1>3, <3>1
    <2> QED
        BY <1>1, <1>2, <1>3, <1>5, <2>1, <2>4, <2>5, <2>6, <2>8, <2>9 DEF Inserts
<1> QED
    BY <1>4, <1>5, Zenon DEF Insert

LEMMA InsertKeeps ==
    ASSUME IInv, NEW j \in Jobs, Inserts(j)
    PROVE  IInv'
<1>1. Grown /\ UNCHANGED <<headers, charged, day, epoch>>
    BY SameGrown DEF IInv, world, Inserts
<1>2. ASSUME NEW k \in Jobs PROVE RowOK(k, jobs'[k], headers', charged')
    <2>1. CASE k = j
        BY <2>1, BoundsAssumption DEF Inserts, RowOK, NoPending, None, Unsubmitted, Active
    <2>2. CASE k # j
        <3>1. jobs[k] \in Job /\ jobs'[k] \in Job /\ Mild(jobs[k], jobs'[k]) /\ RowOK(k, jobs[k], headers, charged)
            BY <2>2 DEF IInv, Types, RowsOK, Inserts
        <3> QED
            BY <1>1, <3>1, MildRow
    <2> QED
        BY <2>1, <2>2
<1>3. RunStep
    BY IdleStep DEF IInv, Types, Inserts
<1>4. results' = results /\ results' \subseteq Round /\ day' \in Nat /\ epoch' \in Nat
    BY <1>1 DEF Inserts, IInv, Types
<1> QED
    BY <1>1, <1>2, <1>3, <1>4, Framed DEF Inserts

\* persist(header): signed, and on the row before it leaves.
Persists ==
    LET j == run.id IN
    /\ run.stage = "sign" /\ MayDispatch
    /\ headers' = Append(headers, j)
    /\ Save(j, [jobs[j] EXCEPT !.pending.header = Len(headers) + 1])
    /\ At(j, [run.job EXCEPT !.pending.header = Len(headers) + 1], "submit")
    /\ UNCHANGED lease
    /\ UNCHANGED <<results, asked, charged, day, epoch>>

LEMMA PersistCases ==
    ASSUME IInv, Persist
    PROVE  Quiet \/ Persists
<1>1. CASE MayDispatch
    BY <1>1 DEF Persist, Persists
<1>2. CASE ~MayDispatch
    <2>1. Caught(run.id) /\ End /\ run.stage # "idle" /\ UNCHANGED <<results, asked, world>>
        BY <1>2 DEF Persist, world
    <2> QED
        BY <2>1, FailureQuiet
<1> QED
    BY <1>1, <1>2

LEMMA PersistKeeps ==
    ASSUME IInv, Persists
    PROVE  IInv'
<1> DEFINE j == run.id
           n == Len(headers) + 1
           v == [jobs[j] EXCEPT !.pending.header = n]
           c == [run.job EXCEPT !.pending.header = n]
<1>1. run.stage = "sign" /\ MayDispatch /\ headers' = Append(headers, j) /\ Save(j, v) /\ At(j, c, "submit")
      /\ UNCHANGED <<lease, results, asked, charged, day, epoch>>
    BY DEF Persists
<1>2. j \in Rows /\ j \in Jobs
    BY <1>1, RunnerRow
<1>3. jobs[j] \in Job /\ run.job \in Job /\ RowOK(j, jobs[j], headers, charged)
    BY <1>2 DEF IInv, Types, Runner, RowsOK
<1>4. headers \in Seq(Jobs) /\ charged \subseteq 1 .. Len(headers) /\ n \in Nat /\ Len(headers) \in Nat
    BY DEF IInv, Types
<1>5. headers' \in Seq(Jobs) /\ Len(headers') = n /\ headers'[n] = j
      /\ \A i \in 1 .. Len(headers) : headers'[i] = headers[i]
    BY <1>1, <1>2, <1>4
<1>6. Grown
    BY <1>1, <1>4, <1>5 DEF Grown
<1>7. v \in Job /\ c \in Job /\ c.pending.header = n
      /\ v.status = "running" /\ v.spent = jobs[j].spent /\ v.pending.drawn = jobs[j].pending.drawn
      /\ v.pending.header = n /\ v.pending.tx = jobs[j].pending.tx
    BY <1>1, <1>3, <1>4 DEF Job, Pending, MayDispatch
<1> HIDE DEF n, v, c, j
<1>8. jobs[j].status = "running"
    BY <1>1 DEF MayDispatch, j
<1>9. RowOK(j, v, headers', charged')
    <2>1. RowOK(j, jobs[j], headers', charged')
        BY <1>3, <1>6, RowGrown DEF IInv
    <2> QED
        BY <1>4, <1>5, <1>7, <1>8, <2>1 DEF RowOK, Unsubmitted, Active, n
<1>10. RunnerOK([stage |-> "submit", id |-> j, job |-> c, key |-> run.key], Rows, headers', charged')
    BY <1>2, <1>4, <1>5, <1>7 DEF RunnerOK, n
<1>11. lease' \in {None, Self, Dead}
    BY <1>1 DEF IInv, Types
<1>12. Rows' = Rows => RunStep
    BY <1>1, <1>2, <1>7, <1>10, <1>11, AtStep DEF IInv, Stages
<1>13. results' = results /\ results' \subseteq Round /\ v.status # "none"
    BY <1>1, <1>7 DEF IInv, Types
<1> QED
    BY <1>1, <1>2, <1>6, <1>7, <1>9, <1>12, <1>13, SaveKeeps

\* The receipt of a charged header is stored on the row.
Receives ==
    LET j == run.id
        h == run.job.pending.header IN
    /\ run.stage = "submit" /\ h \in charged /\ jobs[j].pending.drawn
    /\ Save(j, [jobs[j] EXCEPT !.pending.tx = h])
    /\ At(j, [run.job EXCEPT !.pending.tx = h], "result")
    /\ UNCHANGED <<lease, results, asked, world>>

LEMMA SubmitCases ==
    ASSUME IInv, SubmitOk
    PROVE  Quiet \/ Receives
<1>1. CASE jobs[run.id].pending.drawn
    BY <1>1 DEF SubmitOk, Receives
<1>2. CASE ~jobs[run.id].pending.drawn
    <2>1. Caught(run.id) /\ End /\ run.stage # "idle" /\ UNCHANGED <<results, asked, world>>
        BY <1>2 DEF SubmitOk
    <2> QED
        BY <2>1, FailureQuiet
<1> QED
    BY <1>1, <1>2

LEMMA ReceiveKeeps ==
    ASSUME IInv, Receives
    PROVE  IInv'
<1> DEFINE j == run.id
           h == run.job.pending.header
           v == [jobs[j] EXCEPT !.pending.tx = h]
           c == [run.job EXCEPT !.pending.tx = h]
<1>1. run.stage = "submit" /\ h \in charged /\ jobs[j].pending.drawn /\ Save(j, v) /\ At(j, c, "result")
      /\ UNCHANGED <<lease, results, asked, headers, charged, day, epoch>>
    BY DEF Receives, world
<1>2. j \in Rows /\ j \in Jobs
    BY <1>1, RunnerRow
<1>3. jobs[j] \in Job /\ run.job \in Job /\ RowOK(j, jobs[j], headers, charged) /\ headers[h] = j /\ h \in Nat
    BY <1>1, <1>2 DEF IInv, Types, Runner, RowsOK, RunnersOK, RunnerOK, Job, Pending
<1>4. Grown
    BY <1>1, SameGrown DEF IInv
<1>5. v \in Job /\ c \in Job
      /\ v.status = jobs[j].status /\ v.spent = jobs[j].spent /\ v.pending.drawn = jobs[j].pending.drawn
      /\ v.pending.header = jobs[j].pending.header /\ v.pending.tx = h
    BY <1>3 DEF Job, Pending
<1> HIDE DEF v, c, j, h
<1>6. jobs[j].status # "none"
    BY <1>2 DEF Rows
<1>7. RowOK(j, v, headers', charged')
    BY <1>1, <1>3, <1>5, <1>6 DEF RowOK, Unsubmitted
<1>8. RunnerOK([stage |-> "result", id |-> j, job |-> c, key |-> run.key], Rows, headers', charged')
    BY <1>2 DEF RunnerOK
<1>9. lease' \in {None, Self, Dead} /\ Types
    BY <1>1 DEF IInv, Types
<1>10. Rows' = Rows => RunStep
    BY <1>1, <1>2, <1>5, <1>8, <1>9, AtStep DEF Stages
<1>11. results' = results /\ results' \subseteq Round /\ v.status # "none"
    BY <1>1, <1>5, <1>6 DEF IInv, Types
<1> QED
    BY <1>1, <1>2, <1>4, <1>5, <1>7, <1>10, <1>11, SaveKeeps

\* store.result: the round and the row in one transaction.
Entry(j) == [job |-> j, round |-> jobs[j].spent + 1, tx |-> jobs[j].pending.tx,
             day |-> jobs[j].pending.day, attempt |-> jobs[j].pending.attempt]
Played(j) == [jobs[j] EXCEPT !.spent = jobs[j].spent + 1, !.pending = NoPending,
                             !.status = AfterRound(jobs[j], jobs[j].spent + 1)]
Records ==
    LET j == run.id IN
    /\ run.stage = "result" /\ ~Clash(j) /\ jobs[j].pending.tx # None
    /\ results' = results \cup {Entry(j)} /\ Save(j, Played(j)) /\ End
    /\ UNCHANGED <<asked, world>>

LEMMA ResultCases ==
    ASSUME IInv, Result
    PROVE  Quiet \/ Records
<1> DEFINE j == run.id
<1>1. CASE Clash(j) \/ jobs[j].pending.tx = None
    <2>1. Caught(j) /\ End /\ run.stage # "idle" /\ UNCHANGED <<results, asked, world>>
        BY <1>1 DEF Result
    <2> QED
        BY <2>1, FailureQuiet
<1>2. CASE ~(Clash(j) \/ jobs[j].pending.tx = None)
    BY <1>2 DEF Result, Records, Entry, Played
<1> QED
    BY <1>1, <1>2

\* The row after its round.
LEMMA PlayedOK ==
    ASSUME IInv, NEW j \in Rows, jobs[j].pending.tx # None
    PROVE  /\ Played(j) \in Job /\ RowOK(j, Played(j), headers, charged) /\ Entry(j) \in Round
           /\ Played(j).status \in {"stopped", "complete", "queued"} /\ (jobs[j].stop => Played(j).status = "stopped")
           /\ Played(j).pending = NoPending /\ Played(j).spent = jobs[j].spent + 1
           /\ jobs[j].pending.drawn
<1>1. j \in Jobs /\ jobs[j] \in Job /\ RowOK(j, jobs[j], headers, charged)
    BY DEF Rows, IInv, Types, RowsOK
<1>2. jobs[j].pending.drawn /\ jobs[j].spent < Admissions /\ jobs[j].spent \in Nat
    BY <1>1 DEF RowOK, Unsubmitted, Job
<1>3. AfterRound(jobs[j], jobs[j].spent + 1) \in {"stopped", "complete", "queued"}
      /\ (AfterRound(jobs[j], jobs[j].spent + 1) = "queued" => jobs[j].spent + 1 < Admissions)
      /\ (jobs[j].stop => AfterRound(jobs[j], jobs[j].spent + 1) = "stopped")
    BY <1>2, BoundsAssumption DEF AfterRound
<1>4. /\ Played(j).status = AfterRound(jobs[j], jobs[j].spent + 1)
      /\ Played(j).pending = NoPending /\ Played(j).spent = jobs[j].spent + 1
    BY <1>1 DEF Played, Job
<1>5. Played(j) \in Job
    <2>1. PICK s \in {"stopped", "complete", "queued"} : s = AfterRound(jobs[j], jobs[j].spent + 1)
        BY <1>3
    <2>2. Played(j) = [jobs[j] EXCEPT !.spent = jobs[j].spent + 1, !.pending = NoPending, !.status = s]
        BY <2>1 DEF Played
    <2>3. s \in Statuses /\ jobs[j].spent + 1 \in Nat
        BY <1>2 DEF Statuses, Active
    <2> QED
        BY <1>1, <2>2, <2>3, ConstantTypes DEF Job
<1>6. Entry(j) \in Round
    BY <1>1, <1>2 DEF Entry, Round, Job, Pending
<1>7. RowOK(j, Played(j), headers, charged)
    BY <1>2, <1>3, <1>4, BoundsAssumption DEF RowOK, NoPending, None, Unsubmitted, Active
<1> QED
    BY <1>2, <1>3, <1>4, <1>5, <1>6, <1>7

LEMMA RecordKeeps ==
    ASSUME IInv, Records
    PROVE  IInv'
<1> DEFINE j == run.id
<1>1. /\ run.stage = "result" /\ jobs[j].pending.tx # None /\ results' = results \cup {Entry(j)}
      /\ Save(j, Played(j)) /\ End /\ UNCHANGED <<asked, headers, charged, day, epoch>>
    BY DEF Records, world
<1>2. j \in Rows /\ j \in Jobs
    BY <1>1, RunnerRow
<1> HIDE DEF j
<1>3. Played(j) \in Job /\ RowOK(j, Played(j), headers, charged) /\ Entry(j) \in Round
      /\ Played(j).status # "none"
    BY <1>1, <1>2, PlayedOK
<1>4. Grown
    BY <1>1, SameGrown DEF IInv
<1>5. RunStep /\ results' \subseteq Round
    BY <1>1, <1>3, EndStep DEF IInv, Types
<1>6. Entry(j).tx \in charged' /\ headers'[Entry(j).tx] = Entry(j).job
    BY <1>1, <1>2 DEF IInv, RowsOK, RowOK, Entry
<1>7. \A r \in results' : r \in results \/ (r.tx \in charged' /\ headers'[r.tx] = r.job)
    BY <1>1, <1>6
<1> QED
    BY <1>1, <1>2, <1>3, <1>4, <1>5, <1>7, SaveKeeps

LEMMA ChargeKeeps ==
    ASSUME IInv, NEW h \in 1 .. MaxHeaders, Charge(h)
    PROVE  IInv'
<1>1. UNCHANGED <<jobs, before, results, lease, run, asked, headers, day, epoch>> /\ charged' = charged \cup {h}
      /\ h \in 1 .. Len(headers)
    BY DEF Charge, disk
<1>2. Grown
    BY <1>1 DEF Grown, IInv, Types
<1>3. RunStep
    BY <1>1, IdleStep DEF IInv, Types
<1>4. Rows' = Rows /\ Ordered(Rows', before') /\ jobs' \in [Jobs -> Job]
    BY <1>1 DEF Rows, IInv, Types
<1> QED
    BY <1>1, <1>2, <1>3, <1>4, Framed DEF IInv, Types, AskedOK

-----------------------------------------------------------------------------
(* Every step is one of these, so the invariant holds.                     *)

\* A row launched, from the row itself or from a copy read before an await.
Launches(j, job) ==
    /\ Launch(j, job) /\ UNCHANGED <<results, asked, world>>
    /\ \/ run.stage = "idle" /\ job = jobs[j] /\ ~Unsubmitted(jobs[j])
       \/ run.stage = "inspect" /\ job = run.job /\ j = run.id /\ ~jobs[j].stop
Overwrites ==
    /\ run.stage = "inspect" /\ Save(run.id, Stopped(run.job)) /\ End
    /\ UNCHANGED <<results, asked, world>>

Loud ==
    \/ \E j \in Rows : \E job \in Job :
           job.status = "queued" /\ RowOK(j, job, headers, charged) /\ Launches(j, job)
    \/ Overwrites \/ Persists \/ Receives \/ Records
    \/ \E j \in Jobs : Inserts(j)
    \/ \E h \in 1 .. MaxHeaders : Charge(h)

\* The steps of the runners.
LEMMA WorkSteps ==
    ASSUME IInv, Work
    PROVE  Quiet \/ Loud
<1>1. CASE Sweep
    BY <1>1, SweepQuiet
<1>2. CASE Tick
    <2>1. SUFFICES ASSUME ~Quiet PROVE Loud
        OBVIOUS
    <2>2. PICK j \in Rows : /\ jobs[j].status = "queued" /\ ~Unsubmitted(jobs[j])
                            /\ Launch(j, jobs[j]) /\ UNCHANGED <<results, asked, world>>
        BY <1>2, <2>1, TickCases
    <2>3. jobs[j] \in Job /\ RowOK(j, jobs[j], headers, charged)
        BY DEF Rows, IInv, Types, RowsOK
    <2>4. Launches(j, jobs[j])
        BY <1>2, <2>2 DEF Launches, Tick
    <2> QED
        BY <2>2, <2>3, <2>4 DEF Loud
<1>3. CASE Inspected
    <2>1. run.stage = "inspect"
        BY <1>3 DEF Inspected
    <2>2. run.id \in Rows /\ run.job \in Job /\ run.job.status = "queued"
          /\ RowOK(run.id, run.job, headers, charged)
        BY <2>1 DEF IInv, RunnersOK, RunnerOK, Types, Runner
    <2>3. CASE Save(run.id, Stopped(run.job)) /\ End /\ UNCHANGED <<results, asked, world>>
        BY <2>1, <2>3 DEF Loud, Overwrites
    <2>4. CASE ~jobs[run.id].stop /\ Launch(run.id, run.job) /\ UNCHANGED <<results, asked, world>>
        <3>1. Launches(run.id, run.job)
            BY <2>1, <2>4 DEF Launches
        <3> QED
            BY <2>2, <3>1 DEF Loud
    <2> QED
        BY <1>3, <2>3, <2>4, InspectedCases
<1>4. CASE InspectFails
    BY <1>4, FailureQuiet DEF InspectFails
<1>5. CASE Persist
    BY <1>5, PersistCases DEF Loud
<1>6. CASE SignFails
    BY <1>6, FailureQuiet DEF SignFails
<1>7. CASE SubmitOk
    BY <1>7, SubmitCases DEF Loud
<1>8. CASE SubmitFails
    BY <1>8, FailureQuiet DEF SubmitFails
<1>9. CASE Result
    BY <1>9, ResultCases DEF Loud
<1>10. CASE SimulationFails
    BY <1>10, FailureQuiet DEF SimulationFails
<1> QED
    BY <1>1, <1>2, <1>3, <1>4, <1>5, <1>6, <1>7, <1>8, <1>9, <1>10 DEF Work

LEMMA NextSteps ==
    ASSUME IInv, [Next]_vars
    PROVE  Quiet \/ Loud
<1>1. ASSUME Work \/ Crash PROVE Quiet \/ Loud
    BY <1>1, WorkSteps, CrashQuiet
<1>2. ASSUME NEW j \in Jobs, Owner(j) PROVE Quiet \/ Loud
    <2>1. CASE Ask(j)
        BY <2>1, AskQuiet
    <2>2. CASE Stop(j)
        BY <2>2, StopQuiet
    <2>3. CASE Insert(j)
        BY <2>3, InsertCases DEF Loud
    <2>4. CASE Resume(j)
        BY <2>4, ResumeQuiet
    <2> QED
        BY <1>2, <2>1, <2>2, <2>3, <2>4 DEF Owner
<1>3. ASSUME NEW h \in 1 .. MaxHeaders, Charge(h) PROVE Loud
    BY <1>3 DEF Loud
<1> QED
    BY <1>1, <1>2, <1>3, WorldQuiet DEF Next

LEMMA InitInv == Init => IInv
<1> SUFFICES ASSUME Init PROVE IInv
    OBVIOUS
<1>1. run = Rest(FirstKey)
    BY DEF Init
<1>2. Types
    BY ConstantTypes DEF Init, Types
<1>3. RowsOK
    BY BoundsAssumption DEF Init, RowsOK, RowOK, NoJob, NoPending, None, Unsubmitted, Active
<1>4. RunnersOK
    BY <1>1, RestOK DEF RunnersOK
<1>5. Rows = {} /\ before = {}
    BY DEF Init, Rows, NoJob
<1>6. Ordered(Rows, before)
    BY <1>5 DEF Ordered
<1> QED
    BY <1>2, <1>3, <1>4, <1>6 DEF Init, IInv, AskedOK, NoJob, RoundsPaid

LEMMA NextInv == IInv /\ [Next]_vars => IInv'
<1> SUFFICES ASSUME IInv, [Next]_vars PROVE IInv'
    OBVIOUS
<1>1. CASE Quiet
    BY <1>1, QuietKeeps
<1>2. CASE Loud
    <2>1. ASSUME NEW j \in Rows, NEW job \in Job, job.status = "queued",
                 RowOK(j, job, headers, charged), Launches(j, job)
          PROVE  IInv'
        BY <2>1, LaunchKeeps DEF Launches
    <2>2. ASSUME Overwrites \/ Persists \/ Receives \/ Records PROVE IInv'
        BY <2>2, OverwriteKeeps, PersistKeeps, ReceiveKeeps, RecordKeeps DEF Overwrites
    <2> QED
        BY <1>2, <2>1, <2>2, InsertKeeps, ChargeKeeps DEF Loud
<1> QED
    BY <1>1, <1>2, NextSteps

\* The store keeps its types, the rows stay totally ordered by their last update, and every
\* recorded round was paid by a header of its own job (store.result, ledger), whatever
\* crashes.
THEOREM RowsTyped == Spec => [](TypeOK /\ RoundsPaid)
<1>1. IInv => TypeOK /\ RoundsPaid
    <2> SUFFICES ASSUME IInv PROVE TypeOK
        BY DEF IInv
    <2>1. ASSUME NEW j \in Jobs
          PROVE jobs[j].status \in Active \cup {"none", "stopped", "complete"} /\ jobs[j].spent \in 0 .. Admissions
        <3>1. jobs[j] \in Job /\ jobs[j].spent <= Admissions
            BY DEF IInv, Types, RowsOK, RowOK
        <3> QED
            BY <3>1, BoundsAssumption DEF Job, Statuses
    <2>2. run.stage \in {"idle", "inspect", "sign", "submit", "result"}
        BY DEF IInv, Types, Runner, Stages
    <2> QED
        BY <2>1, <2>2 DEF TypeOK, IInv, Types
<1> QED
    BY <1>1, InitInv, NextInv, PTL DEF Spec

-----------------------------------------------------------------------------
(* Stopping.                                                               *)

\* What a step may do to a row that was told to stop.
Heeds(old, new) ==
    old.stop => /\ new.stop \/ new.status = "stopped"
                /\ new.pending.header \in {old.pending.header, None}

LEMMA MildHeeds ==
    ASSUME NEW v, NEW u, Mild(v, u)
    PROVE  Heeds(v, u)
BY DEF Mild, Heeds, NoPending

\* A save heeds the stop when the row it writes does.
LEMMA SaveHeeds ==
    ASSUME IInv, NEW j \in Jobs, NEW v, Save(j, v), Heeds(jobs[j], v)
    PROVE  \A k \in Jobs : Heeds(jobs[k], jobs'[k])
BY DEF Save, IInv, Types, Heeds

LEMMA StopStep ==
    ASSUME IInv, [Next]_vars
    PROVE  \A k \in Jobs : Heeds(jobs[k], jobs'[k])
<1>1. CASE Quiet
    BY <1>1, MildHeeds DEF Quiet, MildStep
<1>2. ASSUME NEW j \in Rows, NEW job \in Job, job.status = "queued",
             RowOK(j, job, headers, charged), Launches(j, job)
      PROVE  \A k \in Jobs : Heeds(jobs[k], jobs'[k])
    <2>1. j \in Jobs /\ Save(j, Ready(j, job))
        BY <1>2, LaunchSteps DEF Rows, Launches
    <2>2. Ready(j, job).stop = job.stop /\ Ready(j, job).pending.header = job.pending.header
        BY <1>2, <2>1, ReadyOK
    <2>3. Heeds(jobs[j], Ready(j, job))
        BY <1>2, <2>2 DEF Heeds, Launches
    <2> QED
        BY <2>1, <2>3, SaveHeeds
<1>3. ASSUME Overwrites PROVE \A k \in Jobs : Heeds(jobs[k], jobs'[k])
    <2>1. run.id \in Jobs /\ run.job \in Job
        BY <1>3, RunnerRow DEF Overwrites, IInv, Types, Runner
    <2>2. Heeds(jobs[run.id], Stopped(run.job))
        BY <2>1 DEF Heeds, Stopped, NoPending, Job
    <2> QED
        BY <1>3, <2>1, <2>2, SaveHeeds DEF Overwrites
<1>4. ASSUME Persists PROVE \A k \in Jobs : Heeds(jobs[k], jobs'[k])
    <2>1. run.id \in Jobs /\ ~jobs[run.id].stop
        BY <1>4, RunnerRow DEF Persists, MayDispatch
    <2> QED
        BY <1>4, <2>1, SaveHeeds DEF Persists, Heeds
<1>5. ASSUME Receives PROVE \A k \in Jobs : Heeds(jobs[k], jobs'[k])
    <2> DEFINE j == run.id
               v == [jobs[j] EXCEPT !.pending.tx = run.job.pending.header]
    <2>1. j \in Jobs /\ jobs[j] \in Job
        BY <1>5, RunnerRow DEF Receives, IInv, Types
    <2>2. v.stop = jobs[j].stop /\ v.pending.header = jobs[j].pending.header
        BY <2>1 DEF Job, Pending
    <2>3. Save(j, v)
        BY <1>5 DEF Receives
    <2> HIDE DEF j, v
    <2> QED
        BY <2>1, <2>2, <2>3, SaveHeeds DEF Heeds
<1>6. ASSUME Records PROVE \A k \in Jobs : Heeds(jobs[k], jobs'[k])
    <2> DEFINE j == run.id
    <2>1. j \in Rows /\ j \in Jobs /\ jobs[j].pending.tx # None /\ Save(j, Played(j))
        BY <1>6, RunnerRow DEF Records
    <2>2. Heeds(jobs[j], Played(j))
        BY <2>1, PlayedOK DEF Heeds, NoPending
    <2> QED
        BY <2>1, <2>2, SaveHeeds
<1>7. ASSUME NEW j \in Jobs, Inserts(j) PROVE \A k \in Jobs : Heeds(jobs[k], jobs'[k])
    <2>1. ~jobs[j].stop
        BY <1>7 DEF Inserts, IInv, RowsOK, RowOK, NoJob
    <2>2. \A k \in Jobs \ {j} : Heeds(jobs[k], jobs'[k])
        BY <1>7, MildHeeds DEF Inserts
    <2>3. Heeds(jobs[j], jobs'[j])
        BY <2>1 DEF Heeds
    <2> QED
        BY <2>2, <2>3
<1>8. ASSUME NEW h \in 1 .. MaxHeaders, Charge(h) PROVE \A k \in Jobs : Heeds(jobs[k], jobs'[k])
    BY <1>8 DEF Charge, disk, Heeds
<1> QED
    BY <1>1, <1>2, <1>3, <1>4, <1>5, <1>6, <1>7, <1>8, NextSteps DEF Loud

\* Once its owner stopped a job, no step signs a header for it, and it stays told to stop
\* until it has ended (control, persist): the copy a runner read before the stop is dropped.
THEOREM StopAlwaysHeld == Spec => StopHeld
<1>1. IInv /\ [Next]_vars => [\A j \in Jobs : jobs[j].stop =>
                 /\ jobs'[j].stop \/ jobs'[j].status = "stopped"
                 /\ jobs'[j].pending.header \in {jobs[j].pending.header, None}]_vars
    BY StopStep DEF Heeds
<1> QED
    BY <1>1, InitInv, NextInv, PTL DEF Spec, StopHeld

-----------------------------------------------------------------------------
(* Rows that draw no round and lose no payment.                            *)

\* What every update does to a row but the four that draw, sign, settle or record a round.
Gentle(old, new) ==
    /\ new.spent = old.spent
    /\ new.pending = old.pending \/ (Unsubmitted(old) /\ new.pending = NoPending)
    /\ new.status \in Active /\ new.pending.drawn => old.status \in Active /\ new.pending = old.pending
    /\ ~Unsubmitted(old) /\ old.status \in Active => new.status \in Active

LEMMA MildGentle ==
    ASSUME NEW v, NEW u, Mild(v, u)
    PROVE  Gentle(v, u)
BY DEF Mild, Gentle, NoPending, Active

\* An attempt stays exclusive when no round and no open job has newly taken it.
LEMMA ExclusiveKept ==
    ASSUME NEW j, NEW p, Exclusive(j, p, jobs, results),
           \A r \in results' : r \in results \/ ~(r.day = p.day /\ r.attempt = p.attempt),
           \A k \in Open(jobs') \ {j} : jobs'[k].pending.drawn =>
               \/ k \in Open(jobs) /\ jobs[k].pending.drawn /\ jobs'[k].pending.day = jobs[k].pending.day
                  /\ jobs'[k].pending.attempt = jobs[k].pending.attempt
               \/ ~(jobs'[k].pending.day = p.day /\ jobs'[k].pending.attempt = p.attempt)
    PROVE  Exclusive(j, p, jobs', results')
BY DEF Exclusive

\* A gentle step of the rows keeps the payments, the ledger and the attempts.
LEMMA GentleKeeps ==
    ASSUME IInv, LInv, \A k \in Jobs : Gentle(jobs[k], jobs'[k]), UNCHANGED <<results, headers>>
    PROVE  /\ PaymentsOK' /\ LedgerOK' /\ AttemptsOK' /\ HeaderKept'
           /\ \A j, p : Exclusive(j, p, jobs, results) => Exclusive(j, p, jobs', results')
           /\ \A k \in Jobs : Unsubmitted(jobs[k]) => Unsubmitted(jobs'[k])
           /\ \A k \in Jobs : ~Unsubmitted(jobs[k]) => jobs'[k].pending = jobs[k].pending
<1>1. \A k \in Jobs : Unsubmitted(jobs[k]) => Unsubmitted(jobs'[k])
    BY DEF Gentle, Unsubmitted, NoPending
<1>2. \A k \in Jobs : ~Unsubmitted(jobs[k]) => jobs'[k].pending = jobs[k].pending
    BY DEF Gentle
<1>3. PaymentsOK'
    <2>1. ASSUME NEW k \in Jobs PROVE PaymentOK(jobs'[k])
        <3>1. PaymentOK(jobs[k]) /\ Gentle(jobs[k], jobs'[k])
            BY DEF LInv, PaymentsOK
        <3> QED
            BY <3>1 DEF PaymentOK, Gentle, Unsubmitted, NoPending
    <2> QED
        BY <2>1 DEF PaymentsOK
<1>4. \A h \in 1 .. Len(headers) : h # None
    BY DEF None, IInv, Types
<1>5. LedgerOK'
    <2>1. ASSUME NEW r \in results PROVE r.round <= jobs'[r.job].spent /\ r.tx # jobs'[r.job].pending.header
        <3>1. r.job \in Jobs /\ r.tx \in 1 .. Len(headers)
            BY DEF IInv, Types, Round, RoundsPaid
        <3>2. r.round <= jobs[r.job].spent /\ r.tx # jobs[r.job].pending.header /\ Gentle(jobs[r.job], jobs'[r.job])
            BY <3>1 DEF LInv, LedgerOK
        <3> QED
            BY <1>4, <3>1, <3>2 DEF Gentle, NoPending
    <2> QED
        BY <2>1 DEF LedgerOK
<1>6. \A k \in Open(jobs') : jobs'[k].pending.drawn => k \in Open(jobs) /\ jobs'[k].pending = jobs[k].pending
    BY DEF Open, Gentle
<1>7. ASSUME NEW j, NEW p, Exclusive(j, p, jobs, results) PROVE Exclusive(j, p, jobs', results')
    <2>1. \A k \in Open(jobs') \ {j} : jobs'[k].pending.drawn =>
               k \in Open(jobs) /\ jobs[k].pending.drawn /\ jobs'[k].pending.day = jobs[k].pending.day
               /\ jobs'[k].pending.attempt = jobs[k].pending.attempt
        BY <1>6
    <2> QED
        BY <1>7, <2>1, ExclusiveKept
<1>8. AttemptsOK'
    <2>1. ASSUME NEW j \in Open(jobs') PROVE Exclusive(j, jobs'[j].pending, jobs', results')
        <3>1. CASE jobs'[j].pending.drawn
            <4>1. Exclusive(j, jobs'[j].pending, jobs, results)
                BY <1>6, <3>1 DEF LInv, AttemptsOK
            <4> QED
                BY <1>7, <4>1
        <3>2. CASE ~jobs'[j].pending.drawn
            BY <3>2 DEF Exclusive
        <3> QED
            BY <3>1, <3>2
    <2> QED
        BY <2>1 DEF AttemptsOK
<1>9. HeaderKept'
    <2>1. ASSUME NEW h \in 1 .. Len(headers), ~ \E r \in results : r.tx = h
          PROVE  jobs'[headers[h]].pending.header = h
        <3>1. jobs[headers[h]].pending.header = h /\ headers[h] \in Jobs
            BY <2>1 DEF LInv, HeaderKept, IInv, Types
        <3>2. ~Unsubmitted(jobs[headers[h]])
            BY <1>4, <3>1 DEF Unsubmitted
        <3> QED
            BY <1>2, <3>1, <3>2
    <2> QED
        BY <2>1 DEF HeaderKept
<1> QED
    BY <1>1, <1>2, <1>3, <1>5, <1>7, <1>8, <1>9

\* The copy of a runner that did not move, over a gentle step.
LEMMA GentleCopies ==
    ASSUME IInv, LInv, \A k \in Jobs : Gentle(jobs[k], jobs'[k]), UNCHANGED <<results, headers>>,
           run' = run \/ CopyOK(run)'
    PROVE  CopyOK(run)'
<1> DEFINE i == run.id
           job == run.job
<1>1. SUFFICES ASSUME run' = run PROVE CopyOK(run)'
    OBVIOUS
<1>2. CASE run.stage = "inspect"
    <2>1. i \in Jobs /\ Unsubmitted(jobs[i]) /\ job.spent = jobs[i].spent /\ Exclusive(i, job.pending, jobs, results)
        BY <1>2, RunnerRow DEF LInv, CopyOK
    <2>2. Unsubmitted(jobs'[i]) /\ jobs'[i].spent = jobs[i].spent /\ Exclusive(i, job.pending, jobs', results')
        BY <2>1, GentleKeeps DEF Gentle
    <2> QED
        BY <1>1, <1>2, <2>1, <2>2 DEF CopyOK
<1>3. CASE run.stage = "submit"
    <2>1. i \in Jobs /\ jobs[i].pending.header = job.pending.header /\ job.pending.header \in 1 .. Len(headers)
        BY <1>3, RunnerRow DEF LInv, CopyOK, IInv, RunnersOK, RunnerOK
    <2>2. ~Unsubmitted(jobs[i])
        BY <2>1 DEF Unsubmitted, None, IInv, Types
    <2>3. jobs'[i].pending = jobs[i].pending
        BY <2>1, <2>2, GentleKeeps
    <2> QED
        BY <1>1, <1>3, <2>1, <2>3 DEF CopyOK
<1>4. CASE run.stage \notin {"inspect", "submit"}
    BY <1>1, <1>4 DEF CopyOK
<1> QED
    BY <1>2, <1>3, <1>4

\* So the ledger's invariant survives a gentle step.
LEMMA GentleStep ==
    ASSUME IInv, LInv, \A k \in Jobs : Gentle(jobs[k], jobs'[k]), UNCHANGED <<results, headers>>,
           run' = run \/ CopyOK(run)'
    PROVE  LInv'
BY GentleKeeps, GentleCopies DEF LInv

LEMMA QuietLedger ==
    ASSUME IInv, LInv, Quiet
    PROVE  LInv'
<1>1. \A k \in Jobs : Gentle(jobs[k], jobs'[k])
    BY MildGentle DEF Quiet, MildStep
<1>2. ASSUME Reads PROVE CopyOK(run)'
    <2>1. run'.id \in Open(jobs)
        BY <1>2 DEF Reads, Open, Rows, Active
    <2>2. Exclusive(run'.id, jobs[run'.id].pending, jobs, results)
        BY <2>1 DEF LInv, AttemptsOK
    <2>3. jobs' = jobs /\ results' = results
        BY <1>2 DEF Reads, Quiet
    <2> QED
        BY <1>2, <2>2, <2>3 DEF Reads, CopyOK
<1>3. ASSUME run'.stage = "idle" PROVE CopyOK(run)'
    BY <1>3 DEF CopyOK
<1>4. run' = run \/ CopyOK(run)'
    BY <1>2, <1>3 DEF Quiet, Rested
<1>5. UNCHANGED <<results, headers>>
    BY DEF Quiet
<1> QED
    BY <1>1, <1>4, <1>5, GentleStep

LEMMA InsertLedger ==
    ASSUME IInv, LInv, NEW j \in Jobs, Inserts(j)
    PROVE  LInv'
<1>1. ASSUME NEW k \in Jobs PROVE Gentle(jobs[k], jobs'[k])
    <2>1. CASE k = j
        <3>1. jobs[k] = NoJob
            BY <2>1 DEF Inserts, IInv, RowsOK, RowOK
        <3> QED
            BY <2>1, <3>1 DEF Inserts, Gentle, NoJob, NoPending, Active
    <2>2. CASE k # j
        BY <2>2, MildGentle DEF Inserts
    <2> QED
        BY <2>1, <2>2
<1>2. UNCHANGED <<results, headers, run>>
    BY DEF Inserts, world
<1> QED
    BY <1>1, <1>2, GentleStep

\* A step that saves one row, gently, and ends the tick or moves its runner.
LEMMA SaveGentle ==
    ASSUME IInv, LInv, NEW j \in Jobs, NEW v, Save(j, v), Gentle(jobs[j], v), UNCHANGED <<results, headers>>,
           run' = run \/ CopyOK(run)'
    PROVE  LInv'
<1>1. \A k \in Jobs : Gentle(jobs[k], jobs'[k])
    BY DEF Save, Gentle, IInv, Types
<1> QED
    BY <1>1, GentleStep

LEMMA EndCopies ==
    ASSUME End
    PROVE  CopyOK(run)'
BY DEF End, Rest, CopyOK

LEMMA OverwriteLedger ==
    ASSUME IInv, LInv, Overwrites
    PROVE  LInv'
<1> DEFINE j == run.id
           job == run.job
<1>1. j \in Jobs /\ job \in Job /\ Unsubmitted(jobs[j]) /\ job.spent = jobs[j].spent
    BY RunnerRow DEF Overwrites, LInv, CopyOK, IInv, Types, Runner
<1>2. Gentle(jobs[j], Stopped(job))
    BY <1>1 DEF Gentle, Stopped, NoPending, Job, Active
<1>3. Save(j, Stopped(job)) /\ End /\ UNCHANGED <<results, headers>>
    BY DEF Overwrites, world
<1> QED
    BY <1>1, <1>2, <1>3, EndCopies, SaveGentle

\* The runner that launched a row has the row's own header.
LEMMA LaunchCopies ==
    ASSUME IInv, NEW j \in Jobs, NEW job, Launch(j, job)
    PROVE  CopyOK(run)'
<1>1. jobs'[j] = Ready(j, job)
    <2>1. Save(j, Ready(j, job))
        BY LaunchSteps
    <2> QED
        BY <2>1 DEF Save, IInv, Types
<1>2. ASSUME NEW s \in {"sign", "submit", "result"}, At(j, Ready(j, job), s)
      PROVE  CopyOK(run)'
    <2> DEFINE r == [stage |-> s, id |-> j, job |-> Ready(j, job), key |-> run.key]
    <2>1. run' = r
        BY <1>2 DEF At
    <2>2. r.stage # "inspect" /\ r.id = j /\ r.job = Ready(j, job)
        OBVIOUS
    <2> HIDE DEF r
    <2> QED
        BY <1>1, <2>1, <2>2 DEF CopyOK
<1> QED
    BY <1>2, LaunchSteps

\* A row launched from a copy: the round it draws, or had drawn, is nobody else's.
LEMMA CopyLaunchLedger ==
    ASSUME IInv, LInv, run.stage = "inspect",
           Launch(run.id, run.job), UNCHANGED <<results, asked, world>>
    PROVE  LInv'
<1> DEFINE j == run.id
           job == run.job
           p == Ready(j, job).pending
<1>1. j \in Rows /\ j \in Jobs /\ job \in Job /\ job.status = "queued" /\ Unsubmitted(job)
      /\ RowOK(j, job, headers, charged)
    BY RunnerRow DEF IInv, RunnersOK, RunnerOK, Types, Runner
<1>2. Unsubmitted(jobs[j]) /\ job.spent = jobs[j].spent /\ Exclusive(j, job.pending, jobs, results)
    BY DEF LInv, CopyOK
<1>3. /\ jobs'[j] = Ready(j, job) /\ \A k \in Jobs \ {j} : jobs'[k] = jobs[k]
      /\ UNCHANGED <<results, headers>>
    <2>1. Save(j, Ready(j, job))
        BY LaunchSteps
    <2> QED
        BY <1>1, <2>1 DEF Save, IInv, Types, world
<1>4. /\ Ready(j, job).status = "running" /\ Ready(j, job).spent = jobs[j].spent
      /\ p = IF job.pending.drawn THEN job.pending ELSE Admission(j)
      /\ p.header = None /\ p.tx = None
    BY <1>1, <1>2, ReadyOK DEF Unsubmitted
<1>5. Exclusive(j, Admission(j), jobs, results)
    BY <1>1, AdmissionOK DEF Exclusive, Taken
<1>6. Exclusive(j, p, jobs, results)
    BY <1>2, <1>4, <1>5
<1>7. PaymentsOK'
    <2>1. PaymentOK(jobs'[j])
        BY <1>3, <1>4 DEF PaymentOK
    <2> QED
        BY <1>3, <2>1 DEF LInv, PaymentsOK
<1>8. LedgerOK'
    <2>1. ASSUME NEW r \in results PROVE r.round <= jobs'[r.job].spent /\ r.tx # jobs'[r.job].pending.header
        <3>1. r.job \in Jobs /\ r.tx # None /\ r.round <= jobs[r.job].spent /\ r.tx # jobs[r.job].pending.header
            BY DEF IInv, Types, Round, RoundsPaid, LInv, LedgerOK, None
        <3> QED
            BY <1>3, <1>4, <3>1
    <2> QED
        BY <1>3, <2>1 DEF LedgerOK
<1>9. AttemptsOK'
    <2> HIDE DEF p
    <2>1. Exclusive(j, p, jobs', results')
        BY <1>3, <1>6, ExclusiveKept DEF Open
    <2>2. ASSUME NEW k \in Open(jobs') \ {j} PROVE Exclusive(k, jobs'[k].pending, jobs', results')
        <3>1. k \in Jobs /\ k \in Open(jobs) /\ jobs'[k] = jobs[k]
            BY <1>3 DEF Open
        <3>2. Exclusive(k, jobs[k].pending, jobs, results)
            BY <3>1 DEF LInv, AttemptsOK
        <3>3. p.drawn /\ jobs[k].pending.drawn /\ p.attempt # 0
              => ~(p.day = jobs[k].pending.day /\ p.attempt = jobs[k].pending.attempt)
            BY <1>6, <3>1 DEF Exclusive
        <3> QED
            BY <1>3, <3>1, <3>2, <3>3 DEF Exclusive, Open, p
    <2> QED
        BY <1>3, <2>1, <2>2 DEF AttemptsOK, p
<1>10. CopyOK(run)'
    BY <1>1, LaunchCopies
<1>11. HeaderKept'
    <2>1. ASSUME NEW h \in 1 .. Len(headers), ~ \E r \in results : r.tx = h
          PROVE  jobs'[headers[h]].pending.header = h
        <3>1. jobs[headers[h]].pending.header = h /\ headers[h] \in Jobs /\ h # None
            BY <2>1 DEF LInv, HeaderKept, IInv, Types, None
        <3> QED
            BY <1>2, <1>3, <3>1 DEF Unsubmitted
    <2> QED
        BY <1>3, <2>1 DEF HeaderKept
<1> QED
    BY <1>7, <1>8, <1>9, <1>10, <1>11 DEF LInv

\* A row launched with the payment it holds is only marked running.
LEMMA RowLaunchLedger ==
    ASSUME IInv, LInv, NEW j \in Rows, jobs[j].status = "queued", ~Unsubmitted(jobs[j]),
           Launch(j, jobs[j]), UNCHANGED <<results, asked, world>>
    PROVE  LInv'
<1>1. j \in Jobs /\ jobs[j] \in Job /\ RowOK(j, jobs[j], headers, charged)
    BY DEF Rows, IInv, Types, RowsOK
<1>2. Gentle(jobs[j], Ready(j, jobs[j]))
    BY <1>1, ReadyOK DEF Gentle, RowOK, Active
<1>3. Save(j, Ready(j, jobs[j])) /\ UNCHANGED <<results, headers>>
    BY LaunchSteps DEF world
<1> QED
    BY <1>1, <1>2, <1>3, LaunchCopies, SaveGentle

-----------------------------------------------------------------------------
(* Signing, settling, recording.                                           *)

\* The attempts stay exclusive when one row changes and keeps its draw.
LEMMA DrawKept ==
    ASSUME IInv, LInv, NEW j \in Jobs, UNCHANGED results, \A k \in Jobs \ {j} : jobs'[k] = jobs[k],
           jobs'[j].status = jobs[j].status, jobs'[j].pending.drawn = jobs[j].pending.drawn,
           jobs'[j].pending.day = jobs[j].pending.day, jobs'[j].pending.attempt = jobs[j].pending.attempt
    PROVE  AttemptsOK'
<1>1. \A k \in Jobs : /\ jobs'[k].status = jobs[k].status /\ jobs'[k].pending.drawn = jobs[k].pending.drawn
                      /\ jobs'[k].pending.day = jobs[k].pending.day /\ jobs'[k].pending.attempt = jobs[k].pending.attempt
    OBVIOUS
<1>2. Open(jobs') = Open(jobs) /\ Open(jobs) \subseteq Jobs
    BY <1>1 DEF Open
<1>3. ASSUME NEW k \in Open(jobs) PROVE Exclusive(k, jobs'[k].pending, jobs', results')
    <2>1. Exclusive(k, jobs[k].pending, jobs, results)
        BY DEF LInv, AttemptsOK
    <2> QED
        BY <1>1, <1>2, <2>1 DEF Exclusive
<1> QED
    BY <1>2, <1>3 DEF AttemptsOK

\* persist(): the row held no header, so none is lost, and the new one is on it.
LEMMA PersistLedger ==
    ASSUME IInv, LInv, Persists
    PROVE  LInv'
<1> DEFINE j == run.id
           n == Len(headers) + 1
           c == [run.job EXCEPT !.pending.header = n]
<1>1. j \in Rows /\ j \in Jobs /\ jobs[j] \in Job /\ run.job \in Job
    BY RunnerRow DEF Persists, IInv, Types, Runner
<1>2. headers \in Seq(Jobs) /\ Len(headers) \in Nat /\ n # None
    BY DEF IInv, Types, None
<1>3. /\ headers' = Append(headers, j) /\ jobs' = [jobs EXCEPT ![j] = [jobs[j] EXCEPT !.pending.header = n]]
      /\ run' = [stage |-> "submit", id |-> j, job |-> c, key |-> run.key]
      /\ results' = results /\ jobs[j].status = "running" /\ jobs[j].pending.header = None
    BY DEF Persists, Save, At, MayDispatch
<1>4. /\ jobs'[j].status = jobs[j].status /\ jobs'[j].spent = jobs[j].spent
      /\ jobs'[j].pending.drawn = jobs[j].pending.drawn /\ jobs'[j].pending.day = jobs[j].pending.day
      /\ jobs'[j].pending.attempt = jobs[j].pending.attempt /\ jobs'[j].pending.tx = jobs[j].pending.tx
      /\ jobs'[j].pending.header = n
    BY <1>1, <1>3 DEF IInv, Types, Job, Pending
<1>5. \A k \in Jobs \ {j} : jobs'[k] = jobs[k]
    BY <1>3 DEF IInv, Types
<1>6. c.pending.header = n
    BY <1>1 DEF Job, Pending
<1>7. run'.stage = "submit" /\ run'.id = j /\ run'.job = c
    BY <1>3
<1>8. Len(headers') = n /\ headers'[n] = j /\ \A i \in 1 .. Len(headers) : headers'[i] = headers[i]
    BY <1>1, <1>2, <1>3
<1> HIDE DEF j, c
<1>9. PaymentsOK'
    <2>1. PaymentOK(jobs[j])
        BY <1>1 DEF LInv, PaymentsOK
    <2>2. PaymentOK(jobs'[j])
        BY <1>3, <1>4, <2>1 DEF PaymentOK, Active
    <2> QED
        BY <1>5, <2>2 DEF LInv, PaymentsOK
<1>10. LedgerOK'
    <2>1. ASSUME NEW r \in results PROVE r.round <= jobs'[r.job].spent /\ r.tx # jobs'[r.job].pending.header
        <3>1. r.job \in Jobs /\ r.tx \in 1 .. Len(headers) /\ r.round <= jobs[r.job].spent
              /\ r.tx # jobs[r.job].pending.header
            BY DEF IInv, Types, Round, RoundsPaid, LInv, LedgerOK
        <3>2. r.tx # n
            BY <1>2, <3>1
        <3> QED
            BY <1>4, <1>5, <3>1, <3>2
    <2> QED
        BY <1>3, <2>1 DEF LedgerOK
<1>11. AttemptsOK'
    BY <1>1, <1>3, <1>4, <1>5, DrawKept
<1>12. CopyOK(run)'
    BY <1>4, <1>6, <1>7 DEF CopyOK
<1>13. HeaderKept'
    <2>1. ASSUME NEW h \in 1 .. Len(headers), ~ \E r \in results : r.tx = h
          PROVE  jobs'[headers'[h]].pending.header = h
        <3>1. jobs[headers[h]].pending.header = h /\ headers[h] \in Jobs /\ h # None
            BY <2>1 DEF LInv, HeaderKept, IInv, Types, None
        <3> QED
            BY <1>3, <1>5, <1>8, <3>1
    <2>2. jobs'[headers'[n]].pending.header = n
        BY <1>4, <1>8
    <2>3. \A h \in 1 .. Len(headers') : h \in 1 .. Len(headers) \/ h = n
        BY <1>2, <1>8
    <2> QED
        BY <1>3, <2>1, <2>2, <2>3 DEF HeaderKept
<1> QED
    BY <1>9, <1>10, <1>11, <1>12, <1>13 DEF LInv

\* The receipt stored is the one of the header on the row.
LEMMA ReceiveLedger ==
    ASSUME IInv, LInv, Receives
    PROVE  LInv'
<1> DEFINE j == run.id
           h == run.job.pending.header
           c == [run.job EXCEPT !.pending.tx = h]
<1>1. j \in Rows /\ j \in Jobs /\ jobs[j] \in Job
    BY RunnerRow DEF Receives, IInv, Types, Runner
<1>2. /\ jobs' = [jobs EXCEPT ![j] = [jobs[j] EXCEPT !.pending.tx = h]]
      /\ run' = [stage |-> "result", id |-> j, job |-> c, key |-> run.key]
      /\ results' = results /\ headers' = headers
    BY DEF Receives, Save, At, world
<1>3. jobs[j].pending.header = h
    BY DEF Receives, LInv, CopyOK
<1>4. /\ jobs'[j].status = jobs[j].status /\ jobs'[j].spent = jobs[j].spent
      /\ jobs'[j].pending.drawn = jobs[j].pending.drawn /\ jobs'[j].pending.day = jobs[j].pending.day
      /\ jobs'[j].pending.attempt = jobs[j].pending.attempt /\ jobs'[j].pending.tx = h
      /\ jobs'[j].pending.header = jobs[j].pending.header
    BY <1>1, <1>2 DEF IInv, Types, Job, Pending
<1>5. \A k \in Jobs \ {j} : jobs'[k] = jobs[k]
    BY <1>2 DEF IInv, Types
<1>6. run'.stage = "result"
    BY <1>2
<1> HIDE DEF j, h, c
<1>7. PaymentsOK'
    <2>1. PaymentOK(jobs[j])
        BY <1>1 DEF LInv, PaymentsOK
    <2>2. PaymentOK(jobs'[j])
        BY <1>3, <1>4, <2>1 DEF PaymentOK
    <2> QED
        BY <1>5, <2>2 DEF LInv, PaymentsOK
<1>8. LedgerOK'
    <2>1. ASSUME NEW r \in results PROVE r.round <= jobs'[r.job].spent /\ r.tx # jobs'[r.job].pending.header
        <3>1. r.job \in Jobs /\ r.round <= jobs[r.job].spent /\ r.tx # jobs[r.job].pending.header
            BY DEF IInv, Types, Round, LInv, LedgerOK
        <3> QED
            BY <1>4, <1>5, <3>1
    <2> QED
        BY <1>2, <2>1 DEF LedgerOK
<1>9. AttemptsOK'
    BY <1>1, <1>2, <1>4, <1>5, DrawKept
<1>10. CopyOK(run)'
    BY <1>6 DEF CopyOK
<1>11. HeaderKept'
    <2>1. ASSUME NEW i \in 1 .. Len(headers), ~ \E r \in results : r.tx = i
          PROVE  jobs'[headers[i]].pending.header = i
        <3>1. jobs[headers[i]].pending.header = i /\ headers[i] \in Jobs
            BY <2>1 DEF LInv, HeaderKept, IInv, Types
        <3> QED
            BY <1>4, <1>5, <3>1
    <2> QED
        BY <1>2, <2>1 DEF HeaderKept
<1> QED
    BY <1>7, <1>8, <1>9, <1>10, <1>11 DEF LInv

\* The recorded payment is the row's header, and its attempt was the row's alone.
LEMMA RecordLedger ==
    ASSUME IInv, LInv, Records
    PROVE  LInv'
<1> DEFINE j == run.id
<1>1. j \in Rows /\ j \in Jobs /\ jobs[j] \in Job
    BY RunnerRow DEF Records, IInv, Types
<1>2. /\ jobs' = [jobs EXCEPT ![j] = Played(j)] /\ results' = results \cup {Entry(j)} /\ End
      /\ headers' = headers /\ jobs[j].pending.tx # None
    BY DEF Records, Save, world
<1>3. jobs[j].pending.tx = jobs[j].pending.header /\ jobs[j].status \in Active
    BY <1>1, <1>2 DEF LInv, PaymentsOK, PaymentOK
<1>4. jobs'[j] = Played(j) /\ \A k \in Jobs \ {j} : jobs'[k] = jobs[k]
    BY <1>1, <1>2 DEF IInv, Types
<1> HIDE DEF j
<1>5. Played(j).pending = NoPending /\ Played(j).spent = jobs[j].spent + 1 /\ jobs[j].pending.drawn
    BY <1>1, <1>2, PlayedOK
<1>6. /\ Entry(j).job = j /\ Entry(j).round = jobs[j].spent + 1 /\ Entry(j).tx = jobs[j].pending.tx
      /\ Entry(j).day = jobs[j].pending.day /\ Entry(j).attempt = jobs[j].pending.attempt
    BY DEF Entry
<1>7. jobs[j].spent \in Nat /\ NoPending.header = None /\ NoPending.tx = None /\ ~NoPending.drawn
    BY <1>1 DEF Job, NoPending
<1>8. PaymentsOK'
    <2>1. PaymentOK(jobs'[j])
        BY <1>4, <1>5, <1>7 DEF PaymentOK
    <2> QED
        BY <1>4, <2>1 DEF LInv, PaymentsOK
<1>9. LedgerOK'
    <2>1. ASSUME NEW r \in results PROVE r.round <= jobs'[r.job].spent /\ r.tx # jobs'[r.job].pending.header
        <3>1. r.job \in Jobs /\ r.round \in Nat /\ r.tx \in 1 .. Len(headers)
              /\ r.round <= jobs[r.job].spent /\ r.tx # jobs[r.job].pending.header
            BY DEF IInv, Types, Round, LInv, LedgerOK, RoundsPaid
        <3>2. r.tx # None
            BY <3>1 DEF None
        <3>3. CASE r.job = j
            BY <1>4, <1>5, <1>7, <3>1, <3>2, <3>3
        <3>4. CASE r.job # j
            BY <1>4, <3>1, <3>4
        <3> QED
            BY <3>3, <3>4
    <2>2. Entry(j).round <= jobs'[Entry(j).job].spent /\ Entry(j).tx # jobs'[Entry(j).job].pending.header
        BY <1>2, <1>4, <1>5, <1>6, <1>7
    <2> QED
        BY <1>2, <2>1, <2>2 DEF LedgerOK
<1>10. AttemptsOK'
    <2>1. ASSUME NEW k \in Open(jobs') PROVE Exclusive(k, jobs'[k].pending, jobs', results')
        <3>1. CASE k = j
            BY <1>4, <1>5, <1>7, <3>1 DEF Exclusive
        <3>2. CASE k # j
            <4>1. k \in Open(jobs) /\ jobs'[k] = jobs[k] /\ j \in Open(jobs) /\ Open(jobs') \subseteq Jobs
                BY <1>1, <1>3, <1>4, <3>2 DEF Open
            <4>2. Exclusive(k, jobs[k].pending, jobs, results)
                BY <4>1 DEF LInv, AttemptsOK
            <4>3. \A i \in Open(jobs') \ {k} : jobs'[i].pending.drawn => i \in Open(jobs) /\ jobs'[i] = jobs[i]
                BY <1>4, <1>5, <1>7, <4>1 DEF Open
            <4>4. jobs[k].pending.drawn /\ jobs[k].pending.attempt # 0
                  => ~(Entry(j).day = jobs[k].pending.day /\ Entry(j).attempt = jobs[k].pending.attempt)
                BY <1>5, <1>6, <3>2, <4>1, <4>2 DEF Exclusive
            <4>5. SUFFICES ASSUME jobs[k].pending.drawn, jobs[k].pending.attempt # 0
                           PROVE  /\ \A r \in results' : ~(r.day = jobs[k].pending.day /\ r.attempt = jobs[k].pending.attempt)
                                  /\ \A i \in Open(jobs') \ {k} : jobs'[i].pending.drawn =>
                                        ~(jobs'[i].pending.day = jobs[k].pending.day /\ jobs'[i].pending.attempt = jobs[k].pending.attempt)
                BY <4>1 DEF Exclusive
            <4>6. \A r \in results : ~(r.day = jobs[k].pending.day /\ r.attempt = jobs[k].pending.attempt)
                BY <4>2, <4>5 DEF Exclusive
            <4>7. \A i \in Open(jobs) \ {k} : jobs[i].pending.drawn =>
                      ~(jobs[i].pending.day = jobs[k].pending.day /\ jobs[i].pending.attempt = jobs[k].pending.attempt)
                BY <4>2, <4>5 DEF Exclusive
            <4>8. \A r \in results' : ~(r.day = jobs[k].pending.day /\ r.attempt = jobs[k].pending.attempt)
                BY <1>2, <4>4, <4>5, <4>6
            <4> QED
                BY <4>3, <4>7, <4>8
        <3> QED
            BY <3>1, <3>2
    <2> QED
        BY <2>1 DEF AttemptsOK
<1>11. CopyOK(run)'
    BY <1>2, EndCopies
<1>12. HeaderKept'
    <2>1. ASSUME NEW i \in 1 .. Len(headers), ~ \E r \in results' : r.tx = i
          PROVE  jobs'[headers[i]].pending.header = i
        <3>1. jobs[headers[i]].pending.header = i /\ headers[i] \in Jobs
            BY <1>2, <2>1 DEF LInv, HeaderKept, IInv, Types
        <3>2. headers[i] # j
            BY <1>2, <1>3, <1>6, <2>1, <3>1
        <3> QED
            BY <1>4, <3>1, <3>2
    <2> QED
        BY <1>2, <2>1 DEF HeaderKept
<1> QED
    BY <1>8, <1>9, <1>10, <1>11, <1>12 DEF LInv

LEMMA ChargeLedger ==
    ASSUME LInv, NEW h, Charge(h)
    PROVE  LInv'
BY DEF Charge, disk, LInv, PaymentsOK, LedgerOK, AttemptsOK, CopyOK, HeaderKept

-----------------------------------------------------------------------------
(* The invariant of the ledger, and what it gives.                         *)

LEMMA LedgerStep ==
    ASSUME IInv, LInv, [Next]_vars
    PROVE  LInv'
<1>1. CASE Quiet
    BY <1>1, QuietLedger
<1>2. ASSUME NEW j \in Rows, NEW job \in Job, job.status = "queued",
             RowOK(j, job, headers, charged), Launches(j, job)
      PROVE  LInv'
    <2>1. CASE job = jobs[j] /\ ~Unsubmitted(jobs[j])
        BY <1>2, <2>1, RowLaunchLedger DEF Launches
    <2>2. CASE run.stage = "inspect" /\ job = run.job /\ j = run.id
        BY <1>2, <2>2, CopyLaunchLedger DEF Launches
    <2> QED
        BY <1>2, <2>1, <2>2 DEF Launches
<1>3. ASSUME Overwrites \/ Persists \/ Receives \/ Records PROVE LInv'
    BY <1>3, OverwriteLedger, PersistLedger, ReceiveLedger, RecordLedger
<1> QED
    BY <1>1, <1>2, <1>3, InsertLedger, ChargeLedger, NextSteps DEF Loud

LEMMA InitLedger == Init => LInv
BY DEF Init, LInv, PaymentsOK, PaymentOK, LedgerOK, AttemptsOK, Open, Active, CopyOK, HeaderKept, NoJob, NoPending, Rest, None

\* A signed header stays on its job until its round is recorded (persist, pause, insert,
\* expireUnsubmitted), whatever crashes, stops, expires or changes hands, in one process at
\* a time.
THEOREM HeadersKept == Spec => []HeaderKept
<1>1. IInv /\ LInv /\ [Next]_vars => LInv'
    BY LedgerStep
<1>2. LInv => HeaderKept
    BY DEF LInv
<1> QED
    BY <1>1, <1>2, InitInv, InitLedger, NextInv, PTL DEF Spec

\* Every recorded round was paid for by its own job, and every paid round can be recorded:
\* the ledger's unique keys (admission, payment, ranked attempt) never refuse one.
THEOREM RoundsAlwaysSound == Spec => []RoundsSound
<1>1. IInv /\ LInv /\ [Next]_vars => LInv'
    BY LedgerStep
<1>2. IInv /\ LInv => PaidRoundFits
    <2> SUFFICES ASSUME IInv, LInv, NEW j \in Open(jobs), jobs[j].pending.header # None, NEW r \in results
                 PROVE  /\ ~(r.job = j /\ r.round = jobs[j].spent + 1)
                        /\ ~(r.tx # None /\ r.tx = jobs[j].pending.tx)
                        /\ jobs[j].pending.attempt # 0 =>
                               ~(r.day = jobs[j].pending.day /\ r.attempt = jobs[j].pending.attempt)
        BY DEF PaidRoundFits, Clash
    <2>1. j \in Jobs /\ jobs[j] \in Job /\ RowOK(j, jobs[j], headers, charged) /\ PaymentOK(jobs[j])
        BY DEF Open, IInv, Types, RowsOK, LInv, PaymentsOK
    <2>2. r \in Round /\ r.tx \in charged /\ headers[r.tx] = r.job /\ r.round <= jobs[r.job].spent
          /\ r.tx # jobs[r.job].pending.header
        BY DEF IInv, Types, RoundsPaid, LInv, LedgerOK
    <2>3. ~(r.job = j /\ r.round = jobs[j].spent + 1)
        BY <2>1, <2>2 DEF Round, Job
    <2>4. ~(r.tx # None /\ r.tx = jobs[j].pending.tx)
        BY <2>1, <2>2 DEF RowOK, PaymentOK
    <2>5. jobs[j].pending.drawn
        BY <2>1 DEF RowOK, Unsubmitted
    <2>6. Exclusive(j, jobs[j].pending, jobs, results)
        BY DEF LInv, AttemptsOK
    <2> QED
        BY <2>3, <2>4, <2>5, <2>6 DEF Exclusive
<1>3. Spec => [](TypeOK /\ RoundsPaid)
    BY RowsTyped
<1>4. TypeOK /\ RoundsPaid /\ PaidRoundFits => RoundsSound
    BY DEF RoundsSound
<1> QED
    BY <1>1, <1>2, <1>3, <1>4, InitInv, InitLedger, NextInv, PTL DEF Spec
=============================================================================
