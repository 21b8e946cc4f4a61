-------------------------- MODULE SchedulerProofs --------------------------
(***************************************************************************)
(* Proofs about the scheduled-payment agent for every set of jobs and      *)
(* workers, every schedule and every number of crashes.                    *)
(***************************************************************************)
EXTENDS Scheduler, SumTheorems

-----------------------------------------------------------------------------
(***************************************************************************)
(* The inductive invariant.  TypeInv: the rows, with the jobs a worker     *)
(* still has to look at on file.  CountsOK, SlotOK, RunOK and PairOK: the  *)
(* store.  HeaderOK, ChargeOK, Held and Distinct: money and who holds it.  *)
(***************************************************************************)
TypeInv ==
    /\ DOMAIN jobs \subseteq Jobs /\ IsFiniteSet(DOMAIN jobs) /\ jobs \in [DOMAIN jobs -> JobRow]
    /\ runs \in Seq(RunRow) /\ \A r \in DOMAIN runs : runs[r].job \in DOMAIN jobs
    /\ worker \in [Workers -> Worker]
    /\ \A w \in Workers : \A k \in DOMAIN worker[w].todo : worker[w].todo[k] \in DOMAIN jobs
    /\ wire \subseteq [run : DOMAIN runs, amount : Nat]
    /\ charged \in Seq(Nat) /\ DOMAIN charged = DOMAIN runs
    /\ now \in 0 .. MaxTime /\ crashes \in 0 .. MaxCrashes

Slots(j) == {r \in RunsOf(j) : runs[r].attempt = 1}
Amounts == [r \in DOMAIN runs |-> runs[r].amount]
WindowAt(j, t) == (t - Terms[j].startsAt) \div Terms[j].interval

\* A job's counters are its runs; while it may be retried every run of its slot is
\* unpaid; and its next slot lies in a later interval than all its runs.
CountsOK(j) ==
    /\ jobs[j].attempts <= Terms[j].maxAttempts
    /\ jobs[j].status = "active" => jobs[j].attempts < Terms[j].maxAttempts
    /\ jobs[j].runCount = Cardinality(Slots(j)) /\ jobs[j].runCount <= Terms[j].maxRuns
    /\ jobs[j].committed = SumFunctionOnSet(Amounts, RunsOf(j)) /\ jobs[j].committed <= Terms[j].maxTotal
SlotOK(j) ==
    /\ jobs[j].attempts # 0 => Slots(j) # {}
    /\ jobs[j].status = "active" /\ jobs[j].attempts # 0 =>
          \A r \in RunsOf(j) : (\A t \in Slots(j) : t <= r) => runs[r].outcome = "unpaid"
    /\ jobs[j].attempts = 0 => \A r \in RunsOf(j), t \in Nat : t >= jobs[j].nextAt => WindowAt(j, runs[r].at) < WindowAt(j, t)

\* A run keeps its reservation until it is known; an open run is its job's last and holds it.
RunOK(r) ==
    /\ runs[r].attempt \in 1 .. Terms[runs[r].job].maxAttempts
    /\ runs[r].at \in Terms[runs[r].job].startsAt .. now
    /\ runs[r].outcome = "unknown" => runs[r].amount = Terms[runs[r].job].maxAmount
    /\ ~runs[r].finished => /\ runs[r].outcome = "unknown"
                            /\ jobs[runs[r].job].status \in {"paused", "cancelled"}
                            /\ jobs[runs[r].job].attempts # 0
                            /\ \A q \in RunsOf(runs[r].job) : q <= r
    /\ \E q \in Slots(runs[r].job) : q <= r

\* Of two runs of one slot the earlier is unpaid; a new slot is in a later interval.
PairOK(r, q) ==
    r < q /\ runs[r].job = runs[q].job =>
        /\ (\A t \in Slots(runs[r].job) : t <= q => t <= r) => runs[r].outcome = "unpaid"
        /\ runs[q].attempt = 1 => WindowAt(runs[r].job, runs[r].at) < WindowAt(runs[r].job, runs[q].at)

StoreInv ==
    /\ \A j \in DOMAIN jobs : CountsOK(j) /\ SlotOK(j)
    /\ \A r \in DOMAIN runs : RunOK(r)
    /\ \A r, q \in DOMAIN runs : PairOK(r, q)

Busy == {"offer", "signing", "sent", "result"}
Quiet(r) == charged[r] = 0 /\ \A h \in wire : h.run # r

HeaderOK(h) ==
    /\ runs[h.run].outcome = "unknown" /\ charged[h.run] = 0
    /\ h.amount \in 1 .. Terms[runs[h.run].job].maxAmount
    /\ \A g \in wire : g.run = h.run => g = h

ChargeOK(r) ==
    /\ charged[r] <= runs[r].amount
    /\ runs[r].outcome = "paid" => charged[r] = runs[r].amount
    /\ runs[r].outcome = "unpaid" => runs[r].amount = 0

\* What a worker holds: an open run, and what may have happened to its header.
Held(v) ==
    v.pc \in Busy =>
        /\ v.run \in DOMAIN runs /\ ~runs[v.run].finished
        /\ v.pc \in {"offer", "signing"} => Quiet(v.run)
        /\ v.pc \in {"signing", "sent"} => v.offer \in 1 .. Terms[runs[v.run].job].maxAmount
        /\ v.pc = "sent" => /\ charged[v.run] \in {0, v.offer}
                            /\ \A h \in wire : h.run = v.run => h.amount = v.offer
        /\ v.pc = "result" /\ v.result.outcome = "unpaid" => Quiet(v.run)
        /\ v.pc = "result" /\ v.result.outcome = "paid" =>
              /\ v.result.amount = charged[v.run] /\ v.result.amount \in 1 .. Terms[runs[v.run].job].maxAmount
              /\ \A h \in wire : h.run # v.run

Distinct == \A v, w \in Workers : worker[v].pc \in Busy /\ worker[w].pc \in Busy /\ worker[v].run = worker[w].run => v = w

MoneyInv ==
    /\ \A h \in wire : HeaderOK(h)
    /\ \A r \in DOMAIN runs : ChargeOK(r)
    /\ \A w \in Workers : Held(worker[w])
    /\ Distinct

IInv == TypeInv /\ StoreInv /\ MoneyInv

-----------------------------------------------------------------------------
(* Arithmetic of intervals.                                                *)

LEMMA DivType == ASSUME NEW x \in Nat, NEW m \in Nat \ {0} PROVE x \div m \in Nat
OBVIOUS

\* The boundary after x starts a later interval.
LEMMA DivNext ==
    ASSUME NEW x \in Nat, NEW y \in Nat, NEW m \in Nat \ {0}, y >= ((x \div m) + 1) * m
    PROVE  x \div m < y \div m
OBVIOUS

LEMMA DivMonotone ==
    ASSUME NEW x \in Nat, NEW y \in Nat, x <= y, NEW m \in Nat \ {0} PROVE x \div m <= y \div m
OBVIOUS

\* NextSlot lies in a later interval than now.
LEMMA NextSlotLater ==
    ASSUME NEW j \in Jobs, now \in Nat, now >= Terms[j].startsAt
    PROVE  /\ NextSlot(j) \in Nat
           /\ \A t \in Nat : t >= NextSlot(j) => WindowAt(j, now) < WindowAt(j, t)
<1> DEFINE m == Terms[j].interval
           x == now - Terms[j].startsAt
<1>1. m \in Nat \ {0} /\ Terms[j].startsAt \in Nat /\ x \in Nat
    BY SchedulerAssumption DEF PaymentSchedule
<1>2. NextSlot(j) = Terms[j].startsAt + ((x \div m) + 1) * m /\ WindowAt(j, now) = x \div m
    BY DEF NextSlot, WindowAt
<1>3. ((x \div m) + 1) * m \in Nat
    <2>1. x \div m \in Nat
        BY <1>1, DivType
    <2> HIDE DEF x, m
    <2>2. \A a, b \in Nat : a * b \in Nat
        OBVIOUS
    <2> QED
        BY <1>1, <2>1, <2>2
<1>4. ASSUME NEW t \in Nat, t >= NextSlot(j) PROVE x \div m < (t - Terms[j].startsAt) \div m
    <2>1. t - Terms[j].startsAt \in Nat /\ t - Terms[j].startsAt >= ((x \div m) + 1) * m
        BY <1>1, <1>2, <1>3, <1>4
    <2> HIDE DEF x, m
    <2> QED
        BY <1>1, <2>1, DivNext
<1> QED
    BY <1>1, <1>2, <1>3, <1>4 DEF WindowAt

\* The schedule's terms.
LEMMA TermsType ==
    ASSUME NEW j \in Jobs
    PROVE  /\ Terms[j].maxAmount \in Nat \ {0} /\ Terms[j].maxTotal \in Nat /\ Terms[j].maxRuns \in Nat \ {0}
           /\ Terms[j].startsAt \in Nat /\ Terms[j].endsAt \in Nat /\ Terms[j].interval \in Nat \ {0}
           /\ Terms[j].maxAttempts \in Nat \ {0} /\ Terms[j].retryDelay \in Nat \ {0}
BY SchedulerAssumption DEF PaymentSchedule

LEMMA InitInv == Init => IInv
<1> SUFFICES ASSUME Init PROVE IInv
    OBVIOUS
<1>1. DOMAIN jobs = {} /\ runs = <<>> /\ DOMAIN runs = {} /\ wire = {} /\ charged = <<>> /\ DOMAIN charged = {}
    BY DEF Init
<1>2. \A w \in Workers : worker[w] = FreshWorker
    BY DEF Init
<1>3. FreshWorker \in Worker /\ FreshWorker.pc = "idle" /\ DOMAIN FreshWorker.todo = {}
    BY DEF FreshWorker, Worker, Result, Unknown
<1>4. TypeInv
    <2>1. jobs \in [DOMAIN jobs -> JobRow] /\ IsFiniteSet(DOMAIN jobs)
        BY <1>1, FS_EmptySet DEF Init
    <2>2. worker \in [Workers -> Worker]
        BY <1>3 DEF Init
    <2>3. now \in 0 .. MaxTime /\ crashes \in 0 .. MaxCrashes
        BY SchedulerAssumption DEF Init
    <2> QED
        BY <1>1, <1>2, <1>3, <2>1, <2>2, <2>3 DEF TypeInv
<1>5. StoreInv
    BY <1>1 DEF StoreInv
<1>6. MoneyInv
    BY <1>1, <1>2, <1>3 DEF MoneyInv, Held, Distinct, Busy
<1> QED
    BY <1>4, <1>5, <1>6 DEF IInv

-----------------------------------------------------------------------------
(* The store's transactions, field by field.                               *)

\* claim() that takes a slot.
LEMMA TakeFields ==
    ASSUME TypeInv, NEW j \in DOMAIN jobs, TakeSlot(j)
    PROVE  /\ jobs' \in [DOMAIN jobs -> JobRow]
           /\ \A k \in DOMAIN jobs \ {j} : jobs'[k] = jobs[k]
           /\ jobs'[j].status = "paused" /\ jobs'[j].nextAt = jobs[j].nextAt
           /\ jobs'[j].committed = jobs[j].committed + Terms[j].maxAmount
           /\ jobs'[j].runCount = jobs[j].runCount + (IF jobs[j].attempts = 0 THEN 1 ELSE 0)
           /\ jobs'[j].attempts = jobs[j].attempts + 1
           /\ Len(runs) + 1 \notin DOMAIN runs /\ Len(runs) + 1 \in Nat
           /\ \A r \in DOMAIN runs : r \in Nat /\ r < Len(runs) + 1
           /\ runs' \in Seq(RunRow) /\ DOMAIN runs' = DOMAIN runs \cup {Len(runs) + 1}
           /\ \A r \in DOMAIN runs : runs'[r] = runs[r]
           /\ runs'[Len(runs) + 1] = [job |-> j, at |-> now, attempt |-> jobs[j].attempts + 1,
                                      outcome |-> "unknown", amount |-> Terms[j].maxAmount, finished |-> FALSE]
           /\ charged' \in Seq(Nat) /\ DOMAIN charged' = DOMAIN runs'
           /\ \A r \in DOMAIN runs : charged'[r] = charged[r]
           /\ charged'[Len(runs) + 1] = 0
<1>0. /\ j \in Jobs /\ jobs \in [DOMAIN jobs -> JobRow] /\ jobs[j] \in JobRow
      /\ runs \in Seq(RunRow) /\ charged \in Seq(Nat) /\ DOMAIN charged = DOMAIN runs /\ now \in Nat
    BY SchedulerAssumption DEF TypeInv
<1>1. Terms[j].maxAmount \in Nat
    BY <1>0, TermsType
<1> DEFINE more == jobs[j].runCount + (IF jobs[j].attempts = 0 THEN 1 ELSE 0)
<1>2. jobs' = [jobs EXCEPT ![j].status = "paused",
                           ![j].committed = @ + Terms[j].maxAmount,
                           ![j].runCount = @ + (IF jobs[j].attempts = 0 THEN 1 ELSE 0),
                           ![j].attempts = @ + 1]
    BY DEF TakeSlot
<1>3. jobs'[j] = [[[[jobs[j] EXCEPT !.status = "paused"] EXCEPT !.committed = jobs[j].committed + Terms[j].maxAmount]
                     EXCEPT !.runCount = more] EXCEPT !.attempts = jobs[j].attempts + 1]
    BY <1>0, <1>2 DEF JobRow
<1>4. DOMAIN jobs' = DOMAIN jobs /\ \A k \in DOMAIN jobs \ {j} : jobs'[k] = jobs[k]
    BY <1>0, <1>2
<1>5. more \in Nat
    BY <1>0 DEF JobRow
<1>6. /\ jobs'[j] \in JobRow /\ jobs'[j].status = "paused" /\ jobs'[j].nextAt = jobs[j].nextAt
      /\ jobs'[j].committed = jobs[j].committed + Terms[j].maxAmount
      /\ jobs'[j].runCount = more /\ jobs'[j].attempts = jobs[j].attempts + 1
    <2> DEFINE com == jobs[j].committed + Terms[j].maxAmount
               att == jobs[j].attempts + 1
    <2>1. com \in Nat /\ att \in Nat
        BY <1>0, <1>1, SMTT(30) DEF JobRow
    <2>2. jobs'[j] = [[[[jobs[j] EXCEPT !.status = "paused"] EXCEPT !.committed = com]
                        EXCEPT !.runCount = more] EXCEPT !.attempts = att]
        BY <1>3
    <2> HIDE DEF more, com, att
    <2>3. /\ jobs'[j] \in JobRow /\ jobs'[j].status = "paused" /\ jobs'[j].nextAt = jobs[j].nextAt
          /\ jobs'[j].committed = com /\ jobs'[j].runCount = more /\ jobs'[j].attempts = att
        BY <1>0, <1>5, <2>1, <2>2 DEF JobRow, Statuses
    <2> QED
        BY <2>3 DEF com, att
<1>7. jobs' \in [DOMAIN jobs -> JobRow]
    <2>1. jobs' = [k \in DOMAIN jobs |-> jobs'[k]]
        BY <1>0, <1>2
    <2> QED
        BY <1>0, <1>4, <1>6, <2>1
<1> DEFINE new == [job |-> j, at |-> now, attempt |-> jobs[j].attempts + 1,
                   outcome |-> "unknown", amount |-> Terms[j].maxAmount, finished |-> FALSE]
<1>8. new \in RunRow
    BY <1>0, <1>1 DEF RunRow, JobRow
<1>9. runs' = Append(runs, new) /\ charged' = Append(charged, 0)
    BY DEF TakeSlot
<1> HIDE DEF new, more
<1>10. /\ Len(runs) \in Nat /\ DOMAIN runs = 1 .. Len(runs) /\ DOMAIN charged = 1 .. Len(charged) /\ Len(charged) \in Nat
    BY <1>0
<1>11. Len(charged) = Len(runs)
    BY <1>0, <1>10
<1>12. /\ runs' \in Seq(RunRow) /\ DOMAIN runs' = 1 .. Len(runs) + 1
       /\ \A r \in 1 .. Len(runs) : runs'[r] = runs[r]
       /\ runs'[Len(runs) + 1] = new
    BY <1>0, <1>8, <1>9
<1>13. /\ charged' \in Seq(Nat) /\ DOMAIN charged' = 1 .. Len(runs) + 1
       /\ \A r \in 1 .. Len(runs) : charged'[r] = charged[r]
       /\ charged'[Len(runs) + 1] = 0
    BY <1>0, <1>9, <1>11
<1> QED
    BY <1>4, <1>6, <1>7, <1>10, <1>12, <1>13 DEF new, more

\* finish().
LEMMA FinishFields ==
    ASSUME TypeInv, NEW r \in DOMAIN runs, NEW res \in Result, FinishRun(r, res),
           now >= Terms[runs[r].job].startsAt, CommittedAfter(r, res) \in Nat
    PROVE  LET j == runs[r].job
               again == MayRetry(j, res) IN
           /\ jobs' \in [DOMAIN jobs -> JobRow]
           /\ \A k \in DOMAIN jobs \ {j} : jobs'[k] = jobs[k]
           /\ jobs[j].status = "cancelled" => jobs'[j].status = "cancelled"
           /\ jobs'[j].status = "active" => res.outcome = "paid" \/ again
           /\ res.outcome = "paid" => jobs'[j].nextAt = NextSlot(j)
           /\ jobs'[j].attempts = IF res.outcome = "paid" THEN 0 ELSE jobs[j].attempts
           /\ jobs'[j].runCount = jobs[j].runCount
           /\ jobs'[j].committed = CommittedAfter(r, res)
           /\ jobs[j].status \notin {"active", "completed"} => jobs'[j].status # "cancelled" \/ jobs[j].status = "cancelled"
           /\ ~runs[r].finished
           /\ runs' \in Seq(RunRow) /\ DOMAIN runs' = DOMAIN runs
           /\ \A q \in DOMAIN runs \ {r} : runs'[q] = runs[q]
           /\ runs'[r].job = j /\ runs'[r].at = runs[r].at /\ runs'[r].attempt = runs[r].attempt
           /\ runs'[r].outcome = res.outcome /\ runs'[r].finished /\ runs'[r].amount = FinalAmount(r, res)
<1> DEFINE j == runs[r].job
           paid == res.outcome = "paid"
           again == MayRetry(j, res)
           attempts == IF paid THEN 0 ELSE jobs[j].attempts
           next == CASE paid -> NextSlot(j) [] again -> now + Terms[j].retryDelay [] OTHER -> jobs[j].nextAt
           over == \/ next >= Terms[j].endsAt
                   \/ SlotsUsed(j, attempts)
                   \/ NoRoom(j, CommittedAfter(r, res))
           status == IF jobs[j].status = "cancelled" THEN "cancelled"
                     ELSE IF ~paid /\ ~again THEN "paused"
                     ELSE IF over THEN "completed" ELSE "active"
           final == FinalAmount(r, res)
<1>0. /\ j \in DOMAIN jobs /\ j \in Jobs /\ jobs \in [DOMAIN jobs -> JobRow] /\ jobs[j] \in JobRow
      /\ runs \in Seq(RunRow) /\ runs[r] \in RunRow /\ now \in Nat
    BY SchedulerAssumption DEF TypeInv
<1>1. Terms[j].retryDelay \in Nat /\ NextSlot(j) \in Nat
    BY <1>0, TermsType, NextSlotLater
<1>2. /\ ~runs[r].finished
      /\ jobs' = [jobs EXCEPT ![j].status = status, ![j].nextAt = next,
                              ![j].attempts = attempts, ![j].committed = CommittedAfter(r, res)]
      /\ runs' = [runs EXCEPT ![r].outcome = res.outcome, ![r].finished = TRUE, ![r].amount = final]
    BY DEF FinishRun
<1>3. final \in Nat
    BY <1>0 DEF FinalAmount, Result, RunRow
<1>4. next \in Nat /\ attempts \in Nat /\ status \in Statuses
    <2>1. jobs[j].nextAt \in Nat /\ jobs[j].attempts \in Nat /\ now + Terms[j].retryDelay \in Nat
        <3>1. jobs[j].nextAt \in Nat /\ jobs[j].attempts \in Nat
            BY <1>0 DEF JobRow
        <3>2. now \in Nat /\ Terms[j].retryDelay \in Nat
            BY <1>0, <1>1
        <3>3. \A a, b \in Nat : a + b \in Nat
            OBVIOUS
        <3> QED
            BY <3>1, <3>2, <3>3
    <2>2. next \in {NextSlot(j), now + Terms[j].retryDelay, jobs[j].nextAt}
        <3> HIDE DEF again, paid
        <3> QED
            OBVIOUS
    <2>3. next \in Nat
        <3> HIDE DEF next
        <3> QED
            BY <1>1, <2>1, <2>2
    <2>4. attempts \in Nat
        BY <2>1
    <2> HIDE DEF again, over, next, attempts
    <2> QED
        BY <2>3, <2>4 DEF Statuses
<1>5. /\ jobs[j].status = "cancelled" => status = "cancelled"
      /\ status = "active" => paid \/ again
      /\ paid => next = NextSlot(j)
      /\ status = "cancelled" => jobs[j].status = "cancelled"
    <2>1. paid => ~again
        BY DEF MayRetry
    <2>2. paid => next = NextSlot(j)
        <3> HIDE DEF paid, again
        <3> QED
            BY <2>1
    <2> HIDE DEF again, over, next, paid
    <2> QED
        BY <2>2
<1> DEFINE com == CommittedAfter(r, res)
<1> HIDE DEF status, next, attempts, again, over, final, com
<1>6. jobs' = [jobs EXCEPT ![j].status = status, ![j].nextAt = next, ![j].attempts = attempts, ![j].committed = com]
    BY <1>2 DEF com
<1> HIDE DEF j
<1>7. jobs'[j] = [[[[jobs[j] EXCEPT !.status = status] EXCEPT !.nextAt = next] EXCEPT !.attempts = attempts] EXCEPT !.committed = com]
    BY <1>0, <1>6 DEF JobRow
<1>8. DOMAIN jobs' = DOMAIN jobs /\ \A k \in DOMAIN jobs \ {j} : jobs'[k] = jobs[k]
    BY <1>0, <1>6
<1>9. /\ jobs'[j] \in JobRow /\ jobs'[j].status = status /\ jobs'[j].nextAt = next
      /\ jobs'[j].attempts = attempts /\ jobs'[j].committed = com /\ jobs'[j].runCount = jobs[j].runCount
    <2>1. com \in Nat
        BY DEF com
    <2> QED
        BY <1>0, <1>4, <1>7, <2>1 DEF JobRow
<1>10. jobs' \in [DOMAIN jobs -> JobRow]
    <2>1. jobs' = [k \in DOMAIN jobs |-> jobs'[k]]
        BY <1>0, <1>6
    <2> QED
        BY <1>0, <1>8, <1>9, <2>1
<1>11. runs'[r] = [[[runs[r] EXCEPT !.outcome = res.outcome] EXCEPT !.finished = TRUE] EXCEPT !.amount = final]
    BY <1>0, <1>2 DEF RunRow
<1>12. DOMAIN runs' = DOMAIN runs /\ \A q \in DOMAIN runs \ {r} : runs'[q] = runs[q]
    BY <1>0, <1>2
<1>13. /\ runs'[r] \in RunRow /\ runs'[r].job = runs[r].job /\ runs'[r].at = runs[r].at /\ runs'[r].attempt = runs[r].attempt
       /\ runs'[r].outcome = res.outcome /\ runs'[r].finished /\ runs'[r].amount = final
    BY <1>0, <1>3, <1>11 DEF RunRow, Result
<1>14. runs' \in Seq(RunRow)
    <2>1. Len(runs) \in Nat /\ DOMAIN runs = 1 .. Len(runs) /\ \A q \in DOMAIN runs : runs[q] \in RunRow
        BY <1>0
    <2>2. runs' = [q \in 1 .. Len(runs) |-> runs'[q]]
        BY <1>0, <1>2, <2>1
    <2>3. \A q \in 1 .. Len(runs) : runs'[q] \in RunRow
        BY <1>12, <1>13, <2>1
    <2> QED
        BY <2>1, <2>2, <2>3
<1> QED
    BY <1>2, <1>5, <1>8, <1>9, <1>10, <1>12, <1>13, <1>14 DEF j, attempts, again, final, com

-----------------------------------------------------------------------------
(* The store's invariant.                                                  *)

\* What the type invariant says of one row.
LEMMA RowTypes ==
    ASSUME TypeInv
    PROVE  /\ \A j \in DOMAIN jobs : /\ j \in Jobs /\ jobs[j].status \in Statuses /\ jobs[j].nextAt \in Nat
                                     /\ jobs[j].runCount \in Nat /\ jobs[j].attempts \in Nat /\ jobs[j].committed \in Nat
           /\ \A r \in DOMAIN runs : /\ r \in Nat /\ runs[r] \in RunRow /\ runs[r].job \in DOMAIN jobs /\ runs[r].at \in Nat
                                     /\ runs[r].attempt \in Nat /\ runs[r].amount \in Nat
           /\ now \in Nat
<1>1. ASSUME NEW j \in DOMAIN jobs
      PROVE  /\ j \in Jobs /\ jobs[j].status \in Statuses /\ jobs[j].nextAt \in Nat
             /\ jobs[j].runCount \in Nat /\ jobs[j].attempts \in Nat /\ jobs[j].committed \in Nat
    <2>1. jobs[j] \in JobRow /\ j \in Jobs
        BY DEF TypeInv
    <2> QED
        BY <2>1 DEF JobRow
<1>2. ASSUME NEW r \in DOMAIN runs
      PROVE  /\ r \in Nat /\ runs[r] \in RunRow /\ runs[r].job \in DOMAIN jobs /\ runs[r].at \in Nat
             /\ runs[r].attempt \in Nat /\ runs[r].amount \in Nat
    <2>1. runs \in Seq(RunRow) /\ runs[r].job \in DOMAIN jobs
        BY DEF TypeInv
    <2>2. runs[r] \in RunRow /\ r \in Nat
        BY <2>1
    <2> QED
        BY <2>1, <2>2 DEF RunRow
<1>3. now \in Nat
    BY SchedulerAssumption DEF TypeInv
<1> QED
    BY <1>1, <1>2, <1>3

\* A job's runs are finitely many, and what they cost is a number.
LEMMA RunsFinite ==
    ASSUME TypeInv, NEW j
    PROVE  /\ IsFiniteSet(RunsOf(j)) /\ IsFiniteSet(Slots(j))
           /\ \A r \in RunsOf(j) : Amounts[r] = runs[r].amount /\ Amounts[r] \in Nat
<1>1. runs \in Seq(RunRow)
    BY DEF TypeInv
<1>2. Len(runs) \in Nat /\ DOMAIN runs = 1 .. Len(runs)
    BY <1>1
<1>3. IsFiniteSet(DOMAIN runs)
    <2>1. 1 \in Int /\ Len(runs) \in Int
        BY <1>2
    <2> QED
        BY <1>2, <2>1, FS_Interval
<1>4. IsFiniteSet(RunsOf(j))
    BY <1>3, FS_Subset DEF RunsOf
<1>5. IsFiniteSet(Slots(j))
    BY <1>4, FS_Subset DEF Slots
<1>6. \A r \in RunsOf(j) : Amounts[r] = runs[r].amount /\ Amounts[r] \in Nat
    BY RowTypes DEF RunsOf, Amounts
<1> QED
    BY <1>4, <1>5, <1>6

\* A row that is only cancelled, completed or left alone.
RowKept(j) ==
    /\ jobs'[j].nextAt = jobs[j].nextAt /\ jobs'[j].runCount = jobs[j].runCount
    /\ jobs'[j].attempts = jobs[j].attempts /\ jobs'[j].committed = jobs[j].committed
    /\ \/ jobs'[j].status = jobs[j].status \/ jobs'[j].status = "cancelled"
       \/ jobs[j].status = "active" /\ jobs'[j].status = "completed"

\* add(), cancel(), a claim that only completes a job, and time.
LEMMA StoreKept ==
    ASSUME TypeInv, StoreInv, runs' = runs, now' \in Nat, now' >= now,
           DOMAIN jobs \subseteq DOMAIN jobs', \A j \in DOMAIN jobs : RowKept(j),
           \A j \in DOMAIN jobs' \ DOMAIN jobs : j \in Jobs /\ jobs'[j].runCount = 0 /\ jobs'[j].attempts = 0 /\ jobs'[j].committed = 0
    PROVE  StoreInv'
<1>1. \A j : RunsOf(j)' = RunsOf(j) /\ Slots(j)' = Slots(j)
    BY DEF RunsOf, Slots
<1>2. Amounts' = Amounts
    BY DEF Amounts
<1>3. ASSUME NEW j \in DOMAIN jobs PROVE CountsOK(j)' /\ SlotOK(j)'
    <2>1. RowKept(j) /\ CountsOK(j) /\ SlotOK(j)
        BY DEF StoreInv
    <2>2. CountsOK(j)'
        BY <1>1, <1>2, <2>1 DEF CountsOK, RowKept
    <2>3. SlotOK(j)'
        <3>1. jobs'[j].attempts # 0 => Slots(j) # {}
            BY <2>1 DEF SlotOK, RowKept
        <3>2. jobs'[j].status = "active" /\ jobs'[j].attempts # 0 =>
                 \A r \in RunsOf(j) : (\A t \in Slots(j) : t <= r) => runs[r].outcome = "unpaid"
            BY <2>1 DEF SlotOK, RowKept
        <3>3. jobs'[j].attempts = 0 => \A r \in RunsOf(j), t \in Nat : t >= jobs'[j].nextAt => WindowAt(j, runs[r].at) < WindowAt(j, t)
            BY <2>1 DEF SlotOK, RowKept
        <3> QED
            BY <1>1, <3>1, <3>2, <3>3 DEF SlotOK, WindowAt
    <2> QED
        BY <2>2, <2>3
<1>4. ASSUME NEW j \in DOMAIN jobs' \ DOMAIN jobs PROVE CountsOK(j)' /\ SlotOK(j)'
    <2>1. j \in Jobs /\ jobs'[j].runCount = 0 /\ jobs'[j].attempts = 0 /\ jobs'[j].committed = 0
        OBVIOUS
    <2>2. RunsOf(j) = {}
        BY RowTypes DEF RunsOf
    <2>3. Slots(j) = {}
        BY <2>2 DEF Slots
    <2>4. Cardinality(Slots(j)) = 0 /\ SumFunctionOnSet(Amounts, RunsOf(j)) = 0
        BY <2>2, <2>3, SumEmpty, FS_EmptySet
    <2>5. Terms[j].maxAttempts \in Nat \ {0} /\ Terms[j].maxRuns \in Nat /\ Terms[j].maxTotal \in Nat
        BY <2>1, TermsType
    <2>6. CountsOK(j)'
        BY <1>1, <1>2, <2>1, <2>4, <2>5 DEF CountsOK
    <2>7. SlotOK(j)'
        BY <1>1, <2>1, <2>2 DEF SlotOK
    <2> QED
        BY <2>6, <2>7
<1>5. ASSUME NEW r \in DOMAIN runs PROVE RunOK(r)'
    <2> DEFINE j == runs[r].job
    <2>1. RunOK(r) /\ j \in DOMAIN jobs /\ RowKept(j)
        BY RowTypes DEF StoreInv
    <2>2. runs[r].at \in Terms[j].startsAt .. now'
        <3>1. Terms[j].startsAt \in Nat /\ now \in Nat
            BY <2>1, RowTypes, TermsType
        <3> QED
            BY <2>1, <3>1 DEF RunOK
    <2>3. ~runs[r].finished => jobs'[j].status \in {"paused", "cancelled"} /\ jobs'[j].attempts # 0
        BY <2>1 DEF RunOK, RowKept
    <2> QED
        BY <1>1, <2>1, <2>2, <2>3 DEF RunOK
<1>6. ASSUME NEW r \in DOMAIN runs, NEW q \in DOMAIN runs PROVE PairOK(r, q)'
    <2>1. PairOK(r, q)
        BY DEF StoreInv
    <2> QED
        BY <1>1, <2>1 DEF PairOK, WindowAt
<1> QED
    BY <1>3, <1>4, <1>5, <1>6 DEF StoreInv

\* claim() that takes a slot.
LEMMA StoreTake ==
    ASSUME TypeInv, StoreInv, NEW j \in DOMAIN jobs, Due(j), ~Exhausted(j), TakeSlot(j), now' = now
    PROVE  StoreInv'
<1>0. PICK n : n = Len(runs) + 1
    OBVIOUS
<1>1. /\ \A k \in DOMAIN jobs \ {j} : jobs'[k] = jobs[k]
      /\ DOMAIN jobs' = DOMAIN jobs /\ jobs'[j].status = "paused"
      /\ jobs'[j].committed = jobs[j].committed + Terms[j].maxAmount
      /\ jobs'[j].runCount = jobs[j].runCount + (IF jobs[j].attempts = 0 THEN 1 ELSE 0)
      /\ jobs'[j].attempts = jobs[j].attempts + 1
    BY <1>0, TakeFields
<1>2. /\ n \notin DOMAIN runs /\ n \in Nat /\ \A r \in DOMAIN runs : r \in Nat /\ r < n
      /\ DOMAIN runs' = DOMAIN runs \cup {n} /\ \A r \in DOMAIN runs : runs'[r] = runs[r]
    BY <1>0, TakeFields
<1>3. /\ runs'[n].job = j /\ runs'[n].at = now /\ runs'[n].attempt = jobs[j].attempts + 1
      /\ runs'[n].outcome = "unknown" /\ runs'[n].amount = Terms[j].maxAmount /\ ~runs'[n].finished
    <2>1. runs'[n] = [job |-> j, at |-> now, attempt |-> jobs[j].attempts + 1,
                      outcome |-> "unknown", amount |-> Terms[j].maxAmount, finished |-> FALSE]
        BY <1>0, TakeFields
    <2> QED
        BY <2>1
<1>4. /\ j \in Jobs /\ jobs[j].runCount \in Nat /\ jobs[j].attempts \in Nat /\ jobs[j].committed \in Nat /\ now \in Nat
      /\ jobs[j].status = "active" /\ now >= jobs[j].nextAt /\ now >= Terms[j].startsAt
    BY RowTypes DEF Due
<1>5. /\ Terms[j].maxAmount \in Nat \ {0} /\ Terms[j].maxTotal \in Nat /\ Terms[j].maxRuns \in Nat \ {0}
      /\ Terms[j].startsAt \in Nat /\ Terms[j].maxAttempts \in Nat \ {0}
    BY <1>4, TermsType
<1>6. CountsOK(j) /\ SlotOK(j)
    BY DEF StoreInv
<1>7. /\ \A k : k # j => RunsOf(k)' = RunsOf(k) /\ Slots(k)' = Slots(k)
      /\ RunsOf(j)' = RunsOf(j) \cup {n}
      /\ jobs[j].attempts = 0 => Slots(j)' = Slots(j) \cup {n}
      /\ jobs[j].attempts # 0 => Slots(j)' = Slots(j)
    <2>1. \A k : k # j => RunsOf(k)' = RunsOf(k)
        BY <1>2, <1>3 DEF RunsOf
    <2>2. \A k : k # j => Slots(k)' = Slots(k)
        BY <1>2, <2>1 DEF RunsOf, Slots
    <2>3. RunsOf(j)' = RunsOf(j) \cup {n}
        BY <1>2, <1>3 DEF RunsOf
    <2>4. jobs[j].attempts = 0 <=> runs'[n].attempt = 1
        BY <1>3, <1>4
    <2>5. runs'[n].attempt = 1 => Slots(j)' = Slots(j) \cup {n}
        BY <1>2, <2>3 DEF RunsOf, Slots
    <2>6. runs'[n].attempt # 1 => Slots(j)' = Slots(j)
        BY <1>2, <2>3 DEF RunsOf, Slots
    <2> QED
        BY <2>1, <2>2, <2>3, <2>4, <2>5, <2>6
<1>8. \A r \in DOMAIN runs : RunOK(r) /\ runs[r].job \in DOMAIN jobs
    BY RowTypes DEF StoreInv
<1>9. ASSUME NEW k \in DOMAIN jobs PROVE CountsOK(k)' /\ SlotOK(k)'
    <2>0. CountsOK(k) /\ SlotOK(k)
        BY DEF StoreInv
    <2>1. IsFiniteSet(RunsOf(k)) /\ IsFiniteSet(Slots(k)) /\ \A r \in RunsOf(k) : Amounts[r] = runs[r].amount /\ Amounts[r] \in Nat
        BY RunsFinite
    <2>2. \A r \in RunsOf(k) : Amounts'[r] = Amounts[r]
        BY <1>2 DEF RunsOf, Amounts
    <2>3. SumFunctionOnSet(Amounts', RunsOf(k)) = SumFunctionOnSet(Amounts, RunsOf(k))
        BY <2>1, <2>2, SumAgree
    <2>4. CASE k # j
        <3>1. CountsOK(k)'
            BY <1>1, <1>7, <2>0, <2>3, <2>4 DEF CountsOK
        <3>2. SlotOK(k)'
            <4>1. \A r \in RunsOf(k) : runs'[r] = runs[r]
                BY <1>2 DEF RunsOf
            <4> QED
                BY <1>1, <1>7, <2>0, <2>4, <4>1 DEF SlotOK, WindowAt
        <3> QED
            BY <3>1, <3>2
    <2>5. CASE k = j
        <3>1. jobs'[j].attempts <= Terms[j].maxAttempts /\ jobs'[j].status # "active"
            BY <1>1, <1>4, <1>5, <1>6 DEF CountsOK
        <3>2. jobs'[j].runCount = Cardinality(Slots(j)') /\ jobs'[j].runCount <= Terms[j].maxRuns
            <4>1. CASE jobs[j].attempts = 0
                <5>1. n \notin Slots(j)
                    BY <1>2 DEF Slots, RunsOf
                <5>2. Cardinality(Slots(j) \cup {n}) = Cardinality(Slots(j)) + 1
                    BY <2>1, <2>5, <5>1, FS_AddElement
                <5>3. jobs[j].runCount < Terms[j].maxRuns
                    BY <1>4, <1>5, <4>1 DEF Exhausted, SlotsUsed
                <5>4. jobs[j].runCount = Cardinality(Slots(j)) /\ jobs'[j].runCount = jobs[j].runCount + 1
                    BY <1>1, <1>6, <4>1 DEF CountsOK
                <5>5. Slots(j)' = Slots(j) \cup {n}
                    BY <1>7, <4>1
                <5>6. jobs'[j].runCount = Cardinality(Slots(j)')
                    BY <5>2, <5>4, <5>5
                <5>7. jobs'[j].runCount <= Terms[j].maxRuns
                    <6>1. jobs[j].runCount \in Nat /\ Terms[j].maxRuns \in Nat
                        BY <1>4, <1>5
                    <6> QED
                        BY <5>3, <5>4, <6>1
                <5> QED
                    BY <5>6, <5>7
            <4>2. CASE jobs[j].attempts # 0
                BY <1>1, <1>4, <1>6, <1>7, <4>2 DEF CountsOK
            <4> QED
                BY <4>1, <4>2
        <3>3. jobs'[j].committed = SumFunctionOnSet(Amounts', RunsOf(j)') /\ jobs'[j].committed <= Terms[j].maxTotal
            <4>1. n \notin RunsOf(j)
                BY <1>2 DEF RunsOf
            <4>2. Amounts'[n] = Terms[j].maxAmount
                BY <1>2, <1>3 DEF Amounts
            <4>3. \A r \in RunsOf(j) \cup {n} : Amounts'[r] \in Nat
                BY <1>5, <2>1, <2>2, <2>5, <4>2
            <4>4. SumFunctionOnSet(Amounts', RunsOf(j) \cup {n}) = SumFunctionOnSet(Amounts', RunsOf(j)) + Amounts'[n]
                BY <2>1, <2>5, <4>1, <4>3, SumAdd
            <4>5. jobs[j].committed + Terms[j].maxAmount <= Terms[j].maxTotal
                BY <1>4, <1>5 DEF Exhausted, NoRoom
            <4>6. jobs[j].committed = SumFunctionOnSet(Amounts, RunsOf(j))
                BY <1>6 DEF CountsOK
            <4> QED
                BY <1>1, <1>7, <2>3, <2>5, <4>2, <4>4, <4>5, <4>6
        <3>4. CountsOK(j)'
            BY <3>1, <3>2, <3>3 DEF CountsOK
        <3>5. Slots(j)' # {}
            BY <1>6, <1>7 DEF SlotOK
        <3>6. jobs'[j].attempts # 0
            BY <1>1, <1>4
        <3>7. SlotOK(j)'
            BY <3>1, <3>5, <3>6 DEF SlotOK
        <3> QED
            BY <2>5, <3>4, <3>7
    <2> QED
        BY <2>4, <2>5
<1>10. \A k : RunsOf(k) \subseteq RunsOf(k)' /\ Slots(k) \subseteq Slots(k)'
    BY <1>7
<1>11. ASSUME NEW r \in DOMAIN runs PROVE RunOK(r)'
    <2> DEFINE k == runs[r].job
    <2>1. RunOK(r) /\ k \in DOMAIN jobs /\ runs'[r] = runs[r]
        BY <1>2, <1>8
    <2>2. CASE k = j
        <3>1. runs[r].finished
            BY <1>4, <2>1, <2>2 DEF RunOK
        <3> QED
            BY <1>10, <2>1, <3>1 DEF RunOK
    <2>3. CASE k # j
        BY <1>1, <1>7, <2>1, <2>3 DEF RunOK
    <2> QED
        BY <2>2, <2>3
<1>12. RunOK(n)'
    <2>1. runs'[n].attempt \in 1 .. Terms[j].maxAttempts
        BY <1>3, <1>4, <1>5, <1>6 DEF CountsOK
    <2>2. \A q \in RunsOf(j)' : q <= n
        BY <1>2, <1>7 DEF RunsOf
    <2>3. \E q \in Slots(j)' : q <= n
        <3>1. PICK q \in Slots(j)' : TRUE
            BY <1>6, <1>7 DEF SlotOK
        <3>2. q \in RunsOf(j)'
            BY <3>1 DEF Slots
        <3> QED
            BY <2>2, <3>1, <3>2
    <2>4. jobs'[j].attempts # 0
        BY <1>1, <1>4
    <2>5. runs'[n].at \in Terms[j].startsAt .. now'
        BY <1>3, <1>4, <1>5
    <2> QED
        BY <1>1, <1>3, <2>1, <2>2, <2>3, <2>4, <2>5 DEF RunOK
<1>13. ASSUME NEW r \in DOMAIN runs, NEW q \in DOMAIN runs PROVE PairOK(r, q)'
    <2>1. PairOK(r, q) /\ runs'[r] = runs[r] /\ runs'[q] = runs[q]
        BY <1>2 DEF StoreInv
    <2> QED
        BY <1>10, <2>1 DEF PairOK, WindowAt
<1>14. ASSUME NEW r \in DOMAIN runs PROVE PairOK(r, n)'
    <2>1. SUFFICES ASSUME runs[r].job = j
                   PROVE  /\ (\A t \in Slots(j)' : t <= n => t <= r) => runs[r].outcome = "unpaid"
                          /\ runs'[n].attempt = 1 => WindowAt(j, runs[r].at) < WindowAt(j, now)
        BY <1>2, <1>3 DEF PairOK, WindowAt
    <2>2. r \in RunsOf(j) /\ r < n /\ r \in Nat
        BY <1>2, <2>1 DEF RunsOf
    <2>3. CASE jobs[j].attempts = 0
        <3>1. ~(\A t \in Slots(j)' : t <= n => t <= r)
            BY <1>2, <1>7, <2>2, <2>3
        <3> QED
            BY <1>4, <1>6, <2>2, <2>3, <3>1 DEF SlotOK
    <2>4. CASE jobs[j].attempts # 0
        <3>1. runs'[n].attempt # 1
            BY <1>3, <1>4, <2>4
        <3>2. \A t \in Slots(j) : t <= n
            BY <1>2 DEF Slots, RunsOf
        <3> QED
            BY <1>4, <1>6, <1>7, <2>2, <2>4, <3>1, <3>2 DEF SlotOK
    <2> QED
        BY <2>3, <2>4
<1>15. \A q \in DOMAIN runs' : PairOK(n, q)'
    BY <1>2 DEF PairOK
<1> QED
    BY <1>1, <1>2, <1>9, <1>11, <1>12, <1>13, <1>14, <1>15 DEF StoreInv

\* The reservation of an open run is part of its job's total, and the result only lowers it.
LEMMA FinishAmounts ==
    ASSUME TypeInv, StoreInv, NEW r \in DOMAIN runs, NEW res \in Result, FinishRun(r, res)
    PROVE  /\ FinalAmount(r, res) \in Nat /\ FinalAmount(r, res) <= runs[r].amount
           /\ CommittedAfter(r, res) \in Nat /\ CommittedAfter(r, res) <= jobs[runs[r].job].committed
<1> DEFINE j == runs[r].job
           rest == SumFunctionOnSet(Amounts, RunsOf(j) \ {r})
           final == FinalAmount(r, res)
<1>1. /\ j \in DOMAIN jobs /\ j \in Jobs /\ runs[r].amount \in Nat /\ jobs[j].committed \in Nat
      /\ ~runs[r].finished /\ (res.outcome = "paid" => res.amount \in 1 .. Terms[j].maxAmount)
    BY RowTypes DEF FinishRun
<1>2. RunOK(r) /\ CountsOK(j)
    BY <1>1 DEF StoreInv
<1>3. runs[r].amount = Terms[j].maxAmount
    BY <1>1, <1>2 DEF RunOK
<1>4. final \in Nat /\ final <= runs[r].amount
    <2>1. Terms[j].maxAmount \in Nat
        BY <1>1, TermsType
    <2>2. CASE res.outcome = "paid"
        BY <1>1, <1>3, <2>1, <2>2 DEF FinalAmount
    <2>3. CASE res.outcome = "unpaid"
        BY <1>1, <2>3 DEF FinalAmount
    <2>4. CASE res.outcome \notin {"paid", "unpaid"}
        BY <1>1, <2>4 DEF FinalAmount
    <2> QED
        BY <2>2, <2>3, <2>4
<1>5. r \in RunsOf(j)
    BY DEF RunsOf
<1>6. IsFiniteSet(RunsOf(j)) /\ \A q \in RunsOf(j) : Amounts[q] = runs[q].amount /\ Amounts[q] \in Nat
    BY RunsFinite
<1>7. jobs[j].committed = runs[r].amount + rest
    <2>1. jobs[j].committed = SumFunctionOnSet(Amounts, RunsOf(j))
        BY <1>2 DEF CountsOK
    <2>2. SumFunctionOnSet(Amounts, RunsOf(j)) = Amounts[r] + rest
        BY <1>5, <1>6, SumStep
    <2> QED
        BY <1>5, <1>6, <2>1, <2>2
<1>8. rest \in Nat
    <2>1. IsFiniteSet(RunsOf(j) \ {r})
        BY <1>6, FS_Subset
    <2> QED
        BY <1>6, <2>1, SumType
<1>9. CommittedAfter(r, res) = jobs[j].committed - runs[r].amount + final
    BY DEF CommittedAfter
<1> HIDE DEF final, rest, j
<1>10. jobs[j].committed - runs[r].amount + final \in Nat /\ jobs[j].committed - runs[r].amount + final <= jobs[j].committed
    BY <1>1, <1>4, <1>7, <1>8
<1> QED
    BY <1>4, <1>9, <1>10 DEF final, j

\* finish().
LEMMA StoreFinish ==
    ASSUME TypeInv, StoreInv, NEW r \in DOMAIN runs, NEW res \in Result, FinishRun(r, res), now' = now
    PROVE  StoreInv'
<1>0. PICK j : j = runs[r].job
    OBVIOUS
<1>1. /\ FinalAmount(r, res) \in Nat /\ FinalAmount(r, res) <= runs[r].amount
      /\ CommittedAfter(r, res) \in Nat /\ CommittedAfter(r, res) <= jobs[j].committed
      /\ CommittedAfter(r, res) = jobs[j].committed - runs[r].amount + FinalAmount(r, res)
    BY <1>0, FinishAmounts DEF CommittedAfter
<1>2. RunOK(r) /\ j \in DOMAIN jobs /\ j \in Jobs /\ now \in Nat /\ CountsOK(j) /\ SlotOK(j)
    BY <1>0, RowTypes DEF StoreInv
<1>3. Terms[j].startsAt \in Nat /\ Terms[j].maxTotal \in Nat /\ Terms[j].maxAttempts \in Nat \ {0} /\ Terms[j].interval \in Nat \ {0}
    BY <1>2, TermsType
<1>4. runs[r].at \in Nat /\ runs[r].at >= Terms[j].startsAt /\ now >= Terms[j].startsAt /\ runs[r].amount \in Nat
    <2>1. runs[r].at \in Terms[j].startsAt .. now
        BY <1>0, <1>2 DEF RunOK
    <2>2. runs[r].at \in Nat /\ runs[r].amount \in Nat
        BY RowTypes
    <2> QED
        BY <1>2, <1>3, <2>1, <2>2
<1>5. /\ DOMAIN jobs' = DOMAIN jobs /\ \A k \in DOMAIN jobs \ {j} : jobs'[k] = jobs[k]
      /\ jobs'[j].status = "active" => res.outcome = "paid" \/ MayRetry(j, res)
      /\ res.outcome = "paid" => jobs'[j].nextAt = NextSlot(j)
      /\ jobs'[j].attempts = IF res.outcome = "paid" THEN 0 ELSE jobs[j].attempts
      /\ jobs'[j].runCount = jobs[j].runCount
      /\ jobs'[j].committed = CommittedAfter(r, res)
      /\ ~runs[r].finished
    BY <1>0, <1>1, <1>4, FinishFields
<1>6. /\ DOMAIN runs' = DOMAIN runs /\ \A q \in DOMAIN runs \ {r} : runs'[q] = runs[q]
      /\ runs'[r].job = j /\ runs'[r].at = runs[r].at /\ runs'[r].attempt = runs[r].attempt
      /\ runs'[r].outcome = res.outcome /\ runs'[r].finished /\ runs'[r].amount = FinalAmount(r, res)
    BY <1>0, <1>1, <1>4, FinishFields
<1>7. /\ runs[r].amount = Terms[j].maxAmount /\ jobs[j].attempts # 0 /\ jobs[j].attempts \in Nat
      /\ \A q \in RunsOf(j) : q <= r
    BY <1>0, <1>2, <1>5, RowTypes DEF RunOK
<1>8. /\ \A q \in DOMAIN runs : runs'[q].job = runs[q].job /\ runs'[q].at = runs[q].at /\ runs'[q].attempt = runs[q].attempt
    BY <1>0, <1>6
<1>9. \A k : RunsOf(k)' = RunsOf(k) /\ Slots(k)' = Slots(k)
    <2>1. \A k : RunsOf(k)' = RunsOf(k)
        BY <1>6, <1>8 DEF RunsOf
    <2> QED
        BY <1>8, <2>1 DEF Slots, RunsOf
<1>10. ASSUME NEW k \in DOMAIN jobs PROVE CountsOK(k)' /\ SlotOK(k)'
    <2>0. CountsOK(k) /\ SlotOK(k)
        BY DEF StoreInv
    <2>1. IsFiniteSet(RunsOf(k)) /\ \A q \in RunsOf(k) : Amounts[q] = runs[q].amount /\ Amounts[q] \in Nat
        BY RunsFinite
    <2>2. \A q \in RunsOf(k) \ {r} : Amounts'[q] = Amounts[q]
        BY <1>6 DEF RunsOf, Amounts
    <2>3. CASE k # j
        <3>0. r \notin RunsOf(k)
            BY <1>0, <2>3 DEF RunsOf
        <3>1. SumFunctionOnSet(Amounts', RunsOf(k)) = SumFunctionOnSet(Amounts, RunsOf(k))
            BY <2>1, <2>2, <3>0, SumAgree
        <3>2. CountsOK(k)'
            BY <1>5, <1>9, <2>0, <2>3, <3>1 DEF CountsOK
        <3>3. \A q \in RunsOf(k) : runs'[q] = runs[q]
            BY <1>6, <3>0 DEF RunsOf
        <3>4. SlotOK(k)'
            BY <1>5, <1>9, <2>0, <2>3, <3>3 DEF SlotOK, WindowAt
        <3> QED
            BY <3>2, <3>4
    <2>4. CASE k = j
        <3>1. jobs'[j].attempts <= Terms[j].maxAttempts /\ (jobs'[j].status = "active" => jobs'[j].attempts < Terms[j].maxAttempts)
            <4>1. CASE res.outcome = "paid"
                BY <1>3, <1>5, <4>1
            <4>2. CASE res.outcome # "paid"
                BY <1>2, <1>5, <4>2 DEF MayRetry, CountsOK
            <4> QED
                BY <4>1, <4>2
        <3>2. jobs'[j].committed = SumFunctionOnSet(Amounts', RunsOf(j)) /\ jobs'[j].committed <= Terms[j].maxTotal
            <4>1. r \in RunsOf(j)
                BY <1>0 DEF RunsOf
            <4>2. Amounts'[r] = FinalAmount(r, res) /\ Amounts[r] = runs[r].amount
                BY <1>6 DEF Amounts
            <4>3. \A q \in RunsOf(j) : Amounts[q] \in Nat /\ Amounts'[q] \in Nat
                BY <1>1, <2>1, <2>2, <2>4, <4>2
            <4>4. SumFunctionOnSet(Amounts', RunsOf(j)) = SumFunctionOnSet(Amounts, RunsOf(j)) - Amounts[r] + Amounts'[r]
                BY <2>1, <2>2, <2>4, <4>1, <4>3, SumUpdate
            <4>5. jobs[j].committed = SumFunctionOnSet(Amounts, RunsOf(j)) /\ jobs[j].committed <= Terms[j].maxTotal
                BY <1>2 DEF CountsOK
            <4>6. jobs[j].committed \in Nat
                BY <1>2, RowTypes
            <4> QED
                BY <1>1, <1>3, <1>5, <4>2, <4>4, <4>5, <4>6
        <3>3. CountsOK(j)'
            BY <1>2, <1>5, <1>9, <3>1, <3>2 DEF CountsOK
        <3>4. Slots(j) # {}
            BY <1>2, <1>7 DEF SlotOK
        <3>5. ASSUME jobs'[j].status = "active", jobs'[j].attempts # 0, NEW q \in RunsOf(j), \A t \in Slots(j) : t <= q
              PROVE  runs'[q].outcome = "unpaid"
            <4>1. res.outcome = "unpaid"
                BY <1>5, <3>5 DEF MayRetry
            <4>2. CASE q = r
                BY <1>6, <4>1, <4>2
            <4>3. CASE q # r
                <5>1. q \in DOMAIN runs /\ runs[q].job = runs[r].job /\ q < r
                    <6>1. q \in DOMAIN runs /\ q \in Nat /\ r \in Nat /\ runs[q].job = j /\ q <= r
                        BY <1>7, RowTypes DEF RunsOf
                    <6> QED
                        BY <1>0, <4>3, <6>1
                <5>2. PairOK(q, r)
                    BY <5>1 DEF StoreInv
                <5>3. runs[q].outcome = "unpaid"
                    BY <1>0, <3>5, <5>1, <5>2 DEF PairOK
                <5> QED
                    BY <1>6, <4>3, <5>1, <5>3
            <4> QED
                BY <4>2, <4>3
        <3>6. ASSUME jobs'[j].attempts = 0, NEW q \in RunsOf(j), NEW t \in Nat, t >= jobs'[j].nextAt
              PROVE  WindowAt(j, runs'[q].at) < WindowAt(j, t)
            <4>1. res.outcome = "paid" /\ jobs'[j].nextAt = NextSlot(j)
                BY <1>5, <1>7, <3>6
            <4>2. NextSlot(j) \in Nat /\ WindowAt(j, now) < WindowAt(j, t)
                BY <1>2, <1>4, <3>6, <4>1, NextSlotLater
            <4>3. q \in DOMAIN runs /\ runs[q].job = j /\ runs[q].at \in Nat
                BY RowTypes DEF RunsOf
            <4>4. runs[q].at \in Terms[j].startsAt .. now
                BY <4>3 DEF StoreInv, RunOK
            <4>5. WindowAt(j, runs[q].at) <= WindowAt(j, now)
                <5>1. /\ runs[q].at - Terms[j].startsAt \in Nat /\ now - Terms[j].startsAt \in Nat
                      /\ runs[q].at - Terms[j].startsAt <= now - Terms[j].startsAt
                    BY <1>2, <1>3, <4>3, <4>4
                <5> QED
                    BY <1>3, <5>1, DivMonotone DEF WindowAt
            <4>6. WindowAt(j, runs[q].at) \in Int /\ WindowAt(j, now) \in Int /\ WindowAt(j, t) \in Int
                BY <1>2, <1>3, <4>3 DEF WindowAt
            <4> QED
                BY <1>8, <4>2, <4>3, <4>5, <4>6
        <3>7. SlotOK(j)'
            <4>1. \A q \in RunsOf(j), t \in Nat : jobs'[j].attempts = 0 /\ t >= jobs'[j].nextAt => WindowAt(j, runs'[q].at) < WindowAt(j, t)
                BY <3>6
            <4> QED
                BY <1>9, <3>4, <3>5, <4>1 DEF SlotOK, WindowAt
        <3> QED
            BY <2>4, <3>3, <3>7
    <2> QED
        BY <2>3, <2>4
<1>11. ASSUME NEW q \in DOMAIN runs PROVE RunOK(q)'
    <2>0. RunOK(q) /\ runs[q].job \in DOMAIN jobs /\ q \in Nat /\ r \in Nat
        BY RowTypes DEF StoreInv
    <2>1. CASE q = r
        <3>1. runs'[r].outcome = "unknown" => runs'[r].amount = Terms[j].maxAmount
            BY <1>6, <1>7 DEF FinalAmount
        <3> QED
            BY <1>0, <1>6, <1>8, <1>9, <2>0, <2>1, <3>1 DEF RunOK
    <2>2. CASE q # r /\ runs[q].job = j
        <3>1. q \in RunsOf(j) /\ r \in RunsOf(j)
            BY <1>0, <2>2 DEF RunsOf
        <3>2. runs[q].finished
            <4>1. ~runs[q].finished => r <= q
                BY <2>0, <2>2, <3>1 DEF RunOK
            <4> QED
                BY <1>7, <2>0, <2>2, <3>1, <4>1
        <3> QED
            BY <1>6, <1>9, <2>0, <2>2, <3>2 DEF RunOK
    <2>3. CASE q # r /\ runs[q].job # j
        <3>1. jobs'[runs[q].job] = jobs[runs[q].job] /\ runs'[q] = runs[q]
            BY <1>5, <1>6, <2>0, <2>3
        <3> QED
            BY <1>9, <2>0, <3>1 DEF RunOK
    <2> QED
        BY <2>1, <2>2, <2>3
<1>12. ASSUME NEW p \in DOMAIN runs, NEW q \in DOMAIN runs PROVE PairOK(p, q)'
    <2>1. SUFFICES ASSUME p < q, runs[p].job = runs[q].job PROVE PairOK(p, q)'
        BY <1>8 DEF PairOK
    <2>2. p # r
        <3>1. p \in Nat /\ q \in Nat /\ r \in Nat
            BY RowTypes
        <3>2. p = r => q \in RunsOf(j)
            BY <1>0, <2>1 DEF RunsOf
        <3> QED
            BY <1>7, <2>1, <3>1, <3>2
    <2>3. PairOK(p, q) /\ runs'[p] = runs[p]
        BY <1>6, <2>2 DEF StoreInv
    <2> QED
        BY <1>8, <1>9, <2>3 DEF PairOK, WindowAt
<1> QED
    BY <1>5, <1>6, <1>10, <1>11, <1>12 DEF StoreInv

-----------------------------------------------------------------------------
(* Runs in progress and their money.                                       *)

\* One worker changes.
OnlyWorker(w, v) == worker' = [u \in Workers |-> IF u = w THEN v ELSE worker[u]]

\* A step of one worker that touches neither runs nor headers.
LEMMA MoneyMoved ==
    ASSUME MoneyInv, NEW w \in Workers, NEW v, OnlyWorker(w, v), runs' = runs, wire' = wire, charged' = charged,
           Held(v), v.pc \in Busy => worker[w].pc \in Busy /\ v.run = worker[w].run
    PROVE  MoneyInv'
<1>1. worker'[w] = v /\ \A u \in Workers \ {w} : worker'[u] = worker[u]
    BY DEF OnlyWorker
<1>2. \A h \in wire : HeaderOK(h)'
    BY DEF MoneyInv, HeaderOK
<1>3. \A r \in DOMAIN runs : ChargeOK(r)'
    BY DEF MoneyInv, ChargeOK
<1>4. ASSUME NEW u \in Workers PROVE Held(worker[u])'
    <2>1. PICK x : x = worker'[u]
        OBVIOUS
    <2>2. Held(x)
        BY <1>1, <2>1 DEF MoneyInv
    <2>3. Held(x)'
        BY <2>2 DEF Held, Quiet
    <2> QED
        BY <2>1, <2>3
<1>5. Distinct'
    BY <1>1 DEF MoneyInv, Distinct
<1> QED
    BY <1>2, <1>3, <1>4, <1>5 DEF MoneyInv

\* claim() that takes a slot: the worker holds the new run, which nobody has seen.
LEMMA MoneyTake ==
    ASSUME TypeInv, MoneyInv, NEW j \in DOMAIN jobs, TakeSlot(j), wire' = wire,
           NEW w \in Workers, NEW v, OnlyWorker(w, v), v.run = Len(runs) + 1,
           v.pc = "offer" \/ (v.pc = "result" /\ v.result.outcome = "unpaid")
    PROVE  MoneyInv'
<1>0. PICK n : n = Len(runs) + 1
    OBVIOUS
<1>1. worker'[w] = v /\ \A u \in Workers \ {w} : worker'[u] = worker[u]
    BY DEF OnlyWorker
<1>2. /\ n \notin DOMAIN runs /\ DOMAIN runs' = DOMAIN runs \cup {n} /\ \A r \in DOMAIN runs : runs'[r] = runs[r] /\ charged'[r] = charged[r]
      /\ charged'[n] = 0
    BY <1>0, TakeFields
<1>3. runs'[n].outcome = "unknown" /\ runs'[n].amount = Terms[j].maxAmount /\ ~runs'[n].finished
    <2>1. runs'[n] = [job |-> j, at |-> now, attempt |-> jobs[j].attempts + 1,
                      outcome |-> "unknown", amount |-> Terms[j].maxAmount, finished |-> FALSE]
        BY <1>0, TakeFields
    <2> QED
        BY <2>1
<1>4. Terms[j].maxAmount \in Nat
    BY TermsType DEF TypeInv
<1>5. \A h \in wire : h.run \in DOMAIN runs /\ h.run # n
    BY <1>2 DEF TypeInv
<1>6. ASSUME NEW h \in wire PROVE HeaderOK(h)'
    <2>1. HeaderOK(h) /\ runs'[h.run] = runs[h.run] /\ charged'[h.run] = charged[h.run]
        BY <1>2, <1>5 DEF MoneyInv
    <2> QED
        BY <2>1 DEF HeaderOK
<1>7. ASSUME NEW r \in DOMAIN runs PROVE ChargeOK(r)'
    <2>1. ChargeOK(r) /\ runs'[r] = runs[r] /\ charged'[r] = charged[r]
        BY <1>2 DEF MoneyInv
    <2> QED
        BY <2>1 DEF ChargeOK
<1>8. ChargeOK(n)'
    BY <1>2, <1>3, <1>4 DEF ChargeOK
<1>9. ASSUME NEW u \in Workers PROVE Held(worker[u])'
    <2>1. PICK x : x = worker'[u]
        OBVIOUS
    <2>2. CASE u = w
        <3>1. x = v /\ x.run = n
            BY <1>0, <1>1, <2>1, <2>2
        <3>2. Quiet(n)'
            BY <1>2, <1>5 DEF Quiet
        <3>3. Held(x)'
            BY <1>2, <1>3, <3>1, <3>2 DEF Held
        <3> QED
            BY <2>1, <3>3
    <2>3. CASE u # w
        <3>1. Held(x)
            BY <1>1, <2>1, <2>3 DEF MoneyInv
        <3>2. x.pc \in Busy => runs'[x.run] = runs[x.run] /\ charged'[x.run] = charged[x.run] /\ x.run \in DOMAIN runs'
            BY <1>2, <3>1 DEF Held
        <3>3. Held(x)'
            BY <3>1, <3>2 DEF Held, Quiet
        <3> QED
            BY <2>1, <3>3
    <2> QED
        BY <2>2, <2>3
<1>10. Distinct'
    <2>1. \A u \in Workers \ {w} : worker[u].pc \in Busy => worker[u].run # n
        BY <1>2 DEF MoneyInv, Held
    <2> QED
        BY <1>0, <1>1, <2>1 DEF MoneyInv, Distinct
<1> QED
    BY <1>2, <1>6, <1>7, <1>8, <1>9, <1>10 DEF MoneyInv

\* finish(): a result is written that agrees with what the chain did or may still do.
LEMMA MoneyFinish ==
    ASSUME TypeInv, StoreInv, MoneyInv, NEW w \in Workers, NEW v, worker[w].pc = "result",
           FinishRun(worker[w].run, worker[w].result), wire' = wire, charged' = charged,
           OnlyWorker(w, v), v.pc = "ticking"
    PROVE  MoneyInv'
<1>0. PICK r, res : r = worker[w].run /\ res = worker[w].result
    OBVIOUS
<1>1. worker'[w] = v /\ \A u \in Workers \ {w} : worker'[u] = worker[u]
    BY DEF OnlyWorker
<1>2. /\ r \in DOMAIN runs /\ ~runs[r].finished /\ res \in Result /\ FinishRun(r, res)
      /\ res.outcome = "unpaid" => Quiet(r)
      /\ res.outcome = "paid" => res.amount = charged[r] /\ \A h \in wire : h.run # r
    <2>1. Held(worker[w])
        BY DEF MoneyInv
    <2>2. worker[w] \in Worker
        BY DEF TypeInv
    <2>3. res \in Result
        BY <1>0, <2>2 DEF Worker
    <2> QED
        BY <1>0, <2>1, <2>3 DEF Held, Busy
<1>3. RunOK(r) /\ ChargeOK(r) /\ runs[r].job \in DOMAIN jobs /\ runs[r].job \in Jobs
    BY <1>2, RowTypes DEF StoreInv, MoneyInv
<1>4. now >= Terms[runs[r].job].startsAt
    <2>1. runs[r].at \in Nat /\ now \in Nat /\ Terms[runs[r].job].startsAt \in Nat
        BY <1>2, <1>3, RowTypes, TermsType
    <2> QED
        BY <1>3, <2>1 DEF RunOK
<1>5. /\ DOMAIN runs' = DOMAIN runs /\ \A q \in DOMAIN runs \ {r} : runs'[q] = runs[q]
      /\ runs'[r].job = runs[r].job /\ runs'[r].outcome = res.outcome /\ runs'[r].amount = FinalAmount(r, res)
    <2>1. CommittedAfter(r, res) \in Nat
        BY <1>2, FinishAmounts
    <2> QED
        BY <1>2, <1>4, <2>1, FinishFields
<1>6. ASSUME NEW h \in wire PROVE HeaderOK(h)'
    <2>1. HeaderOK(h) /\ h.run \in DOMAIN runs
        BY DEF MoneyInv, TypeInv
    <2>2. runs'[h.run].outcome = "unknown" /\ runs'[h.run].job = runs[h.run].job
        <3>1. CASE h.run # r
            BY <1>5, <2>1, <3>1 DEF HeaderOK
        <3>2. CASE h.run = r
            <4>1. res.outcome = "unknown"
                BY <1>2, <3>2 DEF Quiet, Result
            <4> QED
                BY <1>5, <3>2, <4>1
        <3> QED
            BY <3>1, <3>2
    <2> QED
        BY <2>1, <2>2 DEF HeaderOK
<1>7. ASSUME NEW q \in DOMAIN runs PROVE ChargeOK(q)'
    <2>1. CASE q # r
        BY <1>5, <2>1 DEF MoneyInv, ChargeOK
    <2>2. CASE q = r
        <3>1. CASE res.outcome = "paid"
            <4>1. FinalAmount(r, res) = charged[r] /\ res.amount \in Nat
                BY <1>2, <3>1 DEF FinalAmount, Result
            <4> QED
                BY <1>2, <1>5, <2>2, <3>1, <4>1 DEF ChargeOK
        <3>2. CASE res.outcome = "unpaid"
            <4>1. FinalAmount(r, res) = 0 /\ charged[r] = 0
                BY <1>2, <3>2 DEF FinalAmount, Quiet
            <4> QED
                BY <1>5, <2>2, <3>2, <4>1 DEF ChargeOK
        <3>3. CASE res.outcome = "unknown"
            <4>1. FinalAmount(r, res) = runs[r].amount
                BY <3>3 DEF FinalAmount
            <4> QED
                BY <1>3, <1>5, <2>2, <3>3, <4>1 DEF ChargeOK
        <3> QED
            BY <1>2, <3>1, <3>2, <3>3 DEF Result
    <2> QED
        BY <2>1, <2>2
<1>8. ASSUME NEW u \in Workers PROVE Held(worker[u])'
    <2>1. PICK x : x = worker'[u]
        OBVIOUS
    <2>2. CASE u = w
        <3>1. Held(x)'
            BY <1>1, <2>1, <2>2 DEF Held, Busy
        <3> QED
            BY <2>1, <3>1
    <2>3. CASE u # w
        <3>1. Held(x) /\ x = worker[u]
            BY <1>1, <2>1, <2>3 DEF MoneyInv
        <3>2. x.pc \in Busy => x.run # r
            BY <1>0, <2>3, <3>1 DEF MoneyInv, Distinct, Busy
        <3>3. x.pc \in Busy => runs'[x.run] = runs[x.run] /\ x.run \in DOMAIN runs'
            BY <1>5, <3>1, <3>2 DEF Held
        <3>4. Held(x)'
            BY <3>1, <3>3 DEF Held, Quiet
        <3> QED
            BY <2>1, <3>4
    <2> QED
        BY <2>2, <2>3
<1>9. Distinct'
    BY <1>1 DEF MoneyInv, Distinct, Busy
<1> QED
    BY <1>5, <1>6, <1>7, <1>8, <1>9 DEF MoneyInv

\* A header goes out: the only one of its run.
LEMMA MoneySend ==
    ASSUME TypeInv, StoreInv, MoneyInv, NEW w \in Workers, NEW v, worker[w].pc = "signing",
           OnlyWorker(w, v), v.pc = "sent", v.run = worker[w].run, v.offer = worker[w].offer,
           wire' = wire \cup {[run |-> worker[w].run, amount |-> worker[w].offer]}, runs' = runs, charged' = charged
    PROVE  MoneyInv'
<1>0. PICK r, a, n : r = worker[w].run /\ a = worker[w].offer /\ n = [run |-> r, amount |-> a]
    OBVIOUS
<1>1. worker'[w] = v /\ \A u \in Workers \ {w} : worker'[u] = worker[u]
    BY DEF OnlyWorker
<1>2. r \in DOMAIN runs /\ ~runs[r].finished /\ Quiet(r) /\ a \in 1 .. Terms[runs[r].job].maxAmount
    BY <1>0 DEF MoneyInv, Held, Busy
<1>3. runs[r].outcome = "unknown"
    BY <1>2 DEF StoreInv, RunOK
<1>4. wire' = wire \cup {n} /\ n.run = r /\ n.amount = a
    BY <1>0
<1>5. ASSUME NEW h \in wire PROVE HeaderOK(h)'
    <2>1. HeaderOK(h) /\ h.run # r
        BY <1>2 DEF MoneyInv, Quiet
    <2> QED
        BY <1>4, <2>1 DEF HeaderOK
<1>6. HeaderOK(n)'
    BY <1>2, <1>3, <1>4 DEF HeaderOK, Quiet
<1>7. \A q \in DOMAIN runs : ChargeOK(q)'
    BY DEF MoneyInv, ChargeOK
<1>8. ASSUME NEW u \in Workers PROVE Held(worker[u])'
    <2>1. PICK x : x = worker'[u]
        OBVIOUS
    <2>2. CASE u = w
        <3>1. x.pc = "sent" /\ x.run = r /\ x.offer = a
            BY <1>0, <1>1, <2>1, <2>2
        <3>2. Held(x)'
            BY <1>2, <1>4, <3>1 DEF Held, Quiet
        <3> QED
            BY <2>1, <3>2
    <2>3. CASE u # w
        <3>1. Held(x) /\ x = worker[u]
            BY <1>1, <2>1, <2>3 DEF MoneyInv
        <3>2. x.pc \in Busy => x.run # r
            BY <1>0, <2>3, <3>1 DEF MoneyInv, Distinct, Busy
        <3>3. Held(x)'
            BY <1>4, <3>1, <3>2 DEF Held, Quiet
        <3> QED
            BY <2>1, <3>3
    <2> QED
        BY <2>2, <2>3
<1>9. Distinct'
    <2>1. v.pc \in Busy => worker[w].pc \in Busy
        BY DEF Busy
    <2> QED
        BY <1>1, <2>1 DEF MoneyInv, Distinct
<1> QED
    BY <1>4, <1>5, <1>6, <1>7, <1>8, <1>9 DEF MoneyInv

\* A header is settled.
LEMMA MoneySettle ==
    ASSUME TypeInv, StoreInv, MoneyInv, NEW h \in wire, wire' = wire \ {h},
           charged' = [charged EXCEPT ![h.run] = h.amount], runs' = runs, worker' = worker
    PROVE  MoneyInv'
<1>0. PICK r : r = h.run
    OBVIOUS
<1>1. HeaderOK(h) /\ r \in DOMAIN runs /\ DOMAIN charged = DOMAIN runs
    BY <1>0 DEF MoneyInv, TypeInv
<1>2. charged'[r] = h.amount /\ \A q \in DOMAIN runs \ {r} : charged'[q] = charged[q]
    BY <1>0, <1>1
<1>3. ASSUME NEW g \in wire' PROVE HeaderOK(g)'
    <2>1. g \in wire /\ g # h /\ HeaderOK(g) /\ g.run \in DOMAIN runs
        BY DEF MoneyInv, TypeInv
    <2>2. g.run # r
        BY <1>0, <1>1, <2>1 DEF HeaderOK
    <2> QED
        BY <1>2, <2>1, <2>2 DEF HeaderOK
<1>4. ASSUME NEW q \in DOMAIN runs PROVE ChargeOK(q)'
    <2>1. CASE q = r
        <3>1. runs[r].outcome = "unknown" /\ h.amount <= Terms[runs[r].job].maxAmount
            <4>1. runs[r].job \in Jobs
                BY <1>1, RowTypes
            <4> QED
                BY <1>0, <1>1, <4>1, TermsType DEF HeaderOK
        <3>2. runs[r].amount = Terms[runs[r].job].maxAmount
            BY <1>1, <3>1 DEF StoreInv, RunOK
        <3> QED
            BY <1>2, <2>1, <3>1, <3>2 DEF ChargeOK
    <2>2. CASE q # r
        BY <1>2, <2>2 DEF MoneyInv, ChargeOK
    <2> QED
        BY <2>1, <2>2
<1>5. ASSUME NEW u \in Workers PROVE Held(worker[u])'
    <2>1. PICK x : x = worker[u]
        OBVIOUS
    <2>2. Held(x)
        BY <2>1 DEF MoneyInv
    <2>3. CASE x.pc \in Busy /\ x.run = r
        <3>1. x.pc \notin {"offer", "signing"} /\ (x.pc = "result" => x.result.outcome \notin {"unpaid", "paid"})
            BY <1>0, <2>2, <2>3 DEF Held, Quiet
        <3>2. x.pc = "sent" => h.amount = x.offer
            BY <1>0, <2>2, <2>3 DEF Held
        <3> QED
            <4>1. Held(x)'
                BY <1>2, <2>2, <2>3, <3>1, <3>2 DEF Held
            <4> QED
                BY <2>1, <4>1
    <2>4. CASE x.pc \in Busy /\ x.run # r
        <3>1. charged'[x.run] = charged[x.run]
            BY <1>2, <2>2, <2>4 DEF Held
        <3>2. Held(x)'
            BY <2>2, <3>1 DEF Held, Quiet
        <3> QED
            BY <2>1, <3>2
    <2>5. CASE x.pc \notin Busy
        BY <2>1, <2>5 DEF Held, Busy
    <2> QED
        BY <2>3, <2>4, <2>5
<1>6. Distinct'
    BY DEF MoneyInv, Distinct
<1> QED
    BY <1>3, <1>4, <1>5, <1>6 DEF MoneyInv

\* A header comes to nothing.
LEMMA MoneyLapse ==
    ASSUME MoneyInv, NEW h \in wire, wire' = wire \ {h}, charged' = charged, runs' = runs, worker' = worker
    PROVE  MoneyInv'
<1>1. \A g \in wire' : HeaderOK(g)'
    BY DEF MoneyInv, HeaderOK
<1>2. \A q \in DOMAIN runs : ChargeOK(q)'
    BY DEF MoneyInv, ChargeOK
<1>3. ASSUME NEW u \in Workers PROVE Held(worker[u])'
    <2>1. PICK x : x = worker[u]
        OBVIOUS
    <2>2. Held(x)
        BY <2>1 DEF MoneyInv
    <2>3. Held(x)'
        BY <2>2 DEF Held, Quiet
    <2> QED
        BY <2>1, <2>3
<1>4. Distinct'
    BY DEF MoneyInv, Distinct
<1> QED
    BY <1>1, <1>2, <1>3, <1>4 DEF MoneyInv

-----------------------------------------------------------------------------
(* The actions.                                                            *)

LEMMA TypeMoved ==
    ASSUME TypeInv, NEW w \in Workers, NEW v \in Worker, OnlyWorker(w, v),
           \A k \in DOMAIN v.todo : v.todo[k] \in DOMAIN jobs,
           jobs' = jobs, runs' = runs, charged' = charged, now' = now,
           wire' \subseteq [run : DOMAIN runs, amount : Nat], crashes' \in 0 .. MaxCrashes
    PROVE  TypeInv'
<1>1. worker'[w] = v /\ \A u \in Workers \ {w} : worker'[u] = worker[u]
    BY DEF OnlyWorker
<1>2. worker' \in [Workers -> Worker]
    BY DEF OnlyWorker, TypeInv
<1>3. \A u \in Workers : \A k \in DOMAIN worker'[u].todo : worker'[u].todo[k] \in DOMAIN jobs
    BY <1>1 DEF TypeInv
<1> QED
    BY <1>2, <1>3 DEF TypeInv

\* A step of one worker that leaves the store, the wire and the chain alone.
LEMMA Moved ==
    ASSUME IInv, NEW w \in Workers, NEW v \in Worker, OnlyWorker(w, v),
           \A k \in DOMAIN v.todo : v.todo[k] \in DOMAIN jobs,
           jobs' = jobs, runs' = runs, wire' = wire, charged' = charged, now' = now, crashes' \in 0 .. MaxCrashes,
           Held(v), v.pc \in Busy => worker[w].pc \in Busy /\ v.run = worker[w].run
    PROVE  IInv'
<1>1. TypeInv /\ StoreInv /\ MoneyInv
    BY DEF IInv
<1>2. TypeInv'
    <2>1. wire' \subseteq [run : DOMAIN runs, amount : Nat]
        BY <1>1 DEF TypeInv
    <2> QED
        BY <1>1, <2>1, TypeMoved
<1>3. StoreInv'
    <2>1. now \in Nat /\ \A j \in DOMAIN jobs : RowKept(j)
        BY <1>1, RowTypes DEF RowKept
    <2> QED
        BY <1>1, <2>1, StoreKept
<1>4. MoneyInv'
    BY <1>1, MoneyMoved
<1> QED
    BY <1>2, <1>3, <1>4 DEF IInv

\* The rows a worker's step starts from.
LEMMA WorkerTypes ==
    ASSUME TypeInv, NEW w \in Workers
    PROVE  /\ worker \in [Workers -> Worker] /\ worker[w] \in Worker
           /\ worker[w].todo \in Seq(Jobs) /\ worker[w].run \in Nat /\ worker[w].offer \in Nat /\ worker[w].result \in Result
           /\ \A k \in DOMAIN worker[w].todo : worker[w].todo[k] \in DOMAIN jobs
           /\ crashes \in 0 .. MaxCrashes
<1>1. worker \in [Workers -> Worker] /\ worker[w] \in Worker
    BY DEF TypeInv
<1> QED
    BY <1>1 DEF TypeInv, Worker

\* A worker whose row changes in its program counter and its result.
LEMMA Decided ==
    ASSUME IInv, NEW w \in Workers, NEW res \in Result, Decide(w, res), worker[w].pc \in Busy,
           UNCHANGED <<storeVars, wire, charged, now, crashes>>,
           res.outcome = "unpaid" => Quiet(worker[w].run),
           res.outcome = "paid" => /\ worker[w].pc = "sent" /\ res.amount = worker[w].offer
                                   /\ charged[worker[w].run] = worker[w].offer
                                   /\ \A h \in wire : h.run # worker[w].run
    PROVE  IInv'
<1>0. PICK v : v = [worker[w] EXCEPT !.pc = "result", !.result = res]
    OBVIOUS
<1>1. TypeInv /\ MoneyInv /\ Held(worker[w])
    BY DEF IInv, MoneyInv
<1>2. worker \in [Workers -> Worker] /\ worker[w] \in Worker /\ crashes \in 0 .. MaxCrashes /\ \A k \in DOMAIN worker[w].todo : worker[w].todo[k] \in DOMAIN jobs
    BY <1>1, WorkerTypes
<1>3. v \in Worker /\ v.pc = "result" /\ v.result = res /\ v.todo = worker[w].todo /\ v.run = worker[w].run
    BY <1>0, <1>2 DEF Worker
<1>4. OnlyWorker(w, v)
    BY <1>0, <1>2 DEF OnlyWorker, Decide, Worker
<1>5. Held(v)
    <2>1. v.run \in DOMAIN runs /\ ~runs[v.run].finished
        BY <1>1, <1>3 DEF Held
    <2>2. res.outcome = "paid" => worker[w].offer \in 1 .. Terms[runs[v.run].job].maxAmount
        BY <1>1, <1>3 DEF Held
    <2> QED
        BY <1>3, <2>1, <2>2 DEF Held
<1> QED
    BY <1>2, <1>3, <1>4, <1>5, Moved DEF storeVars

LEMMA ResultTypes ==
    /\ Unknown \in Result /\ Unknown.outcome = "unknown"
    /\ \A b \in BOOLEAN : Unpaid(b) \in Result /\ Unpaid(b).outcome = "unpaid"
    /\ \A a \in Nat : Paid(a) \in Result /\ Paid(a).outcome = "paid" /\ Paid(a).amount = a
BY DEF Unknown, Unpaid, Paid, Result

LEMMA DecideSteps ==
    ASSUME IInv, NEW w \in Workers,
           NoOffer(w) \/ Denied(w) \/ AnswerPaid(w) \/ AnswerUnavailable(w) \/ AnswerUnknown(w)
    PROVE  IInv'
<1>0. TypeInv /\ StoreInv /\ MoneyInv /\ Held(worker[w]) /\ worker[w].offer \in Nat
    BY WorkerTypes DEF IInv, MoneyInv
<1>1. CASE NoOffer(w)
    <2>1. worker[w].pc = "offer" /\ Decide(w, Unpaid(TRUE)) /\ UNCHANGED <<storeVars, wire, charged, now, crashes>>
        BY <1>1 DEF NoOffer
    <2>2. Quiet(worker[w].run)
        BY <1>0, <2>1 DEF Held, Busy
    <2> QED
        BY <2>1, <2>2, ResultTypes, Decided DEF Busy
<1>2. CASE Denied(w)
    <2>1. worker[w].pc \in {"offer", "signing"} /\ Decide(w, Unpaid(FALSE)) /\ UNCHANGED <<storeVars, wire, charged, now, crashes>>
        BY <1>2 DEF Denied
    <2>2. Quiet(worker[w].run)
        BY <1>0, <2>1 DEF Held, Busy
    <2> QED
        BY <2>1, <2>2, ResultTypes, Decided DEF Busy
<1>3. CASE AnswerPaid(w)
    <2>1. /\ worker[w].pc = "sent" /\ charged[worker[w].run] > 0
          /\ Decide(w, Paid(worker[w].offer)) /\ UNCHANGED <<storeVars, wire, charged, now, crashes>>
        BY <1>3 DEF AnswerPaid
    <2>2. charged[worker[w].run] = worker[w].offer
        BY <1>0, <2>1 DEF Held, Busy
    <2>3. \A h \in wire : h.run # worker[w].run
        BY <1>0, <2>1 DEF MoneyInv, HeaderOK
    <2>4. PICK res : res = Paid(worker[w].offer)
        OBVIOUS
    <2>5. res \in Result /\ res.outcome = "paid" /\ res.amount = worker[w].offer /\ Decide(w, res)
        BY <1>0, <2>1, <2>4, ResultTypes
    <2>6. worker[w].pc \in Busy
        BY <2>1 DEF Busy
    <2> QED
        BY <2>1, <2>2, <2>3, <2>5, <2>6, Decided
<1>4. CASE AnswerUnavailable(w)
    <2>1. /\ worker[w].pc = "sent" /\ Quiet(worker[w].run)
          /\ Decide(w, Unpaid(TRUE)) /\ UNCHANGED <<storeVars, wire, charged, now, crashes>>
        BY <1>4 DEF AnswerUnavailable, Quiet
    <2> QED
        BY <2>1, ResultTypes, Decided DEF Busy
<1>5. CASE AnswerUnknown(w)
    <2>1. /\ worker[w].pc \in {"offer", "signing", "sent"}
          /\ Decide(w, Unknown) /\ UNCHANGED <<storeVars, wire, charged, now, crashes>>
        BY <1>5 DEF AnswerUnknown
    <2> QED
        BY <2>1, ResultTypes, Decided DEF Busy
<1> QED
    BY <1>1, <1>2, <1>3, <1>4, <1>5

\* The loop's own steps, deaths and restarts.
LEMMA LoopSteps ==
    ASSUME IInv, NEW w \in Workers, StartTick(w) \/ EndTick(w) \/ Stop(w) \/ Crash(w) \/ Restart(w)
    PROVE  IInv'
<1>0. TypeInv /\ MoneyInv /\ Held(worker[w])
    BY DEF IInv, MoneyInv
<1>1. worker \in [Workers -> Worker] /\ worker[w] \in Worker /\ crashes \in 0 .. MaxCrashes /\ \A k \in DOMAIN worker[w].todo : worker[w].todo[k] \in DOMAIN jobs
    BY <1>0, WorkerTypes
<1>2. FreshWorker \in Worker /\ FreshWorker.pc = "idle" /\ DOMAIN FreshWorker.todo = {}
    BY DEF FreshWorker, Worker, Result, Unknown
<1>3. CASE StartTick(w)
    <2>1. PICK s \in Listings : worker' = [worker EXCEPT ![w].pc = "ticking", ![w].todo = s]
        BY <1>3 DEF StartTick
    <2>2. s \in Seq(Jobs) /\ \A k \in DOMAIN s : s[k] \in DOMAIN jobs
        <3>1. Cardinality(DOMAIN jobs) \in Nat /\ DOMAIN jobs \subseteq Jobs
            BY <1>0, FS_CardinalityType DEF TypeInv
        <3>2. s \in [1 .. Cardinality(DOMAIN jobs) -> DOMAIN jobs]
            BY DEF Listings
        <3> QED
            BY <3>1, <3>2
    <2>3. PICK v : v = [worker[w] EXCEPT !.pc = "ticking", !.todo = s]
        OBVIOUS
    <2>4. v \in Worker /\ v.pc = "ticking" /\ v.todo = s
        BY <1>1, <2>2, <2>3 DEF Worker
    <2>5. OnlyWorker(w, v)
        BY <1>1, <2>1, <2>3 DEF OnlyWorker, Worker
    <2>6. Held(v) /\ v.pc \notin Busy
        BY <2>4 DEF Held, Busy
    <2>7. UNCHANGED <<storeVars, wire, charged, now, crashes>>
        BY <1>3 DEF StartTick
    <2> QED
        BY <1>1, <2>2, <2>4, <2>5, <2>6, <2>7, Moved DEF storeVars
<1>4. CASE EndTick(w)
    <2>1. PICK p \in {"idle", "down"} : worker' = [worker EXCEPT ![w].pc = p]
        BY <1>4 DEF EndTick
    <2>3. PICK v : v = [worker[w] EXCEPT !.pc = p]
        OBVIOUS
    <2>4. v \in Worker /\ v.pc = p /\ v.todo = worker[w].todo
        BY <1>1, <2>3 DEF Worker
    <2>5. OnlyWorker(w, v)
        BY <1>1, <2>1, <2>3 DEF OnlyWorker, Worker
    <2>6. Held(v) /\ v.pc \notin Busy
        BY <2>4 DEF Held, Busy
    <2>7. UNCHANGED <<storeVars, wire, charged, now, crashes>>
        BY <1>4 DEF EndTick
    <2> QED
        BY <1>1, <2>4, <2>5, <2>6, <2>7, Moved DEF storeVars
<1>5. CASE Stop(w)
    <2>1. PICK p : p = IF worker[w].pc = "idle" THEN "down" ELSE worker[w].pc
        OBVIOUS
    <2>2. worker' = [worker EXCEPT ![w].running = FALSE, ![w].pc = IF @ = "idle" THEN "down" ELSE @]
        BY <1>5 DEF Stop
    <2>3. PICK v : v = [worker[w] EXCEPT !.running = FALSE, !.pc = p]
        OBVIOUS
    <2>4. v \in Worker /\ v.pc = p /\ v.todo = worker[w].todo /\ v.run = worker[w].run /\ v.offer = worker[w].offer /\ v.result = worker[w].result
        BY <1>1, <2>1, <2>3 DEF Worker
    <2>5. OnlyWorker(w, v)
        BY <1>1, <2>1, <2>2, <2>3 DEF OnlyWorker, Worker
    <2>6. v.pc \in Busy => v.pc = worker[w].pc
        BY <2>1, <2>4 DEF Busy
    <2>7. Held(v)
        BY <1>0, <2>4, <2>6 DEF Held
    <2>8. UNCHANGED <<storeVars, wire, charged, now, crashes>>
        BY <1>5 DEF Stop
    <2> QED
        BY <1>1, <2>4, <2>5, <2>6, <2>7, <2>8, Moved DEF storeVars
<1>6. CASE Crash(w)
    <2>1. PICK v : v = [FreshWorker EXCEPT !.pc = "down"]
        OBVIOUS
    <2>2. v \in Worker /\ v.pc = "down" /\ DOMAIN v.todo = {}
        BY <1>2, <2>1 DEF Worker
    <2>3. OnlyWorker(w, v)
        BY <1>1, <1>6, <2>1 DEF OnlyWorker, Crash
    <2>4. Held(v) /\ v.pc \notin Busy
        BY <2>2 DEF Held, Busy
    <2>5. UNCHANGED <<storeVars, wire, charged, now>> /\ crashes' \in 0 .. MaxCrashes
        BY <1>1, <1>6, SchedulerAssumption DEF Crash
    <2> QED
        BY <2>2, <2>3, <2>4, <2>5, Moved DEF storeVars
<1>7. CASE Restart(w)
    <2>1. OnlyWorker(w, FreshWorker)
        BY <1>1, <1>7 DEF OnlyWorker, Restart
    <2>2. Held(FreshWorker) /\ FreshWorker.pc \notin Busy
        BY <1>2 DEF Held, Busy
    <2>3. UNCHANGED <<storeVars, wire, charged, now, crashes>>
        BY <1>7 DEF Restart
    <2> QED
        BY <1>1, <1>2, <2>1, <2>2, <2>3, Moved DEF storeVars
<1> QED
    BY <1>3, <1>4, <1>5, <1>6, <1>7

LEMMA AcceptStep == ASSUME IInv, NEW w \in Workers, AcceptOffer(w) PROVE IInv'
<1>0. TypeInv /\ MoneyInv /\ Held(worker[w])
    BY DEF IInv, MoneyInv
<1>1. worker \in [Workers -> Worker] /\ worker[w] \in Worker /\ crashes \in 0 .. MaxCrashes /\ \A k \in DOMAIN worker[w].todo : worker[w].todo[k] \in DOMAIN jobs
    BY <1>0, WorkerTypes
<1>2. PICK a \in Offers : a <= Terms[JobOf(w)].maxAmount /\ worker' = [worker EXCEPT ![w].pc = "signing", ![w].offer = a]
    BY DEF AcceptOffer
<1>3. worker[w].pc = "offer" /\ UNCHANGED <<storeVars, wire, charged, now, crashes>>
    BY DEF AcceptOffer
<1>4. a \in Nat \ {0}
    BY SchedulerAssumption
<1>5. PICK v : v = [worker[w] EXCEPT !.pc = "signing", !.offer = a]
    OBVIOUS
<1>6. v \in Worker /\ v.pc = "signing" /\ v.todo = worker[w].todo /\ v.run = worker[w].run /\ v.offer = a
    BY <1>1, <1>4, <1>5 DEF Worker
<1>7. OnlyWorker(w, v)
    BY <1>1, <1>2, <1>5 DEF OnlyWorker, Worker
<1>8. Held(v)
    <2>1. v.run \in DOMAIN runs /\ ~runs[v.run].finished /\ Quiet(v.run)
        BY <1>0, <1>3, <1>6 DEF Held, Busy
    <2>2. Terms[runs[v.run].job].maxAmount \in Nat
        BY <1>0, <2>1, RowTypes, TermsType
    <2>3. v.offer \in 1 .. Terms[runs[v.run].job].maxAmount
        BY <1>2, <1>4, <1>6, <2>2 DEF JobOf
    <2> QED
        BY <1>6, <2>1, <2>3 DEF Held
<1>9. worker[w].pc \in Busy
    BY <1>3 DEF Busy
<1> QED
    BY <1>1, <1>3, <1>6, <1>7, <1>8, <1>9, Moved DEF storeVars

LEMMA SendStep == ASSUME IInv, NEW w \in Workers, SendHeader(w) PROVE IInv'
<1>0. TypeInv /\ StoreInv /\ MoneyInv /\ Held(worker[w])
    BY DEF IInv, MoneyInv
<1>1. /\ worker \in [Workers -> Worker] /\ worker[w] \in Worker /\ crashes \in 0 .. MaxCrashes
      /\ worker[w].offer \in Nat /\ \A k \in DOMAIN worker[w].todo : worker[w].todo[k] \in DOMAIN jobs
    BY <1>0, WorkerTypes
<1>2. /\ worker[w].pc = "signing" /\ UNCHANGED <<storeVars, charged, now, crashes>>
      /\ wire' = wire \cup {[run |-> worker[w].run, amount |-> worker[w].offer]}
      /\ worker' = [worker EXCEPT ![w].pc = "sent"]
    BY DEF SendHeader
<1>3. PICK v : v = [worker[w] EXCEPT !.pc = "sent"]
    OBVIOUS
<1>4. v \in Worker /\ v.pc = "sent" /\ v.todo = worker[w].todo /\ v.run = worker[w].run /\ v.offer = worker[w].offer
    BY <1>1, <1>3 DEF Worker
<1>5. OnlyWorker(w, v)
    BY <1>1, <1>2, <1>3 DEF OnlyWorker, Worker
<1>6. worker[w].run \in DOMAIN runs
    BY <1>0, <1>2 DEF Held, Busy
<1>7. wire' \subseteq [run : DOMAIN runs, amount : Nat]
    BY <1>0, <1>1, <1>2, <1>6 DEF TypeInv
<1>8. TypeInv'
    BY <1>0, <1>1, <1>2, <1>4, <1>5, <1>7, TypeMoved DEF storeVars
<1>9. StoreInv'
    <2>1. now \in Nat /\ jobs' = jobs /\ runs' = runs /\ now' = now
        BY <1>0, <1>2, RowTypes DEF storeVars
    <2>2. \A j \in DOMAIN jobs : RowKept(j)
        BY <2>1 DEF RowKept
    <2> QED
        BY <1>0, <2>1, <2>2, StoreKept
<1>10. MoneyInv'
    BY <1>0, <1>2, <1>4, <1>5, MoneySend DEF storeVars
<1> QED
    BY <1>8, <1>9, <1>10 DEF IInv

\* The wire's own steps, local management, and time.
LEMMA WireSteps == ASSUME IInv, NEW h \in wire, Settle(h) \/ Lapse(h) PROVE IInv'
<1>0. TypeInv /\ StoreInv /\ MoneyInv
    BY DEF IInv
<1>1. wire' = wire \ {h} /\ jobs' = jobs /\ runs' = runs /\ worker' = worker /\ now' = now /\ crashes' = crashes
    BY DEF Settle, Lapse, storeVars
<1>2. h.run \in DOMAIN runs /\ h.amount \in Nat /\ charged \in Seq(Nat) /\ DOMAIN charged = DOMAIN runs
    BY <1>0 DEF TypeInv
<1>3. charged' \in Seq(Nat) /\ DOMAIN charged' = DOMAIN charged
    <2>1. CASE Settle(h)
        BY <1>2, <2>1 DEF Settle
    <2>2. CASE Lapse(h)
        BY <1>2, <2>2 DEF Lapse
    <2> QED
        BY <2>1, <2>2
<1>4. TypeInv'
    BY <1>0, <1>1, <1>2, <1>3 DEF TypeInv
<1>5. StoreInv'
    <2>1. now \in Nat /\ \A j \in DOMAIN jobs : RowKept(j)
        BY <1>0, <1>1, RowTypes DEF RowKept
    <2> QED
        BY <1>0, <1>1, <2>1, StoreKept
<1>6. MoneyInv'
    BY <1>0, <1>1, MoneySettle, MoneyLapse DEF Settle, Lapse
<1> QED
    BY <1>4, <1>5, <1>6 DEF IInv

\* A change of the jobs or of the time that no run sees.
LEMMA MoneyStutter ==
    ASSUME MoneyInv, runs' = runs, wire' = wire, charged' = charged, worker' = worker PROVE MoneyInv'
<1>1. \A h \in wire : HeaderOK(h)'
    BY DEF MoneyInv, HeaderOK
<1>2. \A q \in DOMAIN runs : ChargeOK(q)'
    BY DEF MoneyInv, ChargeOK
<1>3. \A u \in Workers : Held(worker[u])'
    BY DEF MoneyInv, Held, Quiet
<1>4. Distinct'
    BY DEF MoneyInv, Distinct
<1> QED
    BY <1>1, <1>2, <1>3, <1>4 DEF MoneyInv

\* One job's status is written.
LEMMA StatusFields ==
    ASSUME TypeInv, NEW j \in DOMAIN jobs, NEW s \in Statuses, jobs' = [jobs EXCEPT ![j].status = s]
    PROVE  /\ jobs' \in [DOMAIN jobs -> JobRow] /\ DOMAIN jobs' = DOMAIN jobs
           /\ \A k \in DOMAIN jobs \ {j} : jobs'[k] = jobs[k]
           /\ jobs'[j].status = s /\ jobs'[j].nextAt = jobs[j].nextAt /\ jobs'[j].runCount = jobs[j].runCount
           /\ jobs'[j].attempts = jobs[j].attempts /\ jobs'[j].committed = jobs[j].committed
<1>1. jobs \in [DOMAIN jobs -> JobRow] /\ jobs[j] \in JobRow
    BY DEF TypeInv
<1>2. jobs'[j] = [jobs[j] EXCEPT !.status = s]
    BY <1>1
<1> QED
    BY <1>1, <1>2 DEF JobRow

LEMMA StoreSteps == ASSUME IInv, Advance \/ \E j \in Jobs : Add(j) \/ Cancel(j) PROVE IInv'
<1>0. TypeInv /\ StoreInv /\ MoneyInv /\ now \in Nat
    BY RowTypes DEF IInv
<1>1. runs' = runs /\ worker' = worker /\ wire' = wire /\ charged' = charged /\ crashes' = crashes
    BY DEF Advance, Add, Cancel, storeVars
<1>2. MoneyInv'
    BY <1>0, <1>1, MoneyStutter
<1>3. CASE Advance
    <2>1. jobs' = jobs /\ now' \in 0 .. MaxTime /\ now' \in Nat /\ now' >= now
        BY <1>0, <1>3, SchedulerAssumption DEF Advance, storeVars
    <2>2. TypeInv'
        BY <1>0, <1>1, <2>1 DEF TypeInv
    <2>3. \A j \in DOMAIN jobs : RowKept(j)
        BY <2>1 DEF RowKept
    <2>4. StoreInv'
        BY <1>0, <1>1, <2>1, <2>3, StoreKept
    <2> QED
        BY <1>2, <2>2, <2>4 DEF IInv
<1>4. ASSUME NEW j \in Jobs, Add(j) PROVE IInv'
    <2> DEFINE row == [status |-> "active", nextAt |-> Terms[j].startsAt, runCount |-> 0, attempts |-> 0, committed |-> 0]
    <2>1. j \notin DOMAIN jobs /\ now' = now /\ jobs' = [k \in DOMAIN jobs \cup {j} |-> IF k = j THEN row ELSE jobs[k]]
        BY <1>4 DEF Add
    <2>2. row \in JobRow /\ row.runCount = 0 /\ row.attempts = 0 /\ row.committed = 0
        BY TermsType DEF JobRow, Statuses
    <2> HIDE DEF row
    <2>3. DOMAIN jobs' = DOMAIN jobs \cup {j} /\ jobs'[j] = row /\ \A k \in DOMAIN jobs : jobs'[k] = jobs[k]
        BY <2>1
    <2>4. jobs' \in [DOMAIN jobs' -> JobRow] /\ DOMAIN jobs' \subseteq Jobs
        BY <1>0, <2>1, <2>2, <2>3 DEF TypeInv
    <2>5. IsFiniteSet(DOMAIN jobs')
        <3>1. IsFiniteSet(DOMAIN jobs)
            BY <1>0 DEF TypeInv
        <3>2. IsFiniteSet(DOMAIN jobs \cup {j})
            BY <3>1, FS_AddElement
        <3> QED
            BY <2>3, <3>2
    <2>6. TypeInv'
        BY <1>0, <1>1, <2>1, <2>3, <2>4, <2>5 DEF TypeInv
    <2>7. \A k \in DOMAIN jobs : RowKept(k)
        BY <2>3 DEF RowKept
    <2>8. StoreInv'
        BY <1>0, <1>1, <2>1, <2>2, <2>3, <2>7, StoreKept
    <2> QED
        BY <1>2, <2>6, <2>8 DEF IInv
<1>5. ASSUME NEW j \in Jobs, Cancel(j) PROVE IInv'
    <2>1. j \in DOMAIN jobs /\ now' = now /\ jobs' = [jobs EXCEPT ![j].status = "cancelled"]
        BY <1>5 DEF Cancel
    <2>2. /\ jobs' \in [DOMAIN jobs -> JobRow] /\ DOMAIN jobs' = DOMAIN jobs
          /\ \A k \in DOMAIN jobs \ {j} : jobs'[k] = jobs[k]
          /\ jobs'[j].status = "cancelled" /\ jobs'[j].nextAt = jobs[j].nextAt /\ jobs'[j].runCount = jobs[j].runCount
          /\ jobs'[j].attempts = jobs[j].attempts /\ jobs'[j].committed = jobs[j].committed
        <3>1. "cancelled" \in Statuses
            BY DEF Statuses
        <3> QED
            BY <1>0, <2>1, <3>1, StatusFields
    <2>3. \A k \in DOMAIN jobs : RowKept(k)
        BY <2>2 DEF RowKept
    <2>4. TypeInv'
        BY <1>0, <1>1, <2>1, <2>2 DEF TypeInv
    <2>5. StoreInv'
        BY <1>0, <1>1, <2>1, <2>2, <2>3, StoreKept
    <2> QED
        BY <1>2, <2>4, <2>5 DEF IInv
<1> QED
    BY <1>3, <1>4, <1>5

\* The jobs a worker still has to look at, after the first.
LEMMA TodoTail ==
    ASSUME TypeInv, NEW w \in Workers, worker[w].todo # <<>>
    PROVE  /\ Head(worker[w].todo) \in DOMAIN jobs /\ Tail(worker[w].todo) \in Seq(Jobs)
           /\ \A k \in DOMAIN Tail(worker[w].todo) : Tail(worker[w].todo)[k] \in DOMAIN jobs
<1>1. PICK s : s = worker[w].todo
    OBVIOUS
<1>2. s \in Seq(Jobs) /\ s # <<>> /\ \A k \in DOMAIN s : s[k] \in DOMAIN jobs
    BY <1>1, WorkerTypes
<1>3. Len(s) \in Nat \ {0} /\ DOMAIN s = 1 .. Len(s) /\ Head(s) = s[1] /\ Tail(s) \in Seq(Jobs)
    BY <1>2
<1>4. DOMAIN Tail(s) = 1 .. Len(s) - 1 /\ \A k \in 1 .. Len(s) - 1 : Tail(s)[k] = s[k + 1]
    BY <1>2, <1>3
<1>5. \A k \in DOMAIN Tail(s) : Tail(s)[k] \in DOMAIN jobs
    BY <1>2, <1>3, <1>4
<1> QED
    BY <1>1, <1>2, <1>3, <1>5

LEMMA ClaimStep == ASSUME IInv, NEW w \in Workers, ClaimNext(w) PROVE IInv'
<1>0. TypeInv /\ StoreInv /\ MoneyInv /\ now \in Nat
    BY RowTypes DEF IInv
<1>1. worker \in [Workers -> Worker] /\ worker[w] \in Worker /\ crashes \in 0 .. MaxCrashes
    BY <1>0, WorkerTypes
<1>2. PICK j, rest : j = Head(worker[w].todo) /\ rest = [worker[w] EXCEPT !.todo = Tail(@)]
    OBVIOUS
<1>3. worker[w].pc = "ticking" /\ worker[w].todo # <<>> /\ wire' = wire /\ now' = now /\ crashes' = crashes
    BY DEF ClaimNext
<1>4. j \in DOMAIN jobs /\ Tail(worker[w].todo) \in Seq(Jobs) /\ \A k \in DOMAIN Tail(worker[w].todo) : Tail(worker[w].todo)[k] \in DOMAIN jobs
    BY <1>0, <1>2, <1>3, TodoTail
<1>5. rest \in Worker /\ rest.pc = "ticking" /\ rest.todo = Tail(worker[w].todo)
    BY <1>1, <1>2, <1>3, <1>4 DEF Worker
<1>6. Held(rest) /\ rest.pc \notin Busy
    BY <1>5 DEF Held, Busy
<1>7. \/ ~Due(j) /\ worker' = [worker EXCEPT ![w] = rest] /\ UNCHANGED <<storeVars, charged>>
      \/ /\ Due(j) /\ Exhausted(j) /\ jobs' = [jobs EXCEPT ![j].status = "completed"]
         /\ worker' = [worker EXCEPT ![w] = rest] /\ UNCHANGED <<runs, charged>>
      \/ /\ Due(j) /\ ~Exhausted(j) /\ TakeSlot(j)
         /\ worker' = [worker EXCEPT ![w] = [rest EXCEPT !.run = Len(runs) + 1,
                                                         !.pc = IF rest.running THEN "offer" ELSE "result",
                                                         !.result = Unpaid(FALSE)]]
    BY <1>2, Zenon DEF ClaimNext
<1>8. CASE ~Due(j) /\ worker' = [worker EXCEPT ![w] = rest] /\ UNCHANGED <<storeVars, charged>>
    <2>1. OnlyWorker(w, rest)
        BY <1>1, <1>8 DEF OnlyWorker
    <2> QED
        BY <1>1, <1>3, <1>4, <1>5, <1>6, <1>8, <2>1, Moved DEF storeVars
<1>9. CASE /\ Due(j) /\ Exhausted(j) /\ jobs' = [jobs EXCEPT ![j].status = "completed"]
           /\ worker' = [worker EXCEPT ![w] = rest] /\ UNCHANGED <<runs, charged>>
    <2>1. OnlyWorker(w, rest) /\ runs' = runs /\ charged' = charged
        BY <1>1, <1>9 DEF OnlyWorker
    <2>2. /\ jobs' \in [DOMAIN jobs -> JobRow] /\ DOMAIN jobs' = DOMAIN jobs
          /\ \A k \in DOMAIN jobs \ {j} : jobs'[k] = jobs[k]
          /\ jobs'[j].status = "completed" /\ jobs'[j].nextAt = jobs[j].nextAt /\ jobs'[j].runCount = jobs[j].runCount
          /\ jobs'[j].attempts = jobs[j].attempts /\ jobs'[j].committed = jobs[j].committed
        <3>1. "completed" \in Statuses
            BY DEF Statuses
        <3> QED
            BY <1>0, <1>4, <1>9, <3>1, StatusFields
    <2>3. jobs[j].status = "active"
        BY <1>9 DEF Due
    <2>4. \A k \in DOMAIN jobs : RowKept(k)
        BY <2>2, <2>3 DEF RowKept
    <2>5. StoreInv'
        BY <1>0, <1>3, <2>1, <2>2, <2>4, StoreKept
    <2>6. MoneyInv'
        BY <1>0, <1>3, <1>6, <2>1, MoneyMoved
    <2>7. worker' \in [Workers -> Worker] /\ worker'[w] = rest /\ \A u \in Workers \ {w} : worker'[u] = worker[u]
        BY <1>1, <1>5, <2>1 DEF OnlyWorker
    <2>8. \A u \in Workers : \A k \in DOMAIN worker'[u].todo : worker'[u].todo[k] \in DOMAIN jobs
        BY <1>0, <1>4, <1>5, <2>7 DEF TypeInv
    <2>9. TypeInv'
        BY <1>0, <1>3, <2>1, <2>2, <2>7, <2>8 DEF TypeInv
    <2> QED
        BY <2>5, <2>6, <2>9 DEF IInv
<1>10. CASE /\ Due(j) /\ ~Exhausted(j) /\ TakeSlot(j)
            /\ worker' = [worker EXCEPT ![w] = [rest EXCEPT !.run = Len(runs) + 1,
                                                            !.pc = IF rest.running THEN "offer" ELSE "result",
                                                            !.result = Unpaid(FALSE)]]
    <2>1. PICK n, p, v : /\ n = Len(runs) + 1 /\ p = IF rest.running THEN "offer" ELSE "result"
                         /\ v = [rest EXCEPT !.run = n, !.pc = p, !.result = Unpaid(FALSE)]
        OBVIOUS
    <2>2. OnlyWorker(w, v)
        BY <1>1, <1>10, <2>1 DEF OnlyWorker
    <2>3. Unpaid(FALSE) \in Result /\ Unpaid(FALSE).outcome = "unpaid"
        BY ResultTypes
    <2>4. /\ jobs' \in [DOMAIN jobs -> JobRow] /\ n \in Nat /\ runs' \in Seq(RunRow) /\ DOMAIN runs' = DOMAIN runs \cup {n}
          /\ \A r \in DOMAIN runs : runs'[r] = runs[r]
          /\ charged' \in Seq(Nat) /\ DOMAIN charged' = DOMAIN runs'
        BY <1>0, <1>4, <1>10, <2>1, TakeFields
    <2>5. runs'[n].job = j
        <3>1. runs'[n] = [job |-> j, at |-> now, attempt |-> jobs[j].attempts + 1,
                          outcome |-> "unknown", amount |-> Terms[j].maxAmount, finished |-> FALSE]
            BY <1>0, <1>4, <1>10, <2>1, TakeFields
        <3> QED
            BY <3>1
    <2>6. p \in {"offer", "result"}
        BY <2>1
    <2>7. v \in Worker /\ v.run = n /\ v.pc = p /\ v.result = Unpaid(FALSE) /\ v.todo = rest.todo
        BY <1>5, <2>1, <2>3, <2>4, <2>6 DEF Worker
    <2>8. StoreInv'
        BY <1>0, <1>3, <1>4, <1>10, StoreTake
    <2>9. MoneyInv'
        BY <1>0, <1>3, <1>4, <1>10, <2>1, <2>2, <2>3, <2>6, <2>7, MoneyTake
    <2>10. worker' \in [Workers -> Worker] /\ worker'[w] = v /\ \A u \in Workers \ {w} : worker'[u] = worker[u]
        BY <1>1, <2>2, <2>7 DEF OnlyWorker
    <2>11. \A u \in Workers : \A k \in DOMAIN worker'[u].todo : worker'[u].todo[k] \in DOMAIN jobs
        BY <1>0, <1>4, <1>5, <2>7, <2>10 DEF TypeInv
    <2>12. \A r \in DOMAIN runs' : runs'[r].job \in DOMAIN jobs
        BY <1>0, <1>4, <2>4, <2>5 DEF TypeInv
    <2>13. wire \subseteq [run : DOMAIN runs', amount : Nat]
        BY <1>0, <2>4 DEF TypeInv
    <2>14. DOMAIN jobs' = DOMAIN jobs
        BY <2>4
    <2>15. TypeInv'
        BY <1>0, <1>3, <2>4, <2>10, <2>11, <2>12, <2>13, <2>14 DEF TypeInv
    <2> QED
        BY <2>8, <2>9, <2>15 DEF IInv
<1> QED
    BY <1>7, <1>8, <1>9, <1>10

LEMMA FinishStepInv == ASSUME IInv, NEW w \in Workers, FinishStep(w) PROVE IInv'
<1>0. TypeInv /\ StoreInv /\ MoneyInv /\ Held(worker[w])
    BY DEF IInv, MoneyInv
<1>1. /\ worker \in [Workers -> Worker] /\ worker[w] \in Worker /\ worker[w].result \in Result
      /\ \A k \in DOMAIN worker[w].todo : worker[w].todo[k] \in DOMAIN jobs
    BY <1>0, WorkerTypes
<1>2. PICK r, res, v : r = worker[w].run /\ res = worker[w].result /\ v = [worker[w] EXCEPT !.pc = "ticking", !.run = 0, !.offer = 0]
    OBVIOUS
<1>3. /\ worker[w].pc = "result" /\ FinishRun(r, res) /\ wire' = wire /\ charged' = charged /\ now' = now /\ crashes' = crashes
      /\ worker' = [worker EXCEPT ![w].pc = "ticking", ![w].run = 0, ![w].offer = 0]
    BY <1>2 DEF FinishStep
<1>4. r \in DOMAIN runs /\ res \in Result
    BY <1>0, <1>1, <1>2, <1>3 DEF Held, Busy
<1>5. v \in Worker /\ v.pc = "ticking" /\ v.todo = worker[w].todo
    BY <1>1, <1>2 DEF Worker
<1>6. OnlyWorker(w, v)
    BY <1>1, <1>2, <1>3 DEF OnlyWorker, Worker
<1>7. StoreInv'
    BY <1>0, <1>3, <1>4, StoreFinish
<1>8. MoneyInv'
    BY <1>0, <1>2, <1>3, <1>5, <1>6, MoneyFinish
<1>9. now >= Terms[runs[r].job].startsAt
    <2>1. runs[r].at \in Nat /\ now \in Nat /\ runs[r].job \in Jobs /\ RunOK(r)
        BY <1>0, <1>4, RowTypes DEF StoreInv
    <2>2. Terms[runs[r].job].startsAt \in Nat
        BY <2>1, TermsType
    <2> QED
        BY <2>1, <2>2 DEF RunOK
<1>10. CommittedAfter(r, res) \in Nat
    BY <1>0, <1>3, <1>4, FinishAmounts
<1>11. /\ jobs' \in [DOMAIN jobs -> JobRow] /\ runs' \in Seq(RunRow) /\ DOMAIN runs' = DOMAIN runs
       /\ \A q \in DOMAIN runs \ {r} : runs'[q] = runs[q]
       /\ runs'[r].job = runs[r].job
    BY <1>0, <1>3, <1>4, <1>9, <1>10, FinishFields
<1>12. worker' \in [Workers -> Worker] /\ worker'[w] = v /\ \A u \in Workers \ {w} : worker'[u] = worker[u]
    BY <1>1, <1>5, <1>6 DEF OnlyWorker
<1>13. \A u \in Workers : \A k \in DOMAIN worker'[u].todo : worker'[u].todo[k] \in DOMAIN jobs
    BY <1>0, <1>1, <1>5, <1>12 DEF TypeInv
<1>14. \A q \in DOMAIN runs : runs'[q].job \in DOMAIN jobs
    BY <1>0, <1>11 DEF TypeInv
<1>15. DOMAIN jobs' = DOMAIN jobs
    BY <1>11
<1>16. TypeInv'
    BY <1>0, <1>3, <1>11, <1>12, <1>13, <1>14, <1>15 DEF TypeInv
<1> QED
    BY <1>7, <1>8, <1>16 DEF IInv

LEMMA NextInv == IInv /\ [Next]_vars => IInv'
<1> SUFFICES ASSUME IInv, [Next]_vars PROVE IInv'
    OBVIOUS
<1>1. ASSUME NEW w \in Workers, Work(w) PROVE IInv'
    BY <1>1, LoopSteps, ClaimStep, FinishStepInv, DecideSteps, AcceptStep, SendStep DEF Work
<1>2. ASSUME NEW w \in Workers, Stop(w) \/ Crash(w) \/ Restart(w) PROVE IInv'
    BY <1>2, LoopSteps
<1>3. ASSUME NEW h \in wire, Settle(h) \/ Lapse(h) PROVE IInv'
    BY <1>3, WireSteps
<1>4. CASE Advance \/ \E j \in Jobs : Add(j) \/ Cancel(j)
    BY <1>4, StoreSteps
<1>5. CASE UNCHANGED vars
    <2>1. /\ jobs' = jobs /\ runs' = runs /\ worker' = worker /\ wire' = wire /\ charged' = charged
          /\ now' = now /\ crashes' = crashes
        BY <1>5 DEF vars
    <2>2. TypeInv /\ StoreInv /\ MoneyInv /\ now \in Nat
        BY RowTypes DEF IInv
    <2>3. \A j \in DOMAIN jobs : RowKept(j)
        BY <2>1 DEF RowKept
    <2>4. TypeInv'
        BY <2>1, <2>2 DEF TypeInv
    <2>5. StoreInv'
        BY <2>1, <2>2, <2>3, StoreKept
    <2>6. MoneyInv'
        BY <2>1, <2>2, MoneyStutter
    <2> QED
        BY <2>4, <2>5, <2>6 DEF IInv
<1> QED
    BY <1>1, <1>2, <1>3, <1>4, <1>5 DEF Next

\* The inductive invariant holds of every behaviour.
THEOREM Invariance == Spec => []IInv
BY InitInv, NextInv, PTL DEF Spec

-----------------------------------------------------------------------------
(* What the invariant says.                                                *)

LEMMA BooksLemma == IInv => BooksExact
<1> SUFFICES ASSUME IInv PROVE BooksExact
    OBVIOUS
<1>0. TypeInv /\ StoreInv /\ MoneyInv
    BY DEF IInv
<1>1. TypeOK
    <2>1. charged \in [DOMAIN runs -> Nat]
        BY <1>0 DEF TypeInv
    <2> QED
        BY <1>0, <2>1 DEF TypeInv, TypeOK
<1>2. CommittedExact
    BY <1>0 DEF StoreInv, CountsOK, CommittedExact, Amounts
<1>3. SlotsBounded
    <2>1. ASSUME NEW j \in DOMAIN jobs PROVE \A r \in RunsOf(j) : runs[r].attempt <= Terms[j].maxAttempts
        <3>1. Terms[j].maxAttempts \in Nat
            BY <1>0, RowTypes, TermsType
        <3> QED
            BY <1>0, <3>1 DEF RunsOf, StoreInv, RunOK
    <2> QED
        BY <1>0, <2>1 DEF StoreInv, CountsOK, SlotsBounded, Slots
<1>4. OnePerInterval
    <2> SUFFICES ASSUME NEW r \in DOMAIN runs, NEW s \in DOMAIN runs, r < s, runs[r].job = runs[s].job, runs[s].attempt = 1
                 PROVE  Window(r) < Window(s)
        BY DEF OnePerInterval
    <2>1. PairOK(r, s)
        BY <1>0 DEF StoreInv
    <2> QED
        BY <2>1 DEF PairOK, Window, WindowAt
<1>5. OpenRunHoldsJob
    <2> SUFFICES ASSUME NEW r \in DOMAIN runs, ~runs[r].finished
                 PROVE  /\ jobs[runs[r].job].status \in {"paused", "cancelled"}
                        /\ \A s \in RunsOf(runs[r].job) : ~runs[s].finished => s = r
        BY DEF OpenRunHoldsJob
    <2>1. RunOK(r) /\ r \in Nat
        BY <1>0, RowTypes DEF StoreInv
    <2>2. ASSUME NEW s \in RunsOf(runs[r].job), ~runs[s].finished PROVE s = r
        <3>1. s \in DOMAIN runs /\ runs[s].job = runs[r].job /\ r \in RunsOf(runs[s].job)
            BY DEF RunsOf
        <3>2. RunOK(s) /\ s \in Nat
            BY <1>0, <3>1, RowTypes DEF StoreInv
        <3>3. s <= r /\ r <= s
            BY <2>1, <2>2, <3>1, <3>2 DEF RunOK
        <3> QED
            BY <2>1, <3>2, <3>3
    <2> QED
        BY <2>1, <2>2 DEF RunOK
<1> QED
    BY <1>1, <1>2, <1>3, <1>4, <1>5 DEF BooksExact

LEMMA ChargesLemma == IInv => ChargesCovered
BY DEF IInv, MoneyInv, HeaderOK, ChargeOK, ChargesCovered

\* A slot starts at a run of the job that is no later, and the last such.
LEMMA SlotStartIs ==
    ASSUME IInv, NEW r \in DOMAIN runs
    PROVE  /\ SlotStart(r) \in Slots(runs[r].job) /\ SlotStart(r) <= r
           /\ \A t \in Slots(runs[r].job) : t <= r => t <= SlotStart(r)
<1> DEFINE S == {s \in RunsOf(runs[r].job) : s <= r /\ runs[s].attempt = 1}
<1>0. TypeInv /\ RunOK(r) /\ r \in Nat
    BY RowTypes DEF IInv, StoreInv
<1>1. S \in SUBSET Nat /\ \A x \in S : x <= r
    BY <1>0, RowTypes DEF RunsOf
<1>2. S = {s \in Slots(runs[r].job) : s <= r}
    BY DEF Slots
<1>3. S # {}
    BY <1>0, <1>2 DEF RunOK
<1>4. SlotStart(r) = Max(S)
    BY DEF SlotStart
<1> HIDE DEF S
<1>5. Max(S) \in S /\ \A x \in S : x <= Max(S)
    BY <1>0, <1>1, <1>3, MaxOfBounded
<1> QED
    BY <1>2, <1>4, <1>5

LEMMA SlotLemma == IInv => SlotChargedOnce
<1> SUFFICES ASSUME IInv PROVE SlotChargedOnce
    OBVIOUS
<1>0. TypeInv /\ StoreInv /\ MoneyInv
    BY DEF IInv
<1>1. ASSUME NEW r \in DOMAIN runs, NEW s \in DOMAIN runs, r < s, runs[r].job = runs[s].job, SlotStart(r) = SlotStart(s)
      PROVE  charged[r] = 0
    <2>1. PICK m : m = SlotStart(r)
        OBVIOUS
    <2>2. m \in Slots(runs[r].job) /\ m <= r /\ \A t \in Slots(runs[r].job) : t <= s => t <= m
        BY <1>1, <2>1, SlotStartIs
    <2>3. Slots(runs[r].job) \subseteq Nat /\ r \in Nat
        BY <1>0, RowTypes DEF Slots, RunsOf
    <2>4. \A t \in Slots(runs[r].job) : t <= s => t <= r
        BY <2>2, <2>3
    <2>5. runs[r].outcome = "unpaid"
        BY <1>0, <1>1, <2>4 DEF StoreInv, PairOK
    <2>6. charged[r] \in Nat
        BY <1>0 DEF TypeInv
    <2> QED
        BY <1>0, <2>5, <2>6 DEF MoneyInv, ChargeOK
<1>2. \A r, s \in DOMAIN runs : r # s => r < s \/ s < r
    BY <1>0, RowTypes
<1> QED
    BY <1>1, <1>2 DEF SlotChargedOnce

\* The scheduler's books are exact in every state: totals, slots, attempts, intervals and
\* the hold of an open run, whatever workers, deaths and retries there are.
THEOREM BooksAlwaysExact == Spec => []BooksExact
BY Invariance, BooksLemma, PTL

\* Every charge is covered by its run, and a run on file as unpaid has no header out.
THEOREM ChargesAlwaysCovered == Spec => []ChargesCovered
BY Invariance, ChargesLemma, PTL

\* However claims, deaths, restarts and retries interleave, one slot is charged at most once.
THEOREM SlotsAlwaysChargedOnce == Spec => []SlotChargedOnce
BY Invariance, SlotLemma, PTL

-----------------------------------------------------------------------------
(* Cancelling.                                                             *)

CancelStep ==
    /\ \A j \in DOMAIN jobs : jobs[j].status = "cancelled" =>
          /\ jobs'[j].status = "cancelled"
          /\ jobs'[j].runCount = jobs[j].runCount
    /\ \A h \in wire' \ wire :
          /\ jobs[runs[h.run].job].status # "cancelled"
          /\ now < Terms[runs[h.run].job].endsAt

LEMMA CancelLemma == IInv /\ [Next]_vars => CancelStep
<1> SUFFICES ASSUME IInv, [Next]_vars PROVE CancelStep
    OBVIOUS
<1>0. TypeInv /\ StoreInv /\ MoneyInv
    BY DEF IInv
<1>1. ASSUME jobs' = jobs, wire' \subseteq wire PROVE CancelStep
    BY <1>1 DEF CancelStep
<1>2. ASSUME NEW j \in Jobs, Add(j) PROVE CancelStep
    BY <1>2 DEF Add, CancelStep
<1>3. ASSUME NEW j \in Jobs, Cancel(j) PROVE CancelStep
    <2>1. j \in DOMAIN jobs /\ wire' = wire /\ jobs' = [jobs EXCEPT ![j].status = "cancelled"] /\ "cancelled" \in Statuses
        BY <1>3 DEF Cancel, Statuses
    <2>2. \A k \in DOMAIN jobs \ {j} : jobs'[k] = jobs[k]
        BY <1>0, <2>1, StatusFields
    <2>3. jobs'[j].status = "cancelled" /\ jobs'[j].runCount = jobs[j].runCount
        BY <1>0, <2>1, StatusFields
    <2> QED
        BY <2>1, <2>2, <2>3 DEF CancelStep
<1>4. ASSUME NEW w \in Workers, ClaimNext(w) PROVE CancelStep
    <2>1. PICK j : j = Head(worker[w].todo)
        OBVIOUS
    <2>2. wire' = wire /\ worker[w].todo # <<>>
        BY <1>4 DEF ClaimNext
    <2>3. j \in DOMAIN jobs
        BY <1>0, <2>1, <2>2, TodoTail
    <2>4. \/ jobs' = jobs
          \/ Due(j) /\ jobs' = [jobs EXCEPT ![j].status = "completed"]
          \/ Due(j) /\ TakeSlot(j)
        BY <1>4, <2>1, Zenon DEF ClaimNext, storeVars
    <2>5. CASE Due(j) /\ jobs' = [jobs EXCEPT ![j].status = "completed"]
        <3>1. "completed" \in Statuses
            BY DEF Statuses
        <3>2. \A k \in DOMAIN jobs \ {j} : jobs'[k] = jobs[k]
            BY <1>0, <2>3, <2>5, <3>1, StatusFields
        <3>3. jobs[j].status # "cancelled"
            BY <2>5 DEF Due
        <3> QED
            BY <2>2, <3>2, <3>3 DEF CancelStep
    <2>6. CASE Due(j) /\ TakeSlot(j)
        <3>1. \A k \in DOMAIN jobs \ {j} : jobs'[k] = jobs[k]
            BY <1>0, <2>3, <2>6, TakeFields
        <3>2. jobs[j].status # "cancelled"
            BY <2>6 DEF Due
        <3> QED
            BY <2>2, <3>1, <3>2 DEF CancelStep
    <2> QED
        BY <1>1, <2>2, <2>4, <2>5, <2>6
<1>5. ASSUME NEW w \in Workers, FinishStep(w) PROVE CancelStep
    <2>1. PICK r, res : r = worker[w].run /\ res = worker[w].result
        OBVIOUS
    <2>2. wire' = wire /\ worker[w].pc = "result" /\ FinishRun(r, res) /\ now' = now
        BY <1>5, <2>1 DEF FinishStep
    <2>3. r \in DOMAIN runs /\ res \in Result
        BY <1>0, <2>1, <2>2, WorkerTypes DEF MoneyInv, Held, Busy
    <2>4. now >= Terms[runs[r].job].startsAt
        <3>1. runs[r].at \in Nat /\ now \in Nat /\ runs[r].job \in Jobs /\ RunOK(r)
            BY <1>0, <2>3, RowTypes DEF StoreInv
        <3>2. Terms[runs[r].job].startsAt \in Nat
            BY <3>1, TermsType
        <3> QED
            BY <3>1, <3>2 DEF RunOK
    <2>5. CommittedAfter(r, res) \in Nat
        BY <1>0, <2>2, <2>3, FinishAmounts
    <2>6. PICK j : j = runs[r].job
        OBVIOUS
    <2>7. /\ \A k \in DOMAIN jobs \ {j} : jobs'[k] = jobs[k]
          /\ jobs[j].status = "cancelled" => jobs'[j].status = "cancelled"
          /\ jobs'[j].runCount = jobs[j].runCount
        BY <1>0, <2>2, <2>3, <2>4, <2>5, <2>6, FinishFields
    <2> QED
        BY <2>2, <2>7 DEF CancelStep
<1>6. ASSUME NEW w \in Workers, SendHeader(w) PROVE CancelStep
    <2>1. jobs' = jobs /\ Allowed(w) /\ \A h \in wire' \ wire : h = [run |-> worker[w].run, amount |-> worker[w].offer]
        BY <1>6 DEF SendHeader, storeVars
    <2>2. \A h \in wire' \ wire : h.run = worker[w].run
        BY <2>1
    <2> QED
        BY <2>1, <2>2 DEF CancelStep, Allowed, JobOf
<1>7. ASSUME NEW w \in Workers, StartTick(w) \/ EndTick(w) \/ Stop(w) \/ Crash(w) \/ Restart(w) \/ AcceptOffer(w) PROVE CancelStep
    BY <1>1, <1>7 DEF StartTick, EndTick, Stop, Crash, Restart, AcceptOffer, storeVars
<1>8. ASSUME NEW w \in Workers, NoOffer(w) \/ Denied(w) \/ AnswerPaid(w) \/ AnswerUnavailable(w) \/ AnswerUnknown(w) PROVE CancelStep
    BY <1>1, <1>8 DEF NoOffer, Denied, AnswerPaid, AnswerUnavailable, AnswerUnknown, storeVars
<1>9. ASSUME NEW h \in wire, Settle(h) \/ Lapse(h) PROVE CancelStep
    BY <1>1, <1>9 DEF Settle, Lapse, storeVars
<1>10. CASE Advance
    BY <1>1, <1>10 DEF Advance, storeVars
<1>11. CASE UNCHANGED vars
    BY <1>1, <1>11 DEF vars
<1> QED
    BY <1>2, <1>3, <1>4, <1>5, <1>6, <1>7, <1>8, <1>9, <1>10, <1>11 DEF Next, Work

\* A cancelled job stays cancelled, takes no slot and sends no header, in every step of
\* every behaviour; not even for a claim that was being signed as it was cancelled.
THEOREM CancelAlwaysHolds == Spec => CancelHolds
<1>1. IInv /\ [Next]_vars => [CancelStep]_vars
    BY CancelLemma
<1> QED
    BY <1>1, Invariance, PTL DEF Spec, CancelHolds, CancelStep

=============================================================================
