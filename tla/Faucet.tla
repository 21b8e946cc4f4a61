------------------------------- MODULE Faucet -------------------------------
(***************************************************************************)
(* The faucet (apps/faucet/claims.ts, apps/faucet/index.ts) over its       *)
(* SQLite ledger (packages/store/src/faucet.ts) and one node.              *)
(*                                                                         *)
(* A claim is a request r; once reserve has recorded it, r also names its  *)
(* row and, once it is signed, its transaction.  throttledHttp keeps one   *)
(* RPC outstanding in the whole process, so an action is one RPC together  *)
(* with the synchronous code that runs on its answer, and claims and the   *)
(* reconciler interleave between RPCs.  `queue` is the promise chain of    *)
(* serial(): its head is the task that runs.                               *)
(*                                                                         *)
(* Time passes in ticks of 120 s, the age at which the reconciler fails a  *)
(* reservation or sends bytes again; the day, the windows and the          *)
(* retention are counted in the same ticks.  Ages saturate.                *)
(***************************************************************************)
EXTENDS Integers, Sequences, FiniteSets, FiniteSetsExt, Functions

CONSTANTS
    Requests,       \* the requests that may arrive
    Asks,           \* what each request may ask for: kind, owner, address bucket
    Window,         \* windowOf: ticks between two claims of one owner
    Day,            \* FAUCET_LIMIT_WINDOW_MS
    Retention,      \* LEDGER_RETENTION_MS
    PerIp, PerDay,  \* FAUCET_LIMITS and ethDailyWei, as claims a day
    Funds,          \* what the wallet holds at first
    Floor,          \* minBalanceWei
    Grant,          \* FAUCET_ETH_AMOUNT_WEI
    MintFee, TransferFee, FillFee, \* gas limits at MAX_FEE_PER_GAS
    MaxFaults       \* evictions, crashes, refusals and failed or unanswered RPCs in all

ASSUME TimeAssumption ==
    /\ {Window, Day, Retention} \subseteq Nat \ {0}
    /\ Day <= Window /\ Window <= Retention

ASSUME FeeAssumption == /\ {Funds, Floor, Grant, MintFee, TransferFee, FillFee} \subseteq Nat
                        /\ FillFee <= TransferFee /\ TransferFee <= MintFee

ASSUME RequestAssumption == /\ IsFiniteSet(Requests) /\ "reconciler" \notin Requests
                            /\ \A r \in Requests : \A a \in Asks[r] : a.kind # "none"

VARIABLES
    row,        \* the ledger: faucet_claims, by request
    stage,      \* where decide() stands for each request
    queue,      \* serial(): tasks waiting for or holding the mutex
    rec,        \* the reconciler
    booted,     \* the boot reconcile is over and requests are served
    pool,       \* claims whose bytes the node holds
    fills,      \* nonces of the zero-value sends the node holds
    mined,      \* the faucet account's nonce: transactions mined
    landed,     \* what became of each claim's transaction on chain
    recent,     \* history: the owner's claims younger than Window at reserve
    misread,    \* history: claims failed because the node refused bytes it had mined
    faults      \* faults so far

vars == <<row, stage, queue, rec, booted, pool, fills, mined, landed, recent, misread, faults>>

Inflight == {"reserved", "signed", "sent"}
Signed == {"signed", "sent"}
Active == Inflight \cup {"confirmed"}
Finished == {"confirmed", "failed", "skipped"}
States == Inflight \cup Finished \cup {"none", "pruned"}

NoAsk == [kind |-> "none", owner |-> "none", ip |-> "none"]
NoRow == [state |-> "none", ask |-> NoAsk, nonce |-> -1, age |-> 0, quiet |-> FALSE]
IdleRec == [at |-> "idle", todo |-> {}, mined |-> -1, next |-> 0, taken |-> {}]
Reconciler == "reconciler"

Init ==
    /\ row = [r \in Requests |-> NoRow]
    /\ stage = [r \in Requests |-> "idle"]
    /\ queue = <<>>
    /\ rec = IdleRec
    /\ booted = FALSE
    /\ pool = {} /\ fills = {} /\ mined = 0
    /\ landed = [r \in Requests |-> "no"]
    /\ recent = [r \in Requests |-> {}] /\ misread = {}
    /\ faults = 0

chain == <<pool, fills, mined, landed>>

Fault == faults < MaxFaults /\ faults' = faults + 1
Fine == UNCHANGED faults

-----------------------------------------------------------------------------
(* The node.                                                               *)

Nonces == {row[r].nonce : r \in pool} \cup fills

\* eth_getTransactionCount(pending): the first nonce neither mined nor pooled.
PendingCount == CHOOSE n \in mined .. mined + Cardinality(Nonces) :
                    n \notin Nonces /\ \A k \in mined .. n - 1 : k \in Nonces

\* A pool holds one transaction per nonce; all are priced alike, so none replaces another.
Fits(n) == n >= mined /\ n \notin Nonces

Kind(r) == row[r].ask.kind

FillsMined == mined - Cardinality({r \in Requests : landed[r] # "no"})

Fee(k) == IF k = "eth" THEN TransferFee ELSE MintFee
Spent(r) == IF landed[r] = "no" THEN 0
            ELSE Fee(Kind(r)) + IF landed[r] = "success" /\ Kind(r) = "eth" THEN Grant ELSE 0

\* The last block's balance of the faucet wallet, at the fee cap.
Balance == Funds - SumFunctionOnSet([r \in Requests |-> Spent(r)], Requests) - FillsMined * FillFee

Mine ==
    \/ \E r \in pool, outcome \in {"success", "reverted"} :
          /\ row[r].nonce = mined
          /\ pool' = pool \ {r}
          /\ mined' = mined + 1
          /\ landed' = [landed EXCEPT ![r] = outcome]
          /\ UNCHANGED <<row, stage, queue, rec, booted, fills, recent, misread, faults>>
    \/ /\ mined \in fills
       /\ fills' = fills \ {mined}
       /\ mined' = mined + 1
       /\ UNCHANGED <<row, stage, queue, rec, booted, pool, landed, recent, misread, faults>>

Evict ==
    /\ Fault
    /\ \/ \E r \in pool : pool' = pool \ {r} /\ UNCHANGED fills
       \/ \E n \in fills : fills' = fills \ {n} /\ UNCHANGED pool
    /\ UNCHANGED <<row, stage, queue, rec, booted, mined, landed, recent, misread>>

-----------------------------------------------------------------------------
(* The ledger.                                                             *)

Move(r, from, to) == row' = IF row[r].state \in from
                            THEN [row EXCEPT ![r].state = to, ![r].quiet = FALSE]
                            ELSE row

MarkSent(r) == Move(r, Signed, "sent")
MarkConfirmed(r) == Move(r, Signed, "confirmed")
MarkFailed(r) == Move(r, Inflight, "failed")
MarkSkipped(r) == Move(r, {"reserved"}, "skipped")

\* What a receipt, if there is one, makes of the claim.
MarkReceipt(r) == IF landed[r] = "success" THEN MarkConfirmed(r) ELSE MarkFailed(r)

\* Mutant: only rows the node is known to hold count.
NextNonceMut == Max({0} \cup {row[r].nonce + 1 : r \in {q \in Requests : row[q].state \in {"sent", "confirmed"}}})

NextNonce == Max({0} \cup {row[r].nonce + 1 : r \in {q \in Requests : row[q].state \in Signed \cup {"confirmed"}}})

\* inflight(): what signed claims will still take from the wallet.
InflightWei == Grant * Cardinality({r \in Requests : row[r].state \in Signed /\ Kind(r) = "eth"})
InflightCount == Cardinality({r \in Requests : row[r].state \in Signed})

SameOwner(a) == {q \in Requests : Kind(q) = a.kind /\ row[q].ask.owner = a.owner}
Counted(a) == {q \in Requests : Kind(q) = a.kind /\ row[q].state \in Active /\ row[q].age < Day}

\* admission(): none of the owner's claims in flight or in its window, and room in the day.
Admitted(a) ==
    /\ \A q \in SameOwner(a) : row[q].state \notin Inflight
    /\ \A q \in SameOwner(a) : row[q].state \in Active => row[q].age >= Window
    /\ Cardinality({q \in Counted(a) : row[q].ask.ip = a.ip}) < PerIp[a.kind]
    /\ Cardinality(Counted(a)) < PerDay[a.kind]

-----------------------------------------------------------------------------
(* A claim: decide() and broadcast().                                      *)

Go(r, s) == stage' = [stage EXCEPT ![r] = s]

\* The kind is on, the missions hold, eligibility() passes, and reserve() admits and
\* records the claim.  The admission check before eligibility() only refuses sooner,
\* and a request refused on the way leaves nothing behind.
Reserve(r) ==
    /\ booted /\ stage[r] = "idle"
    /\ \E a \in Asks[r] :
         /\ Admitted(a)
         /\ row' = [row EXCEPT ![r].state = "reserved", ![r].ask = a]
         /\ recent' = [recent EXCEPT ![r] = {q \in SameOwner(a) : row[q].age < Window}]
    /\ Go(r, "planning")
    /\ UNCHANGED <<queue, rec, booted, misread, chain, faults>>

\* plan() reads the recipient's balance: nothing to send, something, or the read fails.
Plan(r) ==
    /\ stage[r] = "planning"
    /\ \/ MarkSkipped(r) /\ Go(r, "done") /\ UNCHANGED queue /\ Fine
       \/ Go(r, "queued") /\ queue' = Append(queue, r) /\ UNCHANGED row /\ Fine
       \/ MarkFailed(r) /\ Go(r, "done") /\ UNCHANGED queue /\ Fault
    /\ UNCHANGED <<rec, booted, recent, misread, chain>>

Holds(r, s) == stage[r] = s /\ queue # <<>> /\ Head(queue) = r

Need(k) == IF k = "eth" THEN Floor + Grant + TransferFee ELSE MintFee

\* Mutant: each claim sees the last block's balance alone.
AffordableMut(k) == Balance >= Need(k)

Affordable(k) == Balance - InflightWei - InflightCount * MintFee >= Need(k)

\* affordable(): both reads sit next to each other in the RPC queue.  An unreadable
\* or high base fee refuses as an empty wallet does.
CheckFunds(r) ==
    /\ Holds(r, "queued")
    /\ \/ Affordable(Kind(r)) /\ Go(r, "signing") /\ UNCHANGED <<row, queue>> /\ Fine
       \/ /\ IF Affordable(Kind(r)) THEN Fault ELSE Fine
          /\ MarkFailed(r) /\ Go(r, "done") /\ queue' = Tail(queue)
    /\ UNCHANGED <<rec, booted, recent, misread, chain>>

\* The nonce read, the signature and markSigned.  Nothing is sent when the read fails,
\* nor for a row the reconciler failed meanwhile.
Sign(r) ==
    /\ Holds(r, "signing")
    /\ \/ /\ row[r].state = "reserved"
          /\ row' = [row EXCEPT ![r].state = "signed", ![r].quiet = FALSE,
                                ![r].nonce = Max({PendingCount, NextNonce})]
          /\ Go(r, "sending") /\ UNCHANGED queue /\ Fine
       \/ /\ IF row[r].state = "reserved" THEN Fault ELSE Fine
          /\ MarkFailed(r) /\ Go(r, "done") /\ queue' = Tail(queue)
    /\ UNCHANGED <<rec, booted, recent, misread, chain>>

\* sendRaw answers "accepted" for bytes it takes or already holds.
Deliver(r) == (r \in pool \/ Fits(row[r].nonce)) /\ pool' = pool \cup {r}

SendAccepted(r) ==
    /\ Holds(r, "sending")
    /\ Deliver(r)
    /\ MarkSent(r)
    /\ Go(r, "waiting") /\ queue' = Tail(queue)
    /\ UNCHANGED <<rec, booted, recent, misread, fills, mined, landed, faults>>

SendRejected(r) ==
    /\ Holds(r, "sending")
    /\ r \notin pool
    /\ IF Fits(row[r].nonce) THEN Fault ELSE Fine
    /\ MarkFailed(r)
    /\ Go(r, "done") /\ queue' = Tail(queue)
    /\ UNCHANGED <<rec, booted, recent, misread, chain>>

\* Mutant: a lost answer is taken for a refusal.
SendLostMut(r) ==
    /\ Holds(r, "sending")
    /\ Fault
    /\ Deliver(r) \/ UNCHANGED pool
    /\ MarkFailed(r)
    /\ Go(r, "done") /\ queue' = Tail(queue)
    /\ UNCHANGED <<rec, booted, recent, misread, fills, mined, landed>>

\* The answer is lost, whether or not the node took the bytes: the row stays signed.
SendLost(r) ==
    /\ Holds(r, "sending")
    /\ Fault
    /\ Deliver(r) \/ UNCHANGED pool
    /\ Go(r, "waiting") /\ queue' = Tail(queue)
    /\ UNCHANGED <<row, rec, booted, recent, misread, fills, mined, landed>>

\* The transport sends again what timed out (throttledHttp drops the retryCount 0 viem
\* gives this method), and holds every other RPC while it does.  So all that a repeat adds
\* to the three answers above is one step: the node took the bytes, mined them, and
\* refuses them now.
SendRepeated(r) ==
    /\ Holds(r, "sending")
    /\ Fault
    /\ Fits(mined) /\ row[r].nonce = mined
    /\ mined' = mined + 1
    /\ \E outcome \in {"success", "reverted"} : landed' = [landed EXCEPT ![r] = outcome]
    /\ MarkFailed(r) /\ misread' = misread \cup {r}
    /\ Go(r, "done") /\ queue' = Tail(queue)
    /\ UNCHANGED <<rec, booted, recent, pool, fills>>

\* The bounded receipt wait: a receipt, or a timeout that leaves the row as it is.
Await(r) ==
    /\ stage[r] = "waiting"
    /\ \/ landed[r] # "no" /\ MarkReceipt(r) /\ Fine
       \/ UNCHANGED row /\ IF landed[r] # "no" THEN Fault ELSE Fine
    /\ Go(r, "done")
    /\ UNCHANGED <<queue, rec, booted, recent, misread, chain>>

-----------------------------------------------------------------------------
(* The reconciler.                                                         *)

\* ORDER BY nonce puts NULL first, so every stale reservation is failed before the
\* first await; then the signed rows are walked by nonce.  quiet rows are the ones
\* whose last attempt is REBROADCAST_AFTER_MS old as of now.
Pruned(r) == row[r].state \in Finished /\ row[r].age >= Retention
Stale(r) == row[r].state = "reserved" /\ row[r].age >= 1

Sweep == [r \in Requests |->
            CASE Pruned(r) -> [row[r] EXCEPT !.state = "pruned"]
              [] Stale(r) -> [row[r] EXCEPT !.state = "failed", !.quiet = FALSE]
              [] OTHER -> row[r]]

\* Mutant: bytes the node took once are not looked at again.
TodoMut == {[claim |-> r, due |-> row[r].quiet] : r \in {q \in Requests : row[q].state = "signed"}}

Todo == {[claim |-> r, due |-> row[r].quiet] : r \in {q \in Requests : row[q].state \in Signed}}

StartReconcile ==
    /\ rec.at = "idle"
    /\ row' = Sweep
    /\ IF \E r \in Requests : row[r].state \in Inflight
       THEN rec' = [IdleRec EXCEPT !.at = "next", !.todo = Todo] /\ UNCHANGED booted
       ELSE booted' = TRUE /\ UNCHANGED rec
    /\ UNCHANGED <<stage, queue, recent, misread, chain, faults>>

NonceOf(t) == row[t.claim].nonce
Current == CHOOSE t \in rec.todo : \A u \in rec.todo : NonceOf(t) <= NonceOf(u)
Claim == Current.claim

Rest == [rec EXCEPT !.at = "next", !.todo = @ \ {Current}]

\* The RPC for the current row fails: the row is left for the next run.
Defer ==
    /\ rec.at \in {"next", "nonce", "again", "send", "late"} /\ rec.todo # {}
    /\ Fault
    /\ rec' = Rest
    /\ UNCHANGED <<row, stage, queue, booted, recent, misread, chain>>

ReadReceipt ==
    /\ rec.at = "next" /\ rec.todo # {}
    /\ IF landed[Claim] # "no"
       THEN MarkReceipt(Claim) /\ rec' = Rest
       ELSE UNCHANGED row /\ rec' = [rec EXCEPT !.at = "nonce"]
    /\ UNCHANGED <<stage, queue, booted, recent, misread, chain, faults>>

\* Mutant: off by one; a nonce equal to the mined count has not passed.
ReadMinedMut ==
    /\ rec.at = "nonce"
    /\ LET m == IF rec.mined = -1 THEN mined ELSE rec.mined IN
       rec' = IF m >= row[Claim].nonce THEN [rec EXCEPT !.mined = m, !.at = "again"]
              ELSE IF Current.due THEN [rec EXCEPT !.mined = m, !.at = "send"]
              ELSE [Rest EXCEPT !.mined = m]
    /\ UNCHANGED <<row, stage, queue, booted, recent, misread, chain, faults>>

\* mined ??= nonce("latest"), read once per run.
ReadMined ==
    /\ rec.at = "nonce"
    /\ LET m == IF rec.mined = -1 THEN mined ELSE rec.mined IN
       rec' = IF m > row[Claim].nonce THEN [rec EXCEPT !.mined = m, !.at = "again"]
              ELSE IF Current.due THEN [rec EXCEPT !.mined = m, !.at = "send"]
              ELSE [Rest EXCEPT !.mined = m]
    /\ UNCHANGED <<row, stage, queue, booted, recent, misread, chain, faults>>

\* The nonce has passed, or the node refused the bytes: the receipt once more.
ReadAgain ==
    /\ rec.at \in {"again", "late"}
    /\ MarkReceipt(Claim)
    /\ rec' = Rest
    /\ UNCHANGED <<stage, queue, booted, recent, misread, chain, faults>>

Rebroadcast ==
    /\ rec.at = "send"
    /\ Deliver(Claim)
    /\ MarkSent(Claim)
    /\ rec' = Rest
    /\ UNCHANGED <<stage, queue, booted, recent, misread, fills, mined, landed, faults>>

RebroadcastRejected ==
    /\ rec.at = "send"
    /\ Claim \notin pool
    /\ IF Fits(row[Claim].nonce) THEN Fault ELSE Fine
    /\ rec' = [rec EXCEPT !.at = "late"]
    /\ UNCHANGED <<row, stage, queue, booted, recent, misread, chain>>

\* The answer is lost after the node took the bytes; Defer covers the other loss.
RebroadcastLost ==
    /\ rec.at = "send"
    /\ Fault
    /\ Deliver(Claim)
    /\ rec' = Rest
    /\ UNCHANGED <<row, stage, queue, booted, recent, misread, fills, mined, landed>>

\* The node took the bytes, its answer timed out, and the transport sends them again:
\* whatever the node did with them meanwhile, the next answer is about the repeat.
RebroadcastAgain ==
    /\ rec.at = "send"
    /\ Fault
    /\ Deliver(Claim)
    /\ UNCHANGED <<row, stage, queue, rec, booted, recent, misread, fills, mined, landed>>

QueueFill ==
    /\ rec.at = "next" /\ rec.todo = {}
    /\ rec' = [rec EXCEPT !.at = "queued"]
    /\ queue' = Append(queue, Reconciler)
    /\ UNCHANGED <<row, stage, booted, recent, misread, chain, faults>>

EndReconcile == rec' = IdleRec /\ booted' = TRUE /\ queue' = Tail(queue)

Held == {row[r].nonce : r \in {q \in Requests : row[q].state \in Signed}}

\* fillGaps(): the held nonces, then the pending count.
StartFill ==
    /\ rec.at = "queued" /\ queue # <<>> /\ Head(queue) = Reconciler
    /\ IF Held = {} THEN EndReconcile
       ELSE /\ rec' = [rec EXCEPT !.at = "count", !.taken = Held]
            /\ UNCHANGED <<queue, booted>>
    /\ UNCHANGED <<row, stage, recent, misread, chain, faults>>

\* The next nonce of the loop at or above n that no claim holds.
NextGap(n) == CHOOSE g \in n .. n + Cardinality(rec.taken) :
                 g \notin rec.taken /\ \A k \in n .. g - 1 : k \in rec.taken
FillFrom(n) == IF NextGap(n) < Max(rec.taken)
               THEN rec' = [rec EXCEPT !.at = "fill", !.next = NextGap(n)] /\ UNCHANGED <<queue, booted>>
               ELSE EndReconcile

ReadPending ==
    /\ rec.at = "count"
    /\ FillFrom(PendingCount)
    /\ UNCHANGED <<row, stage, recent, misread, chain, faults>>

\* The node takes the fill, or holds it already.
Fill ==
    /\ rec.at = "fill"
    /\ rec.next \in fills \/ Fits(rec.next)
    /\ fills' = fills \cup {rec.next}
    /\ FillFrom(rec.next + 1)
    /\ UNCHANGED <<row, stage, recent, misread, pool, mined, landed, faults>>

\* The fill is refused, or its answer is lost after the node took it or before; refused
\* when sent again, it may have been taken before that.
FillFails ==
    /\ rec.at = "fill"
    /\ IF rec.next \in fills \/ Fits(rec.next) THEN Fault ELSE Fine
    /\ fills' \in {fills} \cup (IF Fits(rec.next) THEN {fills \cup {rec.next}} ELSE {})
    /\ EndReconcile
    /\ UNCHANGED <<row, stage, recent, misread, pool, mined, landed>>

\* The pending count cannot be read.
CountFails ==
    /\ rec.at = "count"
    /\ Fault
    /\ EndReconcile
    /\ UNCHANGED <<row, stage, recent, misread, chain>>

-----------------------------------------------------------------------------
\* 120 s pass.  A broadcast's own sendRaw is answered sooner than that.
Tick ==
    /\ \A r \in Requests : stage[r] # "sending"
    /\ row' = [r \in Requests |-> IF row[r].state \in {"none", "pruned"} THEN row[r]
                 ELSE [row[r] EXCEPT !.age = IF @ < Retention THEN @ + 1 ELSE @,
                                     !.quiet = row[r].state \in Signed]]
    /\ row' # row
    /\ UNCHANGED <<stage, queue, rec, booted, recent, misread, chain, faults>>

\* The process dies: requests, the mutex and the reconciler go, the ledger stays.
Crash ==
    /\ Fault
    /\ stage' = [r \in Requests |-> IF stage[r] = "idle" THEN "idle" ELSE "done"]
    /\ queue' = <<>> /\ rec' = IdleRec /\ booted' = FALSE
    /\ UNCHANGED <<row, recent, misread, chain>>

Step(r) == \/ Plan(r) \/ CheckFunds(r) \/ Sign(r)
           \/ SendAccepted(r) \/ SendRejected(r) \/ SendLost(r) \/ SendRepeated(r)
           \/ Await(r)

Reconcile == \/ StartReconcile \/ ReadReceipt \/ ReadMined \/ ReadAgain
             \/ Rebroadcast \/ RebroadcastRejected \/ RebroadcastLost \/ RebroadcastAgain \/ Defer
             \/ QueueFill \/ StartFill \/ ReadPending \/ Fill \/ FillFails \/ CountFails

Next == \/ \E r \in Requests : Reserve(r) \/ Step(r)
        \/ Reconcile \/ Mine \/ Evict \/ Tick \/ Crash

Spec == Init /\ [][Next]_vars

\* Handlers and the interval run on, time passes and the chain mines; once the faults
\* are over, the node answers and takes what fits.
Fairness == /\ \A r \in Requests : WF_vars(Step(r))
            /\ WF_vars(Reconcile) /\ WF_vars(Mine) /\ WF_vars(Tick)

FairSpec == Spec /\ Fairness

-----------------------------------------------------------------------------
(* What the faucet promises.                                               *)

TypeOK ==
    /\ row \in [Requests -> [state : States, ask : (UNION {Asks[r] : r \in Requests}) \cup {NoAsk}, nonce : Nat \cup {-1}, age : 0 .. Retention, quiet : BOOLEAN]]
    /\ stage \in [Requests -> {"idle", "planning", "queued", "signing", "sending", "waiting", "done"}]
    /\ {pool, misread} \subseteq SUBSET Requests /\ fills \subseteq Nat /\ mined \in Nat
    /\ landed \in [Requests -> {"no", "success", "reverted"}]
    /\ \A i \in DOMAIN queue : queue[i] \in Requests \cup {Reconciler}
    /\ rec.at \in {"idle", "next", "nonce", "again", "send", "late", "queued", "count", "fill"}

\* A claim the ledger calls skipped or unsigned never pays, one it calls failed paid only
\* if the node refused the repeat of bytes it had mined, and one it calls confirmed has
\* paid: the windows count the right claims (store ACTIVE, markFailed).
LedgerTruthful == \A r \in Requests :
    /\ row[r].state \in {"none", "reserved", "failed", "skipped"} => r \notin pool
    /\ row[r].state \in {"none", "reserved", "skipped"} => landed[r] = "no"
    /\ row[r].state = "failed" => landed[r] # "success" \/ r \in misread
    /\ row[r].state = "confirmed" => landed[r] = "success"

\* Of two claims of one kind by one owner inside one window at most one pays, whatever
\* crashed or timed out between them, unless the node refused the repeat of bytes it had
\* mined for the first (reserve, cooldown).
PaidOncePerWindow == \A r \in Requests : landed[r] = "success" =>
    \A q \in recent[r] : landed[q] # "success" \/ q \in misread

\* "A node that answers with an error did not take the transaction, so the claim fails and
\* its nonce is free again" (claims.ts:384-385, index.ts:131), and "`failed` (nothing landed)
\* never consume a window" (faucet.ts:27-28): so the window of a claim that paid is not free.
RefusedNeverPaid == \A r \in Requests : landed[r] = "success" =>
    \A q \in recent[r] : landed[q] # "success"

\* No two claims that are signed, sent or confirmed share a nonce: none silently
\* replaces another (broadcast, nextNonce).
NonceExclusive == \A r, q \in Requests :
    r # q /\ {row[r].state, row[q].state} \subseteq Signed \cup {"confirmed"} => row[r].nonce # row[q].nonce

\* The rows of the claims table are well formed and the nonces in them exclusive.
NoncesSound == TypeOK /\ NonceExclusive

\* "ETH the faucet keeps for stablecoin mint gas; the ETH tab never spends below it":
\* an ETH grant leaves the floor behind, the fees of gap fills apart (affordable).
FloorKept == [][\A r \in Requests :
    Kind(r) = "eth" /\ landed[r] = "no" /\ landed'[r] = "success" => Balance' + FillsMined' * FillFee >= Floor]_vars

\* Every claim in flight is finished: a crash, a lost answer, an eviction or a gap below
\* it never leaves the owner locked out behind it (reconcile, fillGaps).
ClaimsFinish == \A r \in Requests : (row[r].state \in Inflight) ~> (row[r].state \notin Inflight)
=============================================================================
