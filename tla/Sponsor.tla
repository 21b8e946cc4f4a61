------------------------------ MODULE Sponsor ------------------------------
(***************************************************************************)
(* The services that spend a sponsor's ETH for a stranger: the account     *)
(* bootstrap (apps/account-bootstrap) deploys a payer account; the         *)
(* revocation submitter (apps/revocation-submitter), when sponsored, tops  *)
(* up an account's EntryPoint deposit and then carries its signed          *)
(* revocation, and when pinned only carries it.  They share SpendBudget,   *)
(* the single flight and the shape of a request up to its settled hold, so *)
(* they are one module and `service` says which of the three runs.         *)
(*                                                                         *)
(* A step is one RPC with the synchronous code on its answer.              *)
(***************************************************************************)
EXTENDS Integers, FiniteSets, Functions

CONSTANTS
    Services,       \* which of "bootstrap", "sponsored" and "pinned" to run
    Requests,       \* requests
    Ops,            \* what they carry: the account, the UserOperation nonce, the grant
    Prefund,        \* requiredPrefund of an operation
    OpCost,         \* what handleOps takes of the deposit
    GasHold,        \* gas limit at the fee cap, reserved for the sponsor's transaction
    Fees,           \* what a mined sponsor transaction may cost in gas
    DailyLimit,     \* BOOTSTRAP_DAILY_WEI, REVOCATION_DAILY_WEI
    MaxDay, MaxFaults

ASSUME CostAssumption == /\ {Prefund, GasHold, DailyLimit, MaxDay, MaxFaults} \subseteq Nat
                         /\ Fees \subseteq Nat /\ OpCost \in 0 .. Prefund

ASSUME RequestAssumption == IsFiniteSet(Requests) /\ \A o \in Ops : o.nonce \in Nat

VARIABLES
    service,
    req,        \* the requests in the process
    mem,        \* SpendBudget: its day, #spent and #reserved
    disk,       \* budget_days: the charged total of each day
    today,
    txs,        \* the sponsor's transactions, numbered in the order they were broadcast
    relays,     \* the relayer's handleOps transactions, likewise
    chain,      \* deposits, UserOperation nonces, revoked grants, deployed accounts
    faults

vars == <<service, req, mem, disk, today, txs, relays, chain, faults>>

Days == 0 .. MaxDay
Accounts == {o.account : o \in Ops}
NoOp == [account |-> "none", nonce |-> 0, grant |-> "none"]
Idle == [stage |-> "idle", op |-> NoOp, short |-> 0, day |-> 0, hold |-> 0, tx |-> 0, answer |-> "none"]

Init ==
    /\ service \in Services
    /\ req = [r \in Requests |-> Idle]
    /\ mem = [day |-> 0, spent |-> 0, reserved |-> 0]
    /\ disk = [d \in Days |-> 0]
    /\ today = 0
    /\ txs = {}
    /\ relays = {}
    /\ chain = [deposit |-> [a \in Accounts |-> IF service = "pinned" THEN Prefund ELSE 0],
                nonce |-> [a \in Accounts |-> 0], revoked |-> {},
                deployed |-> IF service = "bootstrap" THEN {} ELSE Accounts]
    /\ faults = 0

Fault == faults < MaxFaults /\ faults' = faults + 1

-----------------------------------------------------------------------------
(* SpendBudget.                                                            *)

\* #roll: another day starts from what the store has charged to it.
Rolled(day) == IF mem.day = day THEN mem ELSE [mem EXCEPT !.day = day, !.spent = disk[day]]

Room(day, amount) == Rolled(day).spent + mem.reserved + amount <= DailyLimit

\* settle: release the hold and charge the day that admitted it.
Settle(hold, day, actual) ==
    /\ mem' = [Rolled(today) EXCEPT !.reserved = @ - hold,
                                    !.spent = IF day = today THEN @ + actual ELSE @]
    /\ disk' = [disk EXCEPT ![day] = (IF day = today THEN Rolled(today).spent ELSE @) + actual]

-----------------------------------------------------------------------------
(* Requests.                                                               *)

Stages == {"check", "nonce", "funds", "signature", "reserve", "send", "receipt", "simulate", "relay", "event"}
Working == {r \in Requests : req[r].stage \in Stages}

\* One flight per account to deploy, per signed operation to revoke.
SameFlight(a, b) == IF service = "bootstrap" THEN a.account = b.account ELSE a = b

\* Mutant: only the request that led the flight is answered.
AnswerMut(r, a) == req' = [req EXCEPT ![r].stage = "done", ![r].answer = a]

\* The answer goes to every request coalesced on the flight.
Answer(r, a) ==
    req' = [q \in Requests |->
              IF q = r \/ (req[q].stage = "joined" /\ SameFlight(req[q].op, req[r].op))
              THEN [req[q] EXCEPT !.stage = "done", !.answer = a] ELSE req[q]]
Goto(r, s) == req' = [req EXCEPT ![r].stage = s]

\* Mutant: only identical operations are kept apart.
SenderBusyMut(op) == FALSE

\* inFlightSenders: another operation of a sponsored sender is in flight.
SenderBusy(op) == service = "sponsored" /\ \E r \in Working : req[r].op.account = op.account

Arrive(r, op) ==
    /\ req[r].stage = "idle"
    /\ LET joins == \E q \in Working : SameFlight(req[q].op, op)
           refused == ~joins /\ SenderBusy(op)
           first == IF service = "pinned" THEN "funds" ELSE "check" IN
       req' = [req EXCEPT ![r].op = op,
                          ![r].stage = IF joins THEN "joined" ELSE IF refused THEN "done" ELSE first,
                          ![r].answer = IF refused THEN "refused" ELSE "none"]
    /\ UNCHANGED <<service, mem, disk, today, txs, relays, chain, faults>>

\* A read fails, or a condition outside the model refuses: the fees, a wallet's
\* balance, the account's signature, a rate limit, a rejected gas estimate.
Refuse(r) ==
    /\ req[r].stage \in {"check", "nonce", "funds", "signature", "reserve", "simulate"}
    /\ Answer(r, "refused")
    /\ UNCHANGED <<service, mem, disk, today, txs, relays, chain, faults>>

\* Already deployed is success, already revoked a refusal; neither spends anything.
Check(r) ==
    /\ req[r].stage = "check"
    /\ CASE service = "bootstrap" /\ req[r].op.account \in chain.deployed -> Answer(r, "success")
         [] service = "sponsored" /\ req[r].op.grant \in chain.revoked -> Answer(r, "refused")
         [] OTHER -> Goto(r, IF service = "bootstrap" THEN "funds" ELSE "nonce")
    /\ UNCHANGED <<service, mem, disk, today, txs, relays, chain, faults>>

CheckNonce(r) ==
    /\ req[r].stage = "nonce"
    /\ IF req[r].op.nonce = chain.nonce[req[r].op.account] THEN Goto(r, "funds") ELSE Answer(r, "refused")
    /\ UNCHANGED <<service, mem, disk, today, txs, relays, chain, faults>>

Shortfall(op) == IF chain.deposit[op.account] >= Prefund THEN 0 ELSE Prefund - chain.deposit[op.account]

\* The deposit is read with the fees and balances; the bootstrap estimates its deployment.
CheckFunds(r) ==
    /\ req[r].stage = "funds"
    /\ LET short == Shortfall(req[r].op) IN
       CASE service = "bootstrap" /\ req[r].op.account \notin chain.deployed -> Goto(r, "reserve")
         [] service = "sponsored" /\ short > 0 -> req' = [req EXCEPT ![r].stage = "signature", ![r].short = short]
         [] service # "bootstrap" /\ short = 0 -> Goto(r, "simulate")
         [] OTHER -> Answer(r, "refused")
    /\ UNCHANGED <<service, mem, disk, today, txs, relays, chain, faults>>

\* `now` is read here; the sponsor's balance is awaited before it is used.
CheckSignature(r) ==
    /\ req[r].stage = "signature"
    /\ req' = [req EXCEPT ![r].stage = "reserve", ![r].day = today]
    /\ UNCHANGED <<service, mem, disk, today, txs, relays, chain, faults>>

\* reserve(reservation, now): a `now` of yesterday rolls the budget back to yesterday.
Hold(r) ==
    /\ req[r].stage = "reserve"
    /\ LET day == IF service = "bootstrap" THEN today ELSE req[r].day
           hold == req[r].short + GasHold IN
       IF Room(day, hold)
       THEN /\ mem' = [Rolled(day) EXCEPT !.reserved = @ + hold]
            /\ req' = [req EXCEPT ![r].stage = "send", ![r].hold = hold, ![r].day = day]
       ELSE mem' = Rolled(day) /\ Answer(r, "refused")
    /\ UNCHANGED <<service, disk, today, txs, relays, chain, faults>>

\* charge: "open" while the hold is, "settled" with an amount after the broadcast, "zero"
\* for a send that threw, "lost" in a crash.
Transaction(r, charge) ==
    [id |-> Cardinality(txs) + 1, op |-> req[r].op, value |-> req[r].short, day |-> req[r].day,
     hold |-> req[r].hold, status |-> "pending", cost |-> 0, charge |-> charge, amount |-> 0, known |-> FALSE]

Sent(t, status, cost) == (txs \ {t}) \cup {[t EXCEPT !.status = status, !.cost = cost]}
Charged(t, amount, known) == (txs \ {t}) \cup {[t EXCEPT !.charge = "settled", !.amount = amount, !.known = known]}
TxOf(r) == CHOOSE t \in txs : t.id = req[r].tx

SendOk(r) ==
    /\ req[r].stage = "send"
    /\ txs' = txs \cup {Transaction(r, "open")}
    /\ req' = [req EXCEPT ![r].stage = "receipt", ![r].tx = Cardinality(txs) + 1]
    /\ UNCHANGED <<service, mem, disk, today, relays, chain, faults>>

\* sendTransaction throws: the hold is settled at nothing, and the node may have taken it.
SendFails(r) ==
    /\ req[r].stage = "send"
    /\ Fault
    /\ txs' \in {txs, txs \cup {Transaction(r, "zero")}}
    /\ Settle(req[r].hold, req[r].day, 0)
    /\ Answer(r, "failed")
    /\ UNCHANGED <<service, today, relays, chain>>

\* What the receipt says is charged in the finally; a revert returned the value.
Receipt(r) ==
    /\ req[r].stage = "receipt"
    /\ LET t == TxOf(r) IN
       /\ t.status # "pending"
       /\ Settle(t.hold, t.day, t.cost)
       /\ txs' = Charged(t, t.cost, TRUE)
       /\ CASE t.status = "reverted" -> Answer(r, "failed")
            [] t.status = "mined" /\ service = "bootstrap" -> Answer(r, "success")
            [] OTHER -> Goto(r, "simulate")
    /\ UNCHANGED <<service, today, relays, chain, faults>>

\* Mutant: a broadcast whose receipt was not seen is charged nothing.
ReceiptTimeoutMut(r) ==
    /\ req[r].stage = "receipt"
    /\ Fault
    /\ LET t == TxOf(r) IN Settle(t.hold, t.day, 0) /\ txs' = Charged(t, 0, FALSE)
    /\ Answer(r, "failed")
    /\ UNCHANGED <<service, today, relays, chain>>

\* The wait times out: the reservation itself is charged.
ReceiptTimeout(r) ==
    /\ req[r].stage = "receipt"
    /\ Fault
    /\ LET t == TxOf(r) IN Settle(t.hold, t.day, t.hold) /\ txs' = Charged(t, t.hold, FALSE)
    /\ Answer(r, "failed")
    /\ UNCHANGED <<service, today, relays, chain>>

\* The EntryPoint's verdict: AA21 for a short deposit, AA25 for a used nonce.
Accepted(op) == op.nonce = chain.nonce[op.account] /\ chain.deposit[op.account] >= Prefund

Simulate(r) ==
    /\ req[r].stage = "simulate"
    /\ IF Accepted(req[r].op) THEN Goto(r, "relay") ELSE Answer(r, "failed")
    /\ UNCHANGED <<service, mem, disk, today, txs, relays, chain, faults>>

HandleOps(r) == relays \cup {[id |-> Cardinality(relays) + 1, op |-> req[r].op, status |-> "pending", known |-> FALSE]}

RelayOk(r) ==
    /\ req[r].stage = "relay"
    /\ relays' = HandleOps(r)
    /\ req' = [req EXCEPT ![r].stage = "event", ![r].tx = Cardinality(relays) + 1]
    /\ UNCHANGED <<service, mem, disk, today, txs, chain, faults>>

RelayFails(r) ==
    /\ req[r].stage = "relay"
    /\ Fault
    /\ relays' \in {relays, HandleOps(r)}
    /\ Answer(r, "failed")
    /\ UNCHANGED <<service, mem, disk, today, txs, chain>>

RelayOf(r) == CHOOSE t \in relays : t.id = req[r].tx
Seen(r) == (relays \ {RelayOf(r)}) \cup {[RelayOf(r) EXCEPT !.known = TRUE]}

\* Mutant: a successful receipt is taken for a revocation.
ReadEventMut(r) ==
    /\ req[r].stage = "event"
    /\ RelayOf(r).status # "pending"
    /\ Answer(r, IF RelayOf(r).status # "reverted" THEN "success" ELSE "failed")
    /\ relays' = Seen(r)
    /\ UNCHANGED <<service, mem, disk, today, txs, chain, faults>>

\* A mined handleOps proves nothing; only success in its UserOperationEvent does.
ReadEvent(r) ==
    /\ req[r].stage = "event"
    /\ RelayOf(r).status # "pending"
    /\ Answer(r, IF RelayOf(r).status = "executed" THEN "success" ELSE "failed")
    /\ relays' = Seen(r)
    /\ UNCHANGED <<service, mem, disk, today, txs, chain, faults>>

EventTimeout(r) ==
    /\ req[r].stage = "event"
    /\ Fault
    /\ Answer(r, "failed")
    /\ UNCHANGED <<service, mem, disk, today, txs, relays, chain>>

-----------------------------------------------------------------------------
(* The chain, the calendar and the process.                                *)

\* A second deployment of an account reverts, and so may a deposit; gas is spent either way.
MineSponsor ==
    /\ \E t \in txs, fee \in Fees :
         /\ t.status = "pending"
         /\ \A u \in txs : u.status = "pending" => t.id <= u.id
         /\ \/ /\ service = "bootstrap" /\ t.op.account \notin chain.deployed
               /\ txs' = Sent(t, "mined", fee)
               /\ chain' = [chain EXCEPT !.deployed = @ \cup {t.op.account}]
               /\ UNCHANGED faults
            \/ /\ service = "sponsored"
               /\ txs' = Sent(t, "mined", t.value + fee)
               /\ chain' = [chain EXCEPT !.deposit[t.op.account] = @ + t.value]
               /\ UNCHANGED faults
            \/ /\ IF t.op.account \in chain.deployed /\ service = "bootstrap" THEN UNCHANGED faults ELSE Fault
               /\ txs' = Sent(t, "reverted", fee)
               /\ UNCHANGED chain
    /\ UNCHANGED <<service, req, mem, disk, today, relays>>

\* handleOps reverts when the EntryPoint refuses the operation; an inner revert is
\* caught, so the transaction succeeds and only its event tells.
MineRelay ==
    /\ \E t \in relays, status \in {"executed", "caught", "reverted"} :
         /\ t.status = "pending"
         /\ \A u \in relays : u.status = "pending" => t.id <= u.id
         /\ (status = "reverted") = ~Accepted(t.op)
         /\ relays' = (relays \ {t}) \cup {[t EXCEPT !.status = status]}
         /\ chain' = IF status = "reverted" THEN chain ELSE
                     [chain EXCEPT !.nonce[t.op.account] = @ + 1, !.deposit[t.op.account] = @ - OpCost,
                                   !.revoked = IF status = "executed" THEN @ \cup {t.op.grant} ELSE @]
    /\ UNCHANGED <<service, req, mem, disk, today, txs, faults>>

Midnight ==
    /\ today < MaxDay
    /\ today' = today + 1
    /\ UNCHANGED <<service, req, mem, disk, txs, relays, chain, faults>>

\* The process dies: requests and holds are gone, the charged total is read back.
Crash ==
    /\ Fault
    /\ req' = [r \in Requests |-> IF req[r].stage \in {"idle", "done"} THEN req[r]
                                  ELSE [req[r] EXCEPT !.stage = "done", !.answer = "lost"]]
    /\ txs' = {IF t.charge = "open" THEN [t EXCEPT !.charge = "lost"] ELSE t : t \in txs}
    /\ mem' = [day |-> today, spent |-> disk[today], reserved |-> 0]
    /\ UNCHANGED <<service, disk, today, relays, chain>>

Step(r) == \/ Refuse(r) \/ Check(r) \/ CheckNonce(r) \/ CheckFunds(r) \/ CheckSignature(r) \/ Hold(r)
           \/ SendOk(r) \/ SendFails(r) \/ Receipt(r) \/ ReceiptTimeout(r)
           \/ Simulate(r) \/ RelayOk(r) \/ RelayFails(r) \/ ReadEvent(r) \/ EventTimeout(r)

Next == \/ \E r \in Requests : Step(r) \/ \E op \in Ops : Arrive(r, op)
        \/ MineSponsor \/ MineRelay \/ Midnight \/ Crash

\* The process takes its turns and the chain mines what it holds.
Fairness == /\ \A r \in Requests : WF_vars(Step(r))
            /\ WF_vars(MineSponsor) /\ WF_vars(MineRelay)

Spec == Init /\ [][Next]_vars
FairSpec == Spec /\ Fairness

-----------------------------------------------------------------------------
(* Properties.                                                             *)

\* The variables keep their types.
TypeOK ==
    /\ service \in Services
    /\ \A r \in Requests : /\ req[r].stage \in Stages \cup {"idle", "joined", "done"}
                           /\ req[r].answer \in {"none", "success", "refused", "failed", "lost"}
                           /\ req[r].stage = "joined" => \E q \in Working : SameFlight(req[q].op, req[r].op)
    /\ mem.day \in Days /\ mem.spent \in Nat /\ mem.reserved \in Nat
    /\ disk \in [Days -> Nat] /\ today \in Days /\ faults \in 0 .. MaxFaults
    /\ chain.deposit \in [Accounts -> Nat] /\ chain.nonce \in [Accounts -> Nat]

OpenHolds == {r \in Requests : req[r].stage \in {"send", "receipt"}}
Admitted(d) == {t \in txs : t.day = d}

\* SpendBudget is exact whatever day a hold settles on, an open hold of yesterday and a
\* `now` read before midnight included: memory agrees with the store, every hold is
\* released once, and each day carries the charges of the transactions it admitted.
BudgetExact ==
    /\ mem.spent = disk[mem.day]
    /\ mem.reserved = SumFunctionOnSet([r \in Requests |-> req[r].hold], OpenHolds)
    /\ \A d \in Days : disk[d] = SumFunctionOnSet([t \in txs |-> t.amount], Admitted(d))

\* What a transaction cost beyond what the day was asked for it.
Unseen(t) == IF t.charge \in {"zero", "lost"} THEN t.cost ELSE IF t.cost > t.hold THEN t.cost - t.hold ELSE 0

\* The daily ceiling bounds the ETH really spent: what a day's transactions cost exceeds
\* it only by fees above the reservation (the L1 fee is not in it) and by transactions
\* nobody saw, those in flight at a crash or taken by a node whose answer was lost.
DayBounded ==
    \A d \in Days : SumFunctionOnSet([t \in txs |-> t.cost], Admitted(d))
                      <= DailyLimit + SumFunctionOnSet([t \in txs |-> Unseen(t)], Admitted(d))

\* SpendBudget does its work: its books are exact, and what they let through is bounded.
BudgetHolds == TypeOK /\ BudgetExact /\ DayBounded

\* One gift per account and operation nonce: the sponsor pays a second time only after a
\* deposit that reverted or a transaction, a deposit or a handleOps, it lost sight of.
OneGift ==
    \A t, u \in txs :
        t.id < u.id /\ t.op.account = u.op.account /\ t.op.nonce = u.op.nonce
            => \/ t.status = "reverted" \/ ~t.known
               \/ \E h \in relays : h.op.account = t.op.account /\ ~h.known

\* "success" is told only of an account that exists and a grant that is revoked, though
\* handleOps succeeds when the revocation inside it reverts.
AnswerTruthful ==
    \A r \in Requests : req[r].answer = "success" =>
        IF service = "bootstrap" THEN req[r].op.account \in chain.deployed ELSE req[r].op.grant \in chain.revoked

\* Every request is answered, the coalesced ones too.
RequestsAnswered == \A r \in Requests : req[r].stage # "idle" ~> req[r].stage = "done"
=============================================================================
