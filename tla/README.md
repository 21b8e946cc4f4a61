# Mapae: TLA+ models, checks and proofs

Mapae lets an agent pay for HTTP resources out of an ERC-7710 delegation: the agent
answers a seller's `402` with a signed delegation leaf, the seller asks a facilitator to
settle it, and the facilitator redeems the delegation on chain with its own signer and its
own gas. Nothing in that chain is atomic: four processes, one SQLite file per service and a
chain, any of which can stop between two steps. The question this development answers is
the one the code is built around: **does a payment happen at most once, is every party told
the truth about it, and is it eventually accounted for?**

## 1. Inventory

### 1.1 The money path

| component | source | state it keeps | operations | talks to |
|---|---|---|---|---|
| agent runtime, spend gate | `packages/delegation/src/agent-runtime.ts` | whether a leaf is out, spending per mandate | gate a payment, provide a leaf | payment client |
| payment client | `packages/delegation/src/payment-client.ts` | none across calls; a fresh leaf and payment id per call | request, read 402, sign, retry with header, classify the answer | seller (HTTP) |
| seller paywall | `packages/seller/src/index.ts` | none of its own; identifiers and orders in the store | order of checks, bind, verify, settle, record, deliver | store, facilitator |
| payment identifiers, orders | `packages/store/src/index.ts` | identifier -> fingerprint, intent, settlement | bind, record, prune, createOnce | paywall |
| facilitator: settle | `apps/facilitator-erc7710/{index,recovery,settlement,routes}.ts` | in-flight operations, prepare queue | settle (look up, nonce, sign, claim, send, wait, finish) | journal, chain |
| settlement journal | `packages/store/src/settlement.ts` | one row per payment intent, daily gas budgets | claim, finish, nextNonce, read | facilitator |
| settlement ledger | `packages/store/src/index.ts` | settlement events | record, prune, list, summary | facilitator, journal |
| facilitator guards | `apps/facilitator-erc7710/guards.ts` | cached probe, per-address windows | readiness, rate limit, error mapping | facilitator |
| payment scheduler | `packages/store/src/scheduler.ts`, `apps/payment-scheduler` | jobs, runs (slots), reserved amounts | add, cancel, claim, executor, finish, restart | payment client |

### 1.2 Around it

| component | source | state it keeps | operations |
|---|---|---|---|
| faucet | `apps/faucet/claims.ts`, `packages/store/src/faucet.ts` | a claim per request with its signed bytes and nonce | reserve, plan, broadcast, wait, reconcile, fill gaps |
| account bootstrap | `apps/account-bootstrap`, `packages/delegation/src/account-bootstrap.ts` | spend budget (memory and `budget_days`), in-flight deployments | admit, hold, deploy, settle the hold |
| revocation submitter | `apps/revocation-submitter` | in-flight operations per sender, spend budget | coalesce, deposit, carry `handleOps`, read its event |
| outings | `apps/delegated-seller/outings` | durable jobs of an agent that buys rounds, a lease | start, stop, resume, tick, sweep |
| guardians | `apps/delegated-seller/guardians`, `contracts/src/MapaeGuardians.sol` | tokens, owned lanes, the ID pool, requests of randomness, results, keys | mint, re-request, callback, transfer, claim, administer, upgrade |
| ranking | `apps/delegated-seller/ranking/board.ts` | entries, daily attempts | submit, list |
| arcade, MCP server, web, docs, lab | see `PROJECT.json` | none durable, or user interface | - |

The chain, the node, the x402 verifier, the MetaMask delegation framework, bun:sqlite and viem
are outside the repository; they appear only as the code uses them.

### 1.3 How the parts interact, and what is hard

* **Two durable stores that cannot commit together.** The journal and the chain are updated by
  different steps of one function; the process may die between any two. The code's answer is
  "the hash before the broadcast": the row with the signed envelope's fields is committed
  before the transaction leaves, so whoever comes back can re-sign the same bytes.
* **Awaits.** `recovery.ts` reads the journal, awaits the node's nonce, awaits the simulation and
  the signature, and only then claims. Two promise chains make this safe: calls for one intent
  are coalesced (`PaymentIntentSingleFlight`), and the prepare-and-claim section is serialised
  across intents (`#preparing`). Broadcast and wait happen outside of it.
* **Lost and late answers.** A send may be taken by the node and its answer lost; a wait may time
  out just before the receipt; a node may drop a transaction, or lag in its nonce count.
* **Retries.** The same payment comes back from a client that was told `pending`, that saw its
  connection die, or that is the seller's own retry.
* **Incremental accounting.** Budgets are kept as running totals per UTC day and moved by
  differences; the receipt may arrive on another day than the claim, and retention deletes
  ledger rows whose ids SQLite hands out again.
* **Reservations of money in the scheduler.** A slot reserves its amount before the executor
  runs and gives it back only if the outcome proves that nothing was charged; a process that
  dies in the middle leaves a run whose outcome nobody knows.

Properties that make each part right: *journal* - budgets exact, caps kept, one terminal event
per intent, rows final; *recovery* - charged once, only journalled bytes are broadcast, truthful
answers, at most one unmarked answer, no refusal of a broadcast payment, no nonce hole, every
claim concluded, every call answered; *scheduler* - every charge covered by a reservation, one
charge per slot, one slot per interval, no slot beside one whose outcome is unknown, a
cancelled job claims nothing more, jobs come to rest; *paywall* - no delivery without a
settlement of the same request, no second charge for one identifier, a refusal only when
nothing was charged; *faucet* - at most one of an owner's claims in a window pays, the ledger says what the
chain did, no two claims share a nonce, the ETH floor is kept, no claim stays in flight;
*sponsors* - the budget is exact across midnight and crashes and bounds the ETH spent, one gift per
account and operation, success told only of what happened; *outings* - a signed header is kept until its
round is on file, every recorded round was paid for and every paid one can be recorded, a stopped
job signs nothing; *guardians contract* - drawing without replacement, lanes that agree with
ownership inside a mint's hook too, one live draw per birth, a payment grows one result.

The hazards, line by line, with the properties that would catch each, are in `PROJECT.json`.

## 2. Modules

| module | models | notes |
|---|---|---|
| `SettlementJournal` | `store/src/settlement.ts`, the ledger's `record` and `prune`, `schema.ts` constraints | every method is one transaction, so one action |
| `SettlementRecovery` | `recovery.ts`, the coordinator and executor of `index.ts`, `routes.ts` answers, the signer's account | extends the journal; one action per stretch of code between two awaits |
| `PaymentOnce` | nothing in the code: the abstract promise | a payment is committed, executed, accounted for, announced |
| `Scheduler` | `store/src/scheduler.ts`, `payment-scheduler/{scheduler,index}.ts` | a process per worker over one database |
| `SellerPaywall` | `seller/src/index.ts`, the identifiers and orders of `store/src/index.ts`, the shop's paywall in `delegated-seller/app.ts`, the client's reading of an answer | the facilitator is `PaymentOnce` plus its in-flight operations and words |
| `Faucet` | `faucet/claims.ts`, `faucet/index.ts`, `store/src/faucet.ts`, `throttledHttp` of `delegation/src/rpc.ts` | one process, its ledger and a node's pool |
| `Sponsor` | `account-bootstrap/index.ts`, `revocation-submitter/index.ts`, `SpendBudget` of `delegation/src/account-bootstrap.ts` | one module for three services that share a request's shape |
| `Outings` | `delegated-seller/outings/{runner,store,routes,runtime}.ts` | one seller process at a time over its database |
| `Guardians` | `contracts/src/MapaeGuardians.sol` | one action per transaction; Pyth is the environment |
| `SettlementProofs`, `SchedulerProofs`, `PaywallProofs`, `FaucetProofs`, `SponsorProofs`, `OutingsProofs`, `GuardiansProofs` | theorems about `SettlementJournal` with `SettlementRecovery`, `Scheduler`, `SellerPaywall`, `Faucet`, `Sponsor`, `Outings`, `Guardians` | TLAPS (section 4) |
| `SumTheorems` | nothing in the code: sums over finite sets, counts and maxima | lemmas for the proof modules |
| `MCSettlementRecovery`, `MCScheduler`, `MCSellerPaywall`, `MCFaucet`, `MCSponsor`, `MCOutings`, `MCGuardians` | constants and symmetry for TLC | |

`SettlementRecovery` extends `SettlementJournal` and is shown to implement `PaymentOnce`, which is the facilitator
`SellerPaywall` and `Outings` see; the other modules stand alone, as the services they model do.

Operators whose name contains `Mut` are wrong variants of the definition that follows them (a dropped guard, a
missing release); no specification uses them. `PROJECT.json` pairs each with the property that catches it.

### 2.1 SettlementJournal

`rows` is `settlement_intents` (a partial function; its domain is the set of claimed intents), `budget`
is `budget_days` for the scope `total` and one scope per payer, `ledger` is `settlement_events`,
`day` the UTC day. `Claim`, `Finish`, `RecordRejection`, `Prune` are the methods; `NextNonce` and
`Terminal` are reads. Kept: both limits and the order they are compared in, the `UNIQUE` nonce,
the roll-back of a failed transaction (the action is simply not enabled), the day of the
reservation as the day of the correction, the event id as *one past the largest id on
file* (`INTEGER PRIMARY KEY` without `AUTOINCREMENT`, so ids of pruned rows come back), and
retention that only touches rejected rows. Abstracted: the envelope is its nonce and its
worst-case price; addresses, hashes and text fields are gone.

### 2.2 SettlementRecovery

An operation's `pc` names the await it is at:

| `pc` | code | leaves by |
|---|---|---|
| `queued` | in the `#preparing` chain, before `known()` | `LookUp`, `NotReady` |
| `nonce` | awaiting `pendingNonce()` | `AllocateNonce`, `NotReady`, `RefuseRedemption` |
| `prepare` | awaiting simulation, gas, signature | `ClaimPrepared`, `RefuseBudget`, `RefuseRedemption`, `NotReady` |
| `receipt` | awaiting the receipt of a known hash | `Conclude`, `ReceiptMissing`, `GiveUp` |
| `sending` | awaiting `send()` | `SendTaken`, `SendFailed`, `GiveUp` |
| `waiting` | awaiting the receipt after a send | `Conclude`, `GiveUp` |

`call` is the set of HTTP exchanges. A slot is freed by `Collect` and taken again by `Arrive`, so
two slots give unboundedly many retries, each possibly while an earlier one is still in flight.
The chain is external: it executes nonces in order (`Mine`), may forget an unmined transaction
(`Evict`), and answers a pending count anywhere between the mined count and the end of the
unbroken run it holds (`PendingNonces`: nodes lag). A crash drops `op`, `queue` and `call` and
nothing else.

### 2.3 PaymentOnce

Per intent: `unseen -> committed -> executed -> accounted`, a result chosen at execution and never
changed, and at most one announcement, made in the step that accounts for it. `SettlementRecovery` implements it with the stage computed from
row, receipt and event (`StageOf`, `ResultOf`).

### 2.4 Scheduler

`jobs` and `runs` are the two tables; `worker` is the process state between two awaits of `tick()`
and its executor; `wire` is the set of payments a seller may still be carrying out; `charged` the
money actually taken (history). The payment client is seen through its result: `paid`, unpaid (worth a
retry or not), or unknown. `Stop` is a signal (the tick ends, its claims are given back unpaid), `Crash` a death between
any two steps; a run is on file as unknown from the moment it is claimed, so `Restart` has nothing to repair.

### 2.5 SellerPaywall

`req` holds the HTTP exchanges; `pc` names the await an exchange is at: `kind` (`/supported`), `verify` and `simulate` (`/verify` before and after its journal
look-up), `settle` and `settling` (`/settle` before and after the facilitator took the call), `told` (its answer is on the way back). `bindings` is `payment_identifiers`, `orders` the
orders; both change only within a turn, since bun:sqlite is synchronous: bind (with its prune) is one step, and so is record with deliver. An intent does not
name the item, so one header can be presented for two items of one price; the item stands for the fingerprint. `seen` and `sent` are history. The facilitator
is external here: it is the specification `SettlementRecovery` is proved to implement, with a `flight` per intent that coalesced calls share and answers limited to
the truthful ones the recovery theorems allow (a refusal only while unseen, pending only while open, a verdict only when accounted).

`Reading` is `payForDelegatedResource`'s classification of status, word and hash. One bind in 256 prunes; the model lets any bind prune. `now` counts instants longer than an
exchange's timeouts together (a minute, against the hour of `UNSETTLED_BINDING_TTL_MS`), so `Tick` waits for exchanges of the instant before. Left out:
malformed headers and the unpaid 402 (no state), the payer cross-check (one honest facilitator), the manifest.

### 2.6 Faucet

`row` is `faucet_claims`; a request names its row and, once signed, its transaction. `throttledHttp` keeps one RPC outstanding in
the process, so an action is one RPC and the synchronous code on its answer; claims and the reconciler interleave between RPCs and
share the mutex of `serial()` (`queue`). `stage` names where `decide()` stands, `rec.at` where the reconciler does.

| stage of a claim | code | leaves by |
|---|---|---|
| `planning` | `plan()` reads the recipient | `Plan` |
| `queued`, `signing` | `affordable()`, then the nonce and `markSigned`, under the mutex | `CheckFunds`, `Sign` |
| `sending` | `sendRaw` | `SendAccepted`, `SendRejected`, `SendLost`, `SendRepeated` |
| `waiting` | the bounded receipt wait | `Await` |

`Tick` is 120 s, the age at which the reconciler fails a reservation and sends bytes again; a broadcast's own `sendRaw` is answered
sooner, so `Tick` waits for it. Ages saturate at the retention. The node holds one transaction per nonce, mines
in order, may forget what it holds (`Evict`). `recent` is history: the claims inside the owner's window when a
claim was reserved. Left out: the refusal counters and the status views.

One `sendRaw` may be several sends: `throttledHttp`'s wrapper (`rpc.ts:107`) hands on its arguments only, without the `retryCount: 0` viem asks for, so a timed-out
`eth_sendRawTransaction` is sent again by the transport. No other RPC of the process gets between, so a repeat that is taken, held already, or refused although nothing was mined is one of the three
answers, and the one new case is `SendRepeated`: taken, mined, and then refused as "nonce too low". The code calls that claim failed; `misread` is history and names such claims. The reconciler's
`sendRaw` repeats too (`RebroadcastAgain`), but it looks for a receipt after a refusal. A repeated gap fill has no row, and its refusal ends the round like any other (`FillFails`).

### 2.7 Sponsor

`service` says which of the three runs: the bootstrap deploys an account, the sponsored submitter deposits and then carries the signed revocation, the pinned one only
carries it. `mem` is `SpendBudget`'s `#day`, `#spent`, `#reserved`; `disk` is `budget_days`. A request's `stage` is the RPC it awaits (`check`, `nonce`,
`funds`, `signature`, `reserve`, `send`, `receipt`, `simulate`, `relay`, `event`); coalesced requests are `joined` and get the leader's answer. `txs` and `relays` are the
transactions of the two wallets, with what was charged for each and whether the service ever learnt its fate. `Hold` uses the `now` the request
read earlier, so a reservation may be made on a day that is over. Validation and the per-address limiter are `Refuse`, at any moment before the hold.

### 2.8 Outings

`jobs` is `arcade_outings`, `before` the order of its rows by `updated_at` (a relation: an update moves rows behind the others), `lease` the one row of `arcade_outing_lease`; `run` is `tick()` with its own *copy*
of the job, which is what makes `save(job)` after an await dangerous. A step is the synchronous code between two awaits: in one process nothing comes between a `get()` and the `save()` that follows it without an await (`control()`, `persist()`, the check and the save
after `inspect`), and requests are served between the runner's steps (`Listening`). Only a death may separate two commits, so a commit after another one is a step of its own.
The facilitator is `Charge`: a header that left is settled at most once, perhaps after the sender gave up. A process that dies comes back with another `workerId` and perhaps another key (`Keys`); `Lapse` frees the lease it left behind.
One guardian and one game: the owner's limit of three guardians and the ruleset check are not modelled. Two seller processes over one database are not either (section 5).

### 2.9 Guardians

One action per transaction, except that `mint()` is split at the receiver's hook (`Mint`, `FinishMint`): the hook may transfer what the receiver
already holds. The packed 40-bit lanes of an account and the 16-bit lanes of the ID pool are functions; a lane never written holds its default ID (`PoolAt`). A random number
stands for the request it was drawn for, so a seed shows *which* request revealed a token. `Upgrade` installs an implementation built for another
Pyth contract and provider, whose sequence numbers start again at 1; an upgrade inside a mint's hook is excluded, since the owner would have to act within the receiver's own call. Left out: approvals, metadata, the derivation of traits.

## 3. Runs

| run | config | shows | distinct states |
|---|---|---|---|
| `recovery` | `MCSettlementRecovery.cfg` | the safety of `/settle`: two intents, two concurrent calls, a crash, rejections and two prices; and that it implements `PaymentOnce` | 1.0 M |
| `recovery_live` | `MCSettlementLive.cfg` | every durable claim becomes terminal | 5 k |
| `recovery_days` | `MCSettlementDays.cfg` | across a midnight and the retention: budgets equal the sum of their rows, caps hold, one event per payment, every call answered | 0.4 M |
| `scheduler` | `MCScheduler.cfg` | money, slots and cancellation with two workers on one job; every job ends, is cancelled or is parked on an unknown outcome | 0.5 M |
| `paywall` | `MCPaywall.cfg` | two exchanges at once, four headers, a shared identifier, one death of either process | 3.8 M |
| `paywall_live` | `MCPaywallLive.cfg` | every request is answered; a settled payment presented again is served in the end, across two deaths; a settled binding survives pruning | 26 k |
| `paywall_rebound` | `MCPaywallRebound.cfg` | *violation* of `ServedPaid` (section 6) | - |
| `faucet` | `MCFaucet.cfg` | two claims, the reconciler and three faults of any kind | 0.4 M |
| `faucet_retried` | `MCFaucetRetried.cfg` | *violation* of `RefusedNeverPaid`: a repeated send frees the window of a claim that paid (section 6) | - |
| `sponsor` | `MCSponsor.cfg` | the three services, two requests, a midnight and two faults | 0.3 M |
| `outings` | `MCOutings.cfg` | two jobs, the seller process, a death and a restart with either key, an expiry, a sale of the guardian | 0.5 M |
| `guardians` | `MCGuardians.cfg` | births, upgrades and reinstated pairs, hooks, batches with duplicates, administration | 0.1 M |

Some checked names are conjunctions of named parts, each with its own comment in the module:

| name | parts |
|---|---|
| `NothingStranded` (`SettlementRecovery`) | `QueueExact`, `NoNonceGap` |
| `BudgetsHold` (`SettlementJournal`) | `BudgetExact`, `SpentWithinCaps` |
| `BooksExact` (`Scheduler`) | `TypeOK`, `CommittedExact`, `SlotsBounded`, `OnePerInterval`, `OpenRunHoldsJob` |
| `OneLeafPerIdentifier` (`SellerPaywall`) | `TypeOK`, `BindingTruthful`, `IdentifierChargesOnce` |
| `NoncesSound` (`Faucet`) | `TypeOK`, `NonceExclusive` |
| `BudgetHolds` (`Sponsor`) | `TypeOK`, `BudgetExact`, `DayBounded` |
| `RoundsSound` (`Outings`) | `TypeOK`, `PaidRoundFits`, `RoundsPaid` |
| `HoldingsSound`, `LatestDrawOnly` (`Guardians`) | `TypeOK`, `PoolExact`, `LanesExact`, `PendingHeld`, `SignerIsNotOwner`; `BornOfLatest`, `OneLiveDraw` |

### Bounds, and why they are enough

* **Two intents**: one is the payment under scrutiny, the other is what can
  stand before it in the prepare queue, at the nonce below it or in the same budget. Nonce holes, queue
  stranding and cap overruns all need exactly two.
* **Two calls**: an owner and one coalesced with it; because slots are reused, also any number of sequential retries.
* **One crash** (`MaxCrashes`) at any point. A crash resets the process to its initial state over whatever is
  durable, so a second one meets no new kind of state; the theorems hold for every number.
* **Days 0..1, retention 0** (`recovery_days`): a receipt on a later day than its claim, and rejected rows pruned. The same instance with `MaxRejected` 1
  (1.0 M states, event ids freed and reused) passes as well. `MaxRejected` only bounds how many rejections are on file at once; with 0, as `recovery_days` has it, the reuse of an id after
  a prune is left to theorem `AccountsOnce`, which holds for every bound.
* **Limits of 2 with prices 1 and 2**: a budget that admits both intents, only one of them, or neither; in `recovery_days` a payer's cap of 1 under a total of 2.
* **Scheduler**: `MaxTime` 5 covers both slots of the job's terms, a retry or a miss of the first, a retry the end cuts off, and an instant past the end; offers of 1 to 3 lie below, on and
  above the per-slot maximum; two workers overlap on one job.
* **Paywall**: two leaves under one identifier, one of them also for another item and without the identifier, are the four ways `bind` can answer; two slots overlap any
  two exchanges and are reused for retries. Aging is checked with one slot (`paywall_live`), because with two the property fails (section 6); two identifiers and an
  overflow of `KeepUnsettled` pass too.
* **Faucet**: two requests that may be of one owner or of two, of either kind; the wallet can pay one ETH grant above the floor, not two. Three faults are what it takes to open a gap below a
  signed claim and have its fill fail. In `faucet_retried` one fault, the timeout of a send, is enough, in a wallet that can pay both grants.
* **Sponsor**: prices with room for one hold and a fee above it; two faults lose sight of one transaction and then kill the process.
* **Outings**: two rounds with one ranked attempt a day, so two jobs compete for it; two keys, so a restart may find rows of the other one.
* **Guardians**: two pairs and two upgrades are an upgrade and its reversal; `MaxSequence` 4 is all the requests two tokens can then make of one pair. Receivers that are full (`MaxOwned` 1), three calls and a supply of three pass too.

### Fairness

* `Responsive`: weak fairness of every operation's next turn. A JavaScript process that has not crashed runs
  its microtasks, and every await in the path has a timeout or rejects (the turn may be `GiveUp` or `NotReady`). It is all `CallsAnswered` needs.
* `Persistent`: strong fairness of looking up, sending, concluding and mining, and of the payment being presented again. This is an
  assumption about the world, not the code: an RPC that fails sometimes does not fail always, the
  chain includes transactions, and somebody retries. The last one matters: the code has no background
  recovery, a pending claim moves only when the same payment arrives.
* Scheduler: strong fairness of each worker's work (a tick is attempted on a timer for as long as the process lives), weak fairness of restart and of time.
* Faucet: weak fairness of each claim's steps, of the reconciler (an interval), of time and of mining. Faults are finitely many, so in the end the node answers and takes what fits.
* Sponsor: weak fairness of each request's steps, every RPC being bounded by a timeout.
* Outings: weak fairness of the runner (it polls every two seconds and every await ends) and of a dead lease's lapse. `Attended` is conditional on the owners not pressing stop and resume for ever, since each press moves the job to the back.
* Guardians: a mint is one transaction and ends; Pyth delivers what the contract accepts; a minter asks again when the contract lets it.
* Paywall: `Turns` (weak fairness of the seller's turns, whose timeouts always leave one, and of reading the answer) is all `AllAnswered` uses; `Persistence` adds that the buyer presents the
  payment again and that no failure (a rate limit, a lost answer, a failing table) recurs forever.

## 4. Proofs

TLAPS proves the theorems below for every value of the constants: any number of intents, calls, workers, requests or tokens, all prices and limits,
any number of crashes, faults and days. Each proof module has one inductive invariant in named parts, a lemma per action and part it can disturb, and the theorems it gives.

| module | theorem | statement |
|---|---|---|
| `SettlementProofs` | `InductiveInvariant` | `Spec => []IInv` |
| | `TypeCorrect` | `Spec => []TypeOK` |
| | `PaymentsChargedOnce` | `Spec => []ChargedAtMostOnce` |
| | `HashBeforeBroadcast` | `Spec => []BroadcastIsJournaled` |
| | `OneSettlingAnswer` | `Spec => []AtMostOneUnmarked` |
| | `Truthfulness` | `Spec => []AnswersTruthful` |
| | `AccountsOnce` | `Spec => []AccountedOnce` |
| | `RefusalsUncharged` | `Spec => RefusedUncharged` |
| | `Refinement` | `Spec => ImplementsPaymentOnce` |
| | `BudgetsExact` | `Spec => []BudgetExact` |
| | `BudgetsAlwaysHold` | `L1Fees = {0}` implies `Spec => []BudgetsHold` |
| | `NothingIsStranded` | `Spec => []NothingStranded` |
| `SchedulerProofs` | `Invariance` | `Spec => []IInv` |
| | `BooksAlwaysExact` | `Spec => []BooksExact` |
| | `ChargesAlwaysCovered` | `Spec => []ChargesCovered` |
| | `SlotsAlwaysChargedOnce` | `Spec => []SlotChargedOnce` |
| | `CancelAlwaysHolds` | `Spec => CancelHolds` |
| `PaywallProofs` | `Invariance` | `Spec => []Flow` |
| | `ReadingsUncharged` | `Spec => []UnchargedReading` |
| | `SettledBindingsKept` | `Spec => SettledBindingKept` |
| | `OrdersPaid` | `Spec /\ [][SparesExchanges]_vars => []ServedPaid` |
| | `IdentifiersChargeOnce` | `Spec /\ [][SparesSent]_vars => []OneLeafPerIdentifier` |
| `FaucetProofs` | `Invariance` | `Spec => []IInv` |
| | `NoncesAlwaysSound` | `Spec => []NoncesSound` |
| | `LedgerAlwaysTruthful` | `Spec => []LedgerTruthful` |
| | `PaidOnceAlways` | `Spec => []PaidOncePerWindow` |
| | `FloorInvariance` | `Spec => []FloorInv` |
| | `FloorAlwaysKept` | `Spec => FloorKept` |
| `SponsorProofs` | `Invariance` | `Spec => []IInv` |
| | `BudgetAlwaysHolds` | `Spec => []BudgetHolds` |
| | `GiftsMadeOnce` | `Spec => []OneGift` |
| | `AnswersAlwaysTruthful` | `Spec => []AnswerTruthful` |
| `OutingsProofs` | `RowsTyped` | `Spec => [](TypeOK /\ RoundsPaid)` |
| | `StopAlwaysHeld` | `Spec => StopHeld` |
| | `HeadersKept` | `Spec => []HeaderKept` |
| | `RoundsAlwaysSound` | `Spec => []RoundsSound` |
| `GuardiansProofs` | `Invariance` | `Spec => []IInv` |
| | `HoldingsAlwaysSound` | `Spec => []HoldingsSound` |
| | `LatestDrawAlwaysOnly` | `Spec => []LatestDrawOnly` |
| | `PaymentsAlwaysGrowOnce` | `Spec => []PaymentsGrowOnce` |

### Assumptions

Every module names the facts about its constants that the proofs use (`JournalAssumption`, `RecoveryAssumption`, `SchedulerAssumption`, `PaywallAssumption`,
`TimeAssumption`, `FeeAssumption`, `CostAssumption`, a `RequestAssumption` each in `Faucet` and `Sponsor`, `SizeAssumption`, `DeploymentAssumption`, `ResultAssumption`, `NobodyAssumption`, `BoundsAssumption`, `KeysAssumption`):
constants have their types, sets that are summed over are finite, placeholders are no members, and the relations the code's own configuration checks. `BoundsAssumption` asks for at least one admission, as the start request's validation does. TLC evaluates them on every run. Three theorems have hypotheses of their own:

* `BudgetsAlwaysHold` is about chains without an L1 data fee. With one, `SpentWithinCaps` is false (section 6); `BudgetsExact` holds either way.
* `OrdersPaid` and `IdentifiersChargeOnce` assume that no `prune()` drops a row in use (and, for the second, one under which a payment was sent). The hypothesis is
  needed: run `paywall_rebound` violates `ServedPaid` in the case it excludes. In run `paywall` it holds of every behaviour, since no time passes there and there is room for every identifier.

Two theorems state an exception in the property itself: `LedgerTruthful` and `PaidOncePerWindow` leave out the claims in `misread`, which the node refused after it had mined them. Without the
exception both are false; run `faucet_retried` is the counterexample (section 6). That one exception is enough, whatever else crashes, times out or is sent again, is what the theorems add.

### Sums

Budgets, committed amounts and grown results are sums over sets that grow. The library's induction theorems take an operator as a parameter, which the provers cannot instantiate, so `SumTheorems` goes
another way: a sum of naturals is a *count*, the cardinality of the set of pairs of an element and one of its units. That count satisfies the recursive equation of `SumFunctionOnSet`; a least subset on which
a solution differed from it would, one element removed, contain a smaller one. From there `SumUpdate`, `SumAdd`, `SumDisjoint`, `SumMonotone`, `SumConstant`, `SumFibres`, `CountImage` are short, and cited wherever an action moves a total by a difference.

### The arguments

*Settlement.* `ChargedAtMostOnce` is not inductive: it holds because a mined transaction *is* the one its row
names and rows never change. So `IInv` is a conjunction of:

* `TypeInv` - `TypeOK` with the facts the prover needs to take a maximum (finite ledger, finite rows): without them
  `NextEventId` and `NextNonce` need not be numbers, let alone fresh ones;
* `DurableInv` - broadcast transactions equal the transactions of their rows; receipts are unique per transaction;
  event ids are unique; a row's event belongs to that intent and agrees with the receipt; an operation that is allocating or preparing
  is the head of the queue and its intent is unclaimed. The head-of-queue part is what carries
  *unclaimed* from `LookUp` over two awaits to `ClaimPrepared`;
* `FreshAccounted` - an unmarked answer was given only for a terminal row, and an operation that may still give one has
  a row that is not terminal; this is what makes `fresh` at most one;
* `AnswersTruthful` itself, inductive given the others.

`Refinement` maps every step to a `PaymentOnce` step or a stutter from `IInv` in both states. The budgets are a separate induction on top (`BudgetInv`, `CapsInv`: a row's spending never exceeds its reservation), and so is
`NothingStranded` (`NonceInv`: the rows' nonces are an initial segment; `OwnerInv`: an operation has a call that owns it; `LineInv`: the queue lists the unclaimed operations, each once).

*Scheduler.* `StoreInv` says what is on file: a job's counters and total are those of its runs and its next slot lies in a later interval (`CountsOK`, `SlotOK`), an open run is its job's last and holds it (`RunOK`), of two runs of one slot the earlier is unpaid and a new slot is in a later interval (`PairOK`). `MoneyInv` says why a charge is covered: a header in flight or a charge belongs to a run whose outcome allows it (`HeaderOK`, `ChargeOK`), a worker in the executor holds an open run (`Held`), and no two the same (`Distinct`). `Distinct` is
what lets a worker's late `finish` write its row; `SlotChargedOnce` follows from `PairOK` and `ChargeOK` only together.

*Paywall.* `Flow` follows one payment through one exchange and says nothing of the tables, so it survives every prune; `UnchargedReading` needs no more. `RowInv` ties the row of an identifier to the exchange that bound it, and `SentInv` to what went to `/settle`; they are inductive only for steps that spare those rows.

*Faucet.* `ClaimOK` and `PooledOK` say what a row's state implies of its bytes and that bytes in the pool belong to a signed row past its own broadcast. `TodoOK` and `RecInv` are what the reconciler still knows of a row it read before an await: a claim may have
advanced meanwhile, but never back. `RecentInv` carries the reservation's look at earlier claims forward to every later payment, which is what `PaidOncePerWindow` is about.
The floor is a second induction on top (`FloorInv`). `Exposure` is what every claim has taken or may still take, `Ahead(n)` the same for claims below nonce `n` only; `affordable()`'s subtraction (a grant per signed ETH claim, `MintFee` for each) covers
`Exposure` (`Affords`). `CheckedInv`: while a checked ETH claim is not signed yet, `Exposure` and its grant leave the floor. It survives the await because `MutexInv` keeps every other signature out, and all other steps only shrink `Exposure`. `GrantInv`: once signed with nonce `n`, `Ahead(n)` and the grant leave the floor. It survives later signatures because their
nonces are above every live one, and a landing below because that takes at most its cost. When the claim lands, what has been taken is `Ahead(n)` and its own cost. The fees of gap fills are in neither, which is why `FloorKept` sets them apart.

*Sponsor.* `FlightInv` says which request waits for which transaction and that an account the sponsor pays for has one flight at a time; `GiftInv`, that a deposit seen to arrive stays until its nonce is used, so that a later request finds no shortfall; `MoneyInv`, that memory's reserved
amount is the sum of the open holds, the book of a day the sum of the day's charges, and that book plus holds stay under the limit. `BudgetHolds` is not inductive without the correspondence of holds to requests and transactions, since a settlement after midnight moves another day's book.

*Outings.* `IInv`: rows and the runner's copy agree on whose header is whose (`RowsOK`, `RunnersOK`), recorded rounds are paid, the rows stay totally ordered. Every step is either *quiet*, it updates rows without touching a payment, or one of seven that sign, store, record, insert or charge, so each part of the invariant
is argued for one lemma of quiet steps and seven others. `LInv` is about the awaits: the copy the runner read before one still agrees with its row where `save(job)` will overwrite it (`CopyOK`: no header was put on the row meanwhile, the rounds are the same, and its ranked attempt is still free), because only the runner signs and records. From that a signed header is kept (`HeaderKept`)
and the ranked attempts of open rows and recorded rounds are distinct (`AttemptsOK`), which with `LedgerOK` is why the ledger's `UNIQUE` keys never refuse a paid round.

*Guardians.* `PoolInv` (the pool's remaining slots list the unminted IDs, each once), `LaneInv` (a token is in exactly its owner's lanes, also between a mint's `_update` and its end), `PendingInv`, `DrawInv` (a sequence stands for one request of one token, each request is filed once, and what Pyth
holds is what the contract filed), `BornOfLatest` and `KeysInv`. `PaymentsGrowOnce` is a sum over tokens and games with an invariant of its own (`GrowInv`); the payments of a batch are counted, duplicates included, rather than folded over.

### Model-checked only

All liveness (`ClaimsConclude`, `CallsAnswered`, `JobsComeToRest`, `AllAnswered`, `PaidIsServed`, `ClaimsFinish`, `RequestsAnswered`, `Attended`, `BirthsRevealed`): fairness and `ENABLED` are beyond the prover. Every invariant and every safety
action property that a run checks is stated by a theorem.

## 5. Not modelled

Read-only endpoints (`/metrics`, ledger lists), logging and formatting; EIP-712 encoding, signatures and chain reads of `policy.ts`,
`signing.ts`, `live-verifier.ts` (data conversions without state); the numeric arcade simulations; user interfaces, the docs site and the lab scripts.
More than one process on one signer is excluded, as the facilitator's README excludes it (line 129: a signer is used by one facilitator process only); no code enforces it.
More than one seller process over one database is excluded as well, as its operator's instructions exclude it (`outings/README.txt:13`: do not run two seller processes; lines 56-57: the database lease blocks a duplicate process, yet the single-seller rule is to be kept;
`docs/arcade-guardians-release.md:115`). The lease alone would not be enough. `control()` (`runner.ts:24-39`), `persist()` (79-82), the check and the save after `inspect` (71-74) and the save of a transaction (84-85) each read a row and write it back whole in two commits, so that a second
process could put its own write between them and lose a header, a stop or a recorded round. None of what is said here of outings holds for two sellers. Chain
reorganisations are not modelled: the code treats a receipt as final.

The spend gate of the agent runtime (sums over the payments of one session, in one process) and the cached probe and limiters (`guards.ts`) only refuse early; every model lets such a refusal happen whenever the
code could. The delegated seller's guardian server and ranking board read and order rows; the keys that make their ledger safe are `Clash` in `Outings`. `MockUSDC` is a plain token.
The web application, the lab, the docs site and the arcade package with its generated ABI (`guardian-abi.ts`), most of the repository's lines, hold no durable state a property of this kind is about.

## 6. Findings

`paywall_rebound`: `record()` names the identifier only. An old unsettled binding is presented again, pruned by another exchange's `bind` during the settlement, and its identifier bound to a
second leaf; the first leaf's `record()` then marks the second's row settled, and that leaf is served without a settlement. A `payment_intent_id` in the `UPDATE`, or a fresh
`bound_at` on a repeated `bind`, would rule it out.

`faucet_retried`: `throttledHttp` drops the `retryCount: 0` (`rpc.ts:107`), so a broadcast that timed out is sent again; bytes the first send mined answer "nonce too low", `sendRaw` returns `rejected` (`faucet/index.ts:141-144`) and `broadcast()` marks the
claim failed (`claims.ts:426-428`), on the ground that a node that answers with an error did not take the transaction (`claims.ts:384-385`). A failed claim frees its owner's window, and the next claim in it is paid too. Passing the options on in the wrapper, or the reconciler's look at the receipt
after a refusal, would rule it out.

What the models show without a run of its own:

* The facilitator's README (`src/apps/facilitator-erc7710/README.md:13`) describes `RELAYER_DAILY_WEI` as the most gas the signer may
  spend in a UTC day. `claim()` enforces it on `gas * maxFeePerGas`; `finish()` books `gasUsed * effectiveGasPrice + l1Fee`, and the L1 data fee is in no
  reservation: with `L1Fees` above 0, `SpentWithinCaps` fails by at most one L1 fee per settlement. The sponsors' budgets have the same excess, which `DayBounded` states.
* Which 409 a second leaf under an identifier gets depends on whether the first was *recorded*, and `record()` runs only on a settled answer. After a 504 whose payment settled later the buyer is told
  `payment_identifier_conflict`, whose meaning is that nothing was charged under the name (`seller/src/index.ts:125`, `facilitator-contract.ts:151`).
* Sponsor: a send that throws after the node took it is charged 0, against "A failed broadcast charges `0n` only when nothing was mined" (`account-bootstrap.ts`); `DayBounded` and `OneGift` except exactly these. Because the nonce is read before the deposit, a `handleOps` the service lost sight of can cause a second gift (the comment at `revocation-submitter/index.ts:579` rules it out).
  A reservation made with a `now` from before midnight rolls the budget's day back; that is safe, because charges are persisted per day.
* Outings: `insert`'s sweep may stop an expired job while a runner inspects it, and the runner's stale `save` brings it back, so that for a moment two outings of one epoch are open (`outings.test.ts:237` tests the sequential case). A header that expires uncharged stays on its paused job and keeps the guardian busy for that epoch.

Two comments the paywall model contradicts. A payment mined as `vendor_not_credited` and presented again (its 502 was lost) is refused by `/verify` as
`invalid_transaction_state`, and the seller re-issues the offer without the hash, although `facilitator-contract.ts:119` says that this outcome must not be answered so; `LookUp` has that step. And
`app.ts:584` says that a retry cannot recover an unrecorded order: the recorded identifier, and `/verify`'s look-up of known payments, both recover it, which `PaidIsServed` relies on.

## 7. Plan

1. Compose `SellerPaywall` with `SettlementRecovery` in place of `PaymentOnce`, and the outing runner in front of it.
2. The spend gate of the agent runtime.
