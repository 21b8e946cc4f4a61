-------------------------- MODULE SettlementJournal --------------------------
(***************************************************************************)
(* The durable half of the facilitator: packages/store/src/settlement.ts   *)
(* (intents and the two daily gas budgets) with the ledger of              *)
(* packages/store/src/index.ts that its terminal rows point into.          *)
(*                                                                         *)
(* Every method is one SQLite transaction, so every method is one action;  *)
(* a transaction that throws rolls back and is a stuttering step.  A crash *)
(* of the process touches none of these variables.                         *)
(*                                                                         *)
(*   rows    settlement_intents: a partial function, its domain is the set *)
(*           of claimed payment intents                                    *)
(*   budget  budget_days: wei per scope ("total" or a payer) and UTC day   *)
(*   ledger  settlement_events                                             *)
(*   day     the UTC day Date.now() falls in                               *)
(***************************************************************************)
EXTENDS Integers, FiniteSets, FiniteSetsExt, Functions

CONSTANTS
    Intents,        \* payment intent ids
    Payers,         \* payer accounts
    PayerOf,        \* the payer each intent charges
    TotalLimit,     \* RELAYER_DAILY_WEI
    PayerLimit,     \* RELAYER_PAYER_DAILY_WEI
    Reservations,   \* the values gas * maxFeePerGas takes
    L1Fees,         \* the values a receipt's l1Fee takes
    MaxDay,         \* bound: the last UTC day of a behaviour
    RetentionDays,  \* REJECTED_SETTLEMENT_RETENTION_MS, in days
    KeepRejected,   \* REJECTED_SETTLEMENTS_KEPT
    MaxRejected     \* bound: rejected ledger rows on file at once

Days == 0 .. MaxDay
Scopes == Payers \cup {"total"}
Outcomes == {"settled", "error", "rejected"}

ASSUME JournalAssumption ==
    /\ "total" \notin Payers
    /\ PayerOf \in [Intents -> Payers]
    /\ TotalLimit \in Nat /\ PayerLimit \in Nat
    /\ PayerLimit <= TotalLimit
    /\ Reservations \subseteq Nat
    /\ L1Fees \subseteq Nat
    /\ MaxDay \in Nat /\ RetentionDays \in Nat
    /\ KeepRejected \in Nat \ {0} /\ MaxRejected \in Nat

VARIABLES rows, budget, ledger, day

journalVars == <<rows, budget, ledger, day>>

(***************************************************************************)
(* A row's `event` is terminal_event_id (0 for NULL: ids start at 1) and   *)
(* `cost` its actual_cost, meaningful once the event is set.  The envelope *)
(* is kept as what the properties tell apart: its nonce and its worst-case *)
(* price.                                                                  *)
(***************************************************************************)
Row == [nonce : Nat, reserved : Nat, day : Days, cost : Nat, event : Nat]
Event == [id : Nat \ {0}, at : Days, outcome : Outcomes, intent : Intents]

JournalTypeOK ==
    /\ DOMAIN rows \subseteq Intents
    /\ rows \in [DOMAIN rows -> Row]
    /\ budget \in [Scopes -> [Days -> Nat]]
    /\ ledger \subseteq Event
    /\ day \in Days

JournalInit ==
    /\ rows = [i \in {} |-> 0]
    /\ budget = [s \in Scopes |-> [d \in Days |-> 0]]
    /\ ledger = {}
    /\ day = 0

-----------------------------------------------------------------------------
(* Reads. *)

Claimed(i) == i \in DOMAIN rows

EventIds == {e.id : e \in ledger}

\* read(): a row is terminal when the event it names is still on file.
Terminal(i) == Claimed(i) /\ rows[i].event \in EventIds

TerminalEvent(i) == CHOOSE e \in ledger : e.id = rows[i].event

\* Mutant: the last nonce used instead of the next.
NextNonceMutLast(pending) == Max({pending - 1} \cup {rows[j].nonce : j \in DOMAIN rows})

\* Mutant: one nonce is left unused between two claims.
NextNonceMutSkips(pending) == Max({pending} \cup {rows[j].nonce + 2 : j \in DOMAIN rows})

\* The node's pending count is the floor; the journal's own nonces may be ahead.
NextNonce(pending) == Max({pending} \cup {rows[j].nonce + 1 : j \in DOMAIN rows})

\* INTEGER PRIMARY KEY without AUTOINCREMENT: one past the largest id on file.
NextEventId == Max({0} \cup EventIds) + 1

Charge(i) == {"total", PayerOf[i]}

-----------------------------------------------------------------------------
(* Writes. *)

PayerExhausted(i, wei) == budget[PayerOf[i]][day] + wei > PayerLimit

TotalExhausted(i, wei) == budget["total"][day] + wei > TotalLimit

\* claim(): the row and both reservations land together, or nothing does.  A claim
\* that finds the intent on file returns that row and writes nothing.
Claim(i, nonce, wei) ==
    /\ ~Claimed(i)
    /\ ~PayerExhausted(i, wei)
    /\ ~TotalExhausted(i, wei)
    /\ \A j \in DOMAIN rows : rows[j].nonce # nonce
    /\ rows' = [j \in DOMAIN rows \cup {i} |->
                  IF j = i THEN [nonce |-> nonce, reserved |-> wei, day |-> day,
                                 cost |-> 0, event |-> 0]
                  ELSE rows[j]]
    /\ budget' = [s \in Scopes |-> IF s \in Charge(i)
                                   THEN [budget[s] EXCEPT ![day] = @ + wei]
                                   ELSE budget[s]]
    /\ UNCHANGED <<ledger, day>>

\* Mutant: only the total scope is moved to the actual cost.
FinishMutTotal(i, cost, outcome) ==
    /\ Claimed(i) /\ ~Terminal(i)
    /\ budget' = [budget EXCEPT !["total"][rows[i].day] = @ - rows[i].reserved + cost]
    /\ ledger' = ledger \cup {[id |-> NextEventId, at |-> day, outcome |-> outcome, intent |-> i]}
    /\ rows' = [rows EXCEPT ![i].event = NextEventId, ![i].cost = cost]
    /\ UNCHANGED day

\* finish(): both scopes of the day the reservation was made on move from the
\* reservation to the actual cost, and the terminal event is recorded, once.
Finish(i, cost, outcome) ==
    LET d == rows[i].day
        moved(s) == budget[s][d] - rows[i].reserved + cost
    IN  /\ Claimed(i)
        /\ ~Terminal(i)
        /\ \A s \in Charge(i) : moved(s) >= 0
        /\ budget' = [s \in Scopes |-> IF s \in Charge(i)
                                       THEN [budget[s] EXCEPT ![d] = moved(s)]
                                       ELSE budget[s]]
        /\ ledger' = ledger \cup {[id |-> NextEventId, at |-> day,
                                   outcome |-> outcome, intent |-> i]}
        /\ rows' = [rows EXCEPT ![i].event = NextEventId, ![i].cost = cost]
        /\ UNCHANGED day

Rejected == {e \in ledger : e.outcome = "rejected"}

\* ledger.record() of a refusal formed before the broadcast.
RecordRejection(i) ==
    /\ Cardinality(Rejected) < MaxRejected
    /\ ledger' = ledger \cup {[id |-> NextEventId, at |-> day,
                               outcome |-> "rejected", intent |-> i]}
    /\ UNCHANGED <<rows, budget, day>>

Newer(e, f) == e.at > f.at \/ (e.at = f.at /\ e.id > f.id)

\* Mutant: the retention deletes settled and error rows too.
PruneMut ==
    /\ ledger' = {e \in ledger : e.at >= day - RetentionDays}
    /\ UNCHANGED <<rows, budget, day>>

\* prune(): rejected rows past the retention, then all but the newest ones kept.
Prune ==
    LET recent == {e \in Rejected : e.at >= day - RetentionDays}
        kept == {e \in recent : Cardinality({f \in recent : Newer(f, e)}) < KeepRejected}
    IN  /\ ledger' = (ledger \ Rejected) \cup kept
        /\ UNCHANGED <<rows, budget, day>>

NextDay ==
    /\ day < MaxDay
    /\ day' = day + 1
    /\ UNCHANGED <<rows, budget, ledger>>

\* What a receipt can cost: at most the reserved worst case for the execution, plus
\* the L1 data fee, which the reservation does not price.
ActualCosts(i) == {l2 + l1 : l2 \in 0 .. rows[i].reserved, l1 \in L1Fees}

-----------------------------------------------------------------------------
(* Properties. *)

\* What one row contributes to its day: the reservation until it is terminal, the
\* actual cost afterwards.
Spent(i) == IF Terminal(i) THEN rows[i].cost ELSE rows[i].reserved

ChargedTo(s, d) == {i \in DOMAIN rows : s \in Charge(i) /\ rows[i].day = d}

\* settlement.ts keeps budgets incrementally, across days, restarts and prunes; they
\* equal what the rows say was reserved or spent on that day, in every scope.
BudgetExact ==
    \A s \in Scopes, d \in Days :
        budget[s][d] = SumFunctionOnSet([i \in DOMAIN rows |-> Spent(i)], ChargedTo(s, d))

TerminalEvents(i) == {e \in ledger : e.intent = i /\ e.outcome # "rejected"}

\* finish() "lands exactly once": an intent has at most one settled/error event, and
\* has one exactly when its row names it - whatever prune() deletes and whichever
\* event ids it frees for reuse.
AccountedOnce ==
    \A i \in Intents :
        /\ Cardinality(TerminalEvents(i)) <= 1
        /\ TerminalEvents(i) # {} <=> Terminal(i)
        /\ Terminal(i) => TerminalEvents(i) = {TerminalEvent(i)}

\* The daily caps of facilitator-erc7710/README.md: what a UTC day is charged, in total
\* and for one payer, never passes its limit.
SpentWithinCaps ==
    \A d \in Days :
        /\ budget["total"][d] <= TotalLimit
        /\ \A p \in Payers : budget[p][d] <= PayerLimit

\* The budgets of claim() and finish(), in both scopes and across midnight, are what the
\* rows say and never pass the limits the next claim is checked against.
BudgetsHold == BudgetExact /\ SpentWithinCaps
=============================================================================
