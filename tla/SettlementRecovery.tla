------------------------- MODULE SettlementRecovery --------------------------
(***************************************************************************)
(* The facilitator's /settle path: SettlementRecovery.settle               *)
(* (apps/facilitator-erc7710/recovery.ts) under the SettlementCoordinator  *)
(* of index.ts, over the durable SettlementJournal and one signer's        *)
(* account on the chain.                                                   *)
(*                                                                         *)
(* One process owns the signer.  Concurrent calls for one intent are       *)
(* coalesced into one operation (PaymentIntentSingleFlight); operations    *)
(* queue for the prepare-and-claim section and leave it before they touch  *)
(* the network.  Each action is the code between two awaits.               *)
(*                                                                         *)
(*   op       the in-flight operation of each intent                       *)
(*   queue    the #preparing promise chain, its head is the one running    *)
(*   call     the /settle requests: each slot is one HTTP exchange, reused *)
(*            by a later request (a retry, usually) once it was answered   *)
(*   mempool  what the node holds unmined, mined what the chain executed   *)
(*   fresh    history: answers per intent that were not marked replayed    *)
(*   crashes  history: how often the process died                          *)
(***************************************************************************)
EXTENDS SettlementJournal, Sequences

CONSTANTS
    Calls,        \* /settle request slots
    NoIntent,     \* what an idle slot carries
    NoCall,       \* what an idle operation carries
    MaxCrashes    \* bound: process deaths in a behaviour

ASSUME RecoveryAssumption ==
    /\ NoIntent \notin Intents
    /\ NoCall \notin Calls
    /\ MaxCrashes \in Nat

VARIABLES op, queue, call, mempool, mined, fresh, crashes

processVars == <<op, queue, call, fresh>>
chainVars == <<mempool, mined>>
vars == <<rows, budget, ledger, day, op, queue, call, mempool, mined, fresh, crashes>>

(***************************************************************************)
(* A transaction is the envelope its journal row stores and the calldata   *)
(* its intent determines, so its hash is injective in these fields and two *)
(* signings of one row are the same transaction.                           *)
(***************************************************************************)
Tx == [intent : Intents, nonce : Nat, reserved : Nat]
ReceiptOutcomes == {"settled", "settlement_reverted", "vendor_not_credited"}
Receipt == [tx : Tx, outcome : ReceiptOutcomes, cost : Nat]

Stages == {"idle", "queued", "nonce", "prepare", "receipt", "sending", "waiting"}
Answers == {"settled", "error", "pending", "rejected", "not_ready"}

Operation == [pc : Stages, owner : Calls \cup {NoCall}, replayed : BOOLEAN, nonce : Nat]
Call == [st : Answers \cup {"idle", "waiting", "refused"},
         intent : Intents \cup {NoIntent}, replayed : BOOLEAN]

IdleOp == [pc |-> "idle", owner |-> NoCall, replayed |-> FALSE, nonce |-> 0]
IdleCall == [st |-> "idle", intent |-> NoIntent, replayed |-> FALSE]

TypeOK ==
    /\ JournalTypeOK
    /\ op \in [Intents -> Operation]
    /\ queue \in Seq(Intents)
    /\ call \in [Calls -> Call]
    /\ mempool \subseteq Tx
    /\ mined \subseteq Receipt
    /\ fresh \in [Intents -> Nat]
    /\ crashes \in 0 .. MaxCrashes

Init ==
    /\ JournalInit
    /\ op = [i \in Intents |-> IdleOp]
    /\ queue = <<>>
    /\ call = [c \in Calls |-> IdleCall]
    /\ mempool = {}
    /\ mined = {}
    /\ fresh = [i \in Intents |-> 0]
    /\ crashes = 0

-----------------------------------------------------------------------------
(* The chain, as the signer's client sees it (external). *)

\* Mutant: the envelope is rebuilt on the account's current nonce, not the row's.
TxOfMut(i) == [intent |-> i, nonce |-> Cardinality(mined), reserved |-> rows[i].reserved]

TxOf(i) == [intent |-> i, nonce |-> rows[i].nonce, reserved |-> rows[i].reserved]

Mined(tx) == \E r \in mined : r.tx = tx
ReceiptOf(i) == CHOOSE r \in mined : r.tx = TxOf(i)

\* The account's nonce: how many of its transactions the chain has executed.
AccountNonce == Cardinality(mined)

\* A node's "pending" count lies between the mined count and one past the longest
\* unbroken run of transactions it holds; a node that lags answers less.
PendingNonces ==
    {n \in AccountNonce .. AccountNonce + Cardinality(mempool) :
        \A k \in AccountNonce .. n - 1 : \E t \in mempool : t.nonce = k}

\* The chain executes the account's next nonce, and the redemption succeeds, reverts,
\* or succeeds without crediting the seller.
Mine(t) ==
    /\ t \in mempool
    /\ t.nonce = AccountNonce
    /\ \E o \in ReceiptOutcomes, c \in ActualCosts(t.intent) :
          mined' = mined \cup {[tx |-> t, outcome |-> o, cost |-> c]}
    /\ mempool' = mempool \ {t}
    /\ UNCHANGED <<journalVars, processVars, crashes>>

\* A node may forget an unmined transaction.
Evict(t) ==
    /\ t \in mempool
    /\ mempool' = mempool \ {t}
    /\ UNCHANGED <<journalVars, processVars, mined, crashes>>

-----------------------------------------------------------------------------
(* Answering: every call coalesced into the operation gets its outcome. *)

Waiting(c, i) == call[c].st = "waiting" /\ call[c].intent = i

\* The operation's promise rejects: each caller is handed the same error.
Resolve(i, st) ==
    /\ call' = [c \in Calls |-> IF Waiting(c, i) THEN [call[c] EXCEPT !.st = st] ELSE call[c]]
    /\ op' = [op EXCEPT ![i] = IdleOp]
    /\ UNCHANGED fresh

\* Mutant: a coalesced call is handed the owner's flag.
MarkedMut(c, i, replayed) == replayed

\* Only the call that owns the operation may answer unmarked, and only when the journal
\* held nothing as it began.
Marked(c, i, replayed) == c # op[i].owner \/ replayed

Unmarked(i, replayed) == {c \in Calls : Waiting(c, i) /\ ~Marked(c, i, replayed)}

\* The operation resolves with a terminal row.
ResolveTerminal(i, st, replayed) ==
    /\ call' = [c \in Calls |->
                  IF Waiting(c, i)
                  THEN [call[c] EXCEPT !.st = st, !.replayed = Marked(c, i, replayed)]
                  ELSE call[c]]
    /\ op' = [op EXCEPT ![i] = IdleOp]
    /\ fresh' = [fresh EXCEPT ![i] = @ + Cardinality(Unmarked(i, replayed))]

\* Mutant: a redemption that did not credit the seller counts as settled.
LedgerOutcomeMut(o) == IF o = "settlement_reverted" THEN "error" ELSE "settled"

LedgerOutcome(o) == IF o = "settled" THEN "settled" ELSE "error"

-----------------------------------------------------------------------------
(* settle(), from arrival to answer. *)

\* A request for an intent already in flight joins it; otherwise it starts the
\* operation, which queues for the prepare-and-claim section.
Arrive(c, i) ==
    /\ call[c].st = "idle"
    /\ call' = [call EXCEPT ![c] = [st |-> "waiting", intent |-> i, replayed |-> FALSE]]
    /\ IF op[i].pc = "idle"
       THEN /\ op' = [op EXCEPT ![i] = [IdleOp EXCEPT !.pc = "queued", !.owner = c]]
            /\ queue' = Append(queue, i)
       ELSE UNCHANGED <<op, queue>>
    /\ UNCHANGED <<journalVars, chainVars, fresh, crashes>>

\* The head of the prepare queue is the only operation inside the section.
Preparing(i) == queue # <<>> /\ Head(queue) = i

LeaveQueue == queue' = Tail(queue)

\* Mutant: an open row is reported pending and never resumed.
LookUpMut(i) ==
    /\ op[i].pc = "queued"
    /\ Preparing(i)
    /\ \/ /\ Terminal(i)
          /\ LeaveQueue
          /\ ResolveTerminal(i, TerminalEvent(i).outcome, TRUE)
       \/ /\ Claimed(i) /\ ~Terminal(i)
          /\ LeaveQueue
          /\ Resolve(i, "pending")
       \/ /\ ~Claimed(i)
          /\ op' = [op EXCEPT ![i].pc = "nonce"]
          /\ UNCHANGED <<queue, call, fresh>>
    /\ UNCHANGED <<journalVars, chainVars, crashes>>

\* known(): a terminal row answers at once, an open one is resumed, none means a new claim.
LookUp(i) ==
    /\ op[i].pc = "queued"
    /\ Preparing(i)
    /\ \/ /\ Terminal(i)
          /\ LeaveQueue
          /\ ResolveTerminal(i, TerminalEvent(i).outcome, TRUE)
       \/ /\ Claimed(i) /\ ~Terminal(i)
          /\ LeaveQueue
          /\ op' = [op EXCEPT ![i].pc = "receipt", ![i].replayed = TRUE]
          /\ UNCHANGED <<call, fresh>>
       \/ /\ ~Claimed(i)
          /\ op' = [op EXCEPT ![i].pc = "nonce"]
          /\ UNCHANGED <<queue, call, fresh>>
    /\ UNCHANGED <<journalVars, chainVars, crashes>>

\* Mutant: the transaction goes out before its claim is durable.
AllocateNonceMut(i) ==
    /\ op[i].pc = "nonce"
    /\ \E p \in PendingNonces, w \in Reservations :
          /\ op' = [op EXCEPT ![i].pc = "prepare", ![i].nonce = NextNonce(p)]
          /\ mempool' = mempool \cup {[intent |-> i, nonce |-> NextNonce(p), reserved |-> w]}
    /\ UNCHANGED <<journalVars, mined, queue, call, fresh, crashes>>

\* pendingNonce() answered; nextNonce() reads the journal in the same turn.
AllocateNonce(i) ==
    /\ op[i].pc = "nonce"
    /\ \E p \in PendingNonces :
          op' = [op EXCEPT ![i].pc = "prepare", ![i].nonce = NextNonce(p)]
    /\ UNCHANGED <<journalVars, chainVars, queue, call, fresh, crashes>>

\* prepare() returned signed bytes and the claim commits in the same turn.
ClaimPrepared(i) ==
    /\ op[i].pc = "prepare"
    /\ \E w \in Reservations : Claim(i, op[i].nonce, w)
    /\ op' = [op EXCEPT ![i].pc = "receipt"]
    /\ LeaveQueue
    /\ UNCHANGED <<chainVars, call, fresh, crashes>>

\* Mutant: the promise chain is not released when the section throws.
NotReadyMut(i) ==
    /\ \/ op[i].pc = "queued" /\ Preparing(i)
       \/ op[i].pc \in {"nonce", "prepare"}
    /\ Resolve(i, "not_ready")
    /\ UNCHANGED <<journalVars, chainVars, queue, crashes>>

\* An unreadable journal, a claim that could not be written, or an RPC that stopped
\* answering before the broadcast: no verdict, facilitator_not_ready.
NotReady(i) ==
    /\ \/ op[i].pc = "queued" /\ Preparing(i)
       \/ op[i].pc \in {"nonce", "prepare"}
    /\ Resolve(i, "not_ready")
    /\ LeaveQueue
    /\ UNCHANGED <<journalVars, chainVars, crashes>>

\* The simulation reverted, the gas passed the cap, or a step before the claim threw
\* anything that is not a dead transport: a rejection.
RefuseRedemption(i) ==
    /\ op[i].pc \in {"nonce", "prepare"}
    /\ Resolve(i, "refused")
    /\ LeaveQueue
    /\ UNCHANGED <<journalVars, chainVars, crashes>>

\* claim() threw SettlementBudgetExceeded; its transaction rolled back.
RefuseBudget(i) ==
    /\ op[i].pc = "prepare"
    /\ \E w \in Reservations : PayerExhausted(i, w) \/ TotalExhausted(i, w)
    /\ Resolve(i, "refused")
    /\ LeaveQueue
    /\ UNCHANGED <<journalVars, chainVars, crashes>>

\* Each refused caller writes its own rejected ledger row, best effort, and answers.
Refuse(c) ==
    /\ call[c].st = "refused"
    /\ call' = [call EXCEPT ![c].st = "rejected"]
    /\ \/ RecordRejection(call[c].intent)
       \/ UNCHANGED journalVars
    /\ UNCHANGED <<chainVars, op, queue, fresh, crashes>>

\* The hash has no receipt yet: re-sign from the row.  The bytes are the row's own.
ReceiptMissing(i) ==
    /\ op[i].pc = "receipt"
    /\ ~Mined(TxOf(i))
    /\ op' = [op EXCEPT ![i].pc = "sending"]
    /\ UNCHANGED <<journalVars, chainVars, queue, call, fresh, crashes>>

\* send(): the node takes the transaction, whether or not its answer arrives ...
SendTaken(i) ==
    /\ op[i].pc = "sending"
    /\ ~Mined(TxOf(i))
    /\ mempool' = mempool \cup {TxOf(i)}
    /\ op' = [op EXCEPT ![i].pc = "waiting"]
    /\ UNCHANGED <<journalVars, mined, queue, call, fresh, crashes>>

\* ... or the send failed, which decides nothing: only the receipt does.
SendFailed(i) ==
    /\ op[i].pc = "sending"
    /\ op' = [op EXCEPT ![i].pc = "waiting"]
    /\ UNCHANGED <<journalVars, chainVars, queue, call, fresh, crashes>>

\* A receipt, found at once or waited for, is journalled and answered in one turn.
Conclude(i) ==
    /\ op[i].pc \in {"receipt", "waiting"}
    /\ Mined(TxOf(i))
    /\ LET r == ReceiptOf(i)
       IN  /\ Finish(i, r.cost, LedgerOutcome(r.outcome))
           /\ ResolveTerminal(i, LedgerOutcome(r.outcome), op[i].replayed)
    /\ UNCHANGED <<chainVars, queue, crashes>>

\* Mutant: a timeout is collapsed into a rejection.
GiveUpMut(i) ==
    /\ op[i].pc \in {"receipt", "sending", "waiting"}
    /\ Resolve(i, "refused")
    /\ UNCHANGED <<journalVars, chainVars, queue, crashes>>

\* The receipt read failed, the wait timed out, the fees were unreadable, or finish()
\* could not be written: the claim stands and the hash goes out as pending.
GiveUp(i) ==
    /\ op[i].pc \in {"receipt", "sending", "waiting"}
    /\ Resolve(i, "pending")
    /\ UNCHANGED <<journalVars, chainVars, queue, crashes>>

\* The caller has read its answer; the slot is free for another request.
Collect(c) ==
    /\ call[c].st \in Answers
    /\ call' = [call EXCEPT ![c] = IdleCall]
    /\ UNCHANGED <<journalVars, chainVars, op, queue, fresh, crashes>>

\* Mutant: a claim that is not terminal yet does not survive the process.
CrashMut ==
    /\ crashes < MaxCrashes
    /\ crashes' = crashes + 1
    /\ rows' = [i \in {j \in DOMAIN rows : Terminal(j)} |-> rows[i]]
    /\ op' = [i \in Intents |-> IdleOp]
    /\ queue' = <<>>
    /\ call' = [c \in Calls |-> IdleCall]
    /\ UNCHANGED <<budget, ledger, day, chainVars, fresh>>

\* The process dies: its operations, its queue and its callers' connections are gone.
Crash ==
    /\ crashes < MaxCrashes
    /\ crashes' = crashes + 1
    /\ op' = [i \in Intents |-> IdleOp]
    /\ queue' = <<>>
    /\ call' = [c \in Calls |-> IdleCall]
    /\ UNCHANGED <<journalVars, chainVars, fresh>>

Housekeeping ==
    /\ Prune \/ NextDay
    /\ UNCHANGED <<processVars, chainVars, crashes>>

Step(i) ==
    \/ LookUp(i) \/ AllocateNonce(i) \/ ClaimPrepared(i)
    \/ NotReady(i) \/ RefuseRedemption(i) \/ RefuseBudget(i)
    \/ ReceiptMissing(i) \/ SendTaken(i) \/ SendFailed(i) \/ Conclude(i) \/ GiveUp(i)

Next ==
    \/ \E c \in Calls, i \in Intents : Arrive(c, i)
    \/ \E i \in Intents : Step(i)
    \/ \E c \in Calls : Refuse(c) \/ Collect(c)
    \/ \E t \in mempool : Mine(t) \/ Evict(t)
    \/ Housekeeping
    \/ Crash

Spec == Init /\ [][Next]_vars

(***************************************************************************)
(* Fairness.  A process that runs keeps taking its turns (Responsive).     *)
(* Recovery needs more: an RPC, a disk and a node that fail sometimes do   *)
(* not fail forever; the chain keeps executing; and a payment left pending *)
(* is presented again (README: recovery runs only when the same payment    *)
(* comes back).                                                            *)
(***************************************************************************)
Responsive == \A i \in Intents : WF_vars(Step(i))

Persistent ==
    /\ \A i \in Intents :
          /\ SF_vars(\E c \in Calls : Arrive(c, i))
          /\ SF_vars(LookUp(i))
          /\ SF_vars(ReceiptMissing(i))
          /\ SF_vars(SendTaken(i))
          /\ SF_vars(Conclude(i))
    /\ \A c \in Calls : WF_vars(Refuse(c) \/ Collect(c))
    /\ SF_vars(\E t \in mempool : Mine(t))

ResponsiveSpec == Spec /\ Responsive
LiveSpec == Spec /\ Responsive /\ Persistent

-----------------------------------------------------------------------------
(* Safety. *)

ReceiptsOf(i) == {r \in mined : r.tx.intent = i}

\* However a payment is retried, coalesced or resumed after a crash, the chain executes
\* at most one transaction for it.
ChargedAtMostOnce ==
    \A i \in Intents : \A r, s \in ReceiptsOf(i) : r = s

\* "The hash before the broadcast": whatever the node ever held or mined is, byte for
\* byte, the transaction a journal row names.
BroadcastIsJournaled ==
    \A t \in mempool \cup {r.tx : r \in mined} : Claimed(t.intent) /\ t = TxOf(t.intent)

\* recovery.ts: "at most one answer per intent is ever unmarked".
AtMostOneUnmarked == \A i \in Intents : fresh[i] <= 1

Truthful(c) ==
    LET i == call[c].intent
    IN  /\ call[c].st = "settled" => \E r \in ReceiptsOf(i) : r.outcome = "settled"
        /\ call[c].st = "error" => \E r \in ReceiptsOf(i) : r.outcome # "settled"
        /\ call[c].st = "pending" => Claimed(i)

\* An answer names what happened: settled or error only with the chain's own outcome,
\* and pending only with a durable claim behind it (so it always has a hash to give).
AnswersTruthful == \A c \in Calls : Truthful(c)

\* A call is refused only while nothing of its payment was ever broadcast or claimed:
\* "rejected: nobody was charged" (guards.ts), in every interleaving.
RefusedUncharged ==
    [][\A c \in Calls :
          call[c].st = "waiting" /\ call'[c].st = "refused" =>
              /\ call[c].intent \notin DOMAIN rows'
              /\ \A t \in mempool' \cup {r.tx : r \in mined'} : t.intent # call[c].intent]_vars

\* The journal's nonces have no hole: a transaction can only wait behind another that
\* some intent can still re-send.
NoNonceGap ==
    {rows[i].nonce : i \in DOMAIN rows} = 0 .. Cardinality(DOMAIN rows) - 1

\* No operation is stranded: it has its owner waiting, the prepare queue holds exactly
\* the operations that still have to claim, each once, and only its head is inside.
Inside == {"queued", "nonce", "prepare"}

QueueExact ==
    /\ \A i \in Intents :
          /\ op[i].pc \in Inside <=> \E k \in DOMAIN queue : queue[k] = i
          /\ op[i].pc \in {"nonce", "prepare"} => Preparing(i) /\ ~Claimed(i)
          /\ op[i].pc # "idle" <=> \E c \in Calls : Waiting(c, i)
          /\ op[i].pc # "idle" => Waiting(op[i].owner, i)
    /\ \A k, l \in DOMAIN queue : queue[k] = queue[l] => k = l

\* Nothing waits on what nobody will do: no operation behind a prepare section that is
\* never left, and no transaction behind a nonce no row can send.
NothingStranded == QueueExact /\ NoNonceGap

-----------------------------------------------------------------------------
(* Refinement: each intent's row, receipt and event, seen as one payment. *)

Executed(i) == Claimed(i) /\ Mined(TxOf(i))

StageOf(i) ==
    IF ~Claimed(i) THEN "unseen"
    ELSE IF Terminal(i) THEN "accounted"
    ELSE IF Executed(i) THEN "executed"
    ELSE "committed"

ResultOf(i) ==
    IF Executed(i) THEN ReceiptOf(i).outcome ELSE "open"

Once == INSTANCE PaymentOnce WITH
            stage <- [i \in Intents |-> StageOf(i)],
            result <- [i \in Intents |-> ResultOf(i)],
            announced <- [i \in Intents |-> fresh[i] > 0]

\* The recovery engine, with its crashes, retries, prunes and lost answers, implements
\* a payment that is committed, executed and accounted for once.
ImplementsPaymentOnce == Once!Spec

-----------------------------------------------------------------------------
(* Liveness. *)

\* A claim that reached the disk is accounted for: whatever the crash or the timeout,
\* and behind whichever earlier nonce it waits, its row becomes terminal.
ClaimsConclude == \A i \in Intents : Claimed(i) ~> Terminal(i)

\* Nobody is left hanging: every call that arrived is answered.
CallsAnswered == \A c \in Calls : call[c].st = "waiting" ~> call[c].st # "waiting"
=============================================================================
