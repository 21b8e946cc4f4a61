---------------------------- MODULE SellerPaywall -----------------------------
(***************************************************************************)
(* The hosted shop (apps/delegated-seller/app.ts) behind the paywall of    *)
(* packages/seller/src/index.ts, from a presented payment header to the    *)
(* answer, and how the buyer's payment client reads that answer.           *)
(*                                                                         *)
(* The facilitator is what PaymentOnce promises, which SettlementRecovery  *)
(* is proved to implement, plus its in-flight operations and the words     *)
(* /verify and /settle answer with.  Each action of the seller is the code *)
(* between two awaits.                                                     *)
(*                                                                         *)
(*   stage, result   the payments, as PaymentOnce has them                 *)
(*   flight    each intent's operation at the facilitator                  *)
(*   bindings  payment_identifiers: a partial function                     *)
(*   orders    orders: the item each settled intent bought, once           *)
(*   kind      whether /supported ever answered this seller process        *)
(*   req       the HTTP exchanges, slots reused once the buyer has read    *)
(*   seen      history: how often each intent was presented (0, 1, many)   *)
(*   sent      history: which intents went to /settle under an identifier  *)
(*   now       Date.now(), in instants longer than any exchange            *)
(***************************************************************************)
EXTENDS Integers, FiniteSets

CONSTANTS
    Intents,        \* payment intent ids
    Ids,            \* payment identifiers
    NoId,           \* a header that carries none
    Items,          \* what the shop sells: each stands for a request fingerprint
    Headers,        \* the Payment-Signature headers buyers may present
    Requests,       \* HTTP request slots
    NoHeader,       \* what an idle slot carries
    NoIntent,       \* a binding nothing was recorded for
    BindingTTL,     \* UNSETTLED_BINDING_TTL_MS
    KeepUnsettled,  \* UNSETTLED_BINDINGS_KEPT
    MaxTime,        \* bound: the last instant of a behaviour
    MaxCrashes      \* bound: deaths of the two processes in a behaviour

Header == [intent : Intents, id : Ids \cup {NoId}, item : Items]

ASSUME PaywallAssumption ==
    /\ Headers \subseteq Header
    /\ NoId \notin Ids /\ NoIntent \notin Intents /\ NoHeader \notin Headers
    /\ BindingTTL \in Nat /\ KeepUnsettled \in Nat \ {0}
    /\ MaxTime \in Nat /\ MaxCrashes \in Nat

VARIABLES stage, result, flight, bindings, orders, kind, req, seen, sent, now, crashes

paymentVars == <<stage, result>>
storeVars == <<bindings, orders>>
vars == <<stage, result, flight, bindings, orders, kind, req, seen, sent, now, crashes>>

\* The shop dedupes on the intent and never reads the replayed mark, so which answer
\* went without it is left out: some answer did once the payment is accounted for.
Facilitator == INSTANCE PaymentOnce WITH
    announced <- [i \in Intents |-> stage[i] = "accounted"]

\* What the seller tells the buyer: a status code, the word of its failure receipt, and
\* whether the receipt names a transaction.
Answers == {"served", "unrecorded",          \* 200; 500 with the receipt of a paid settlement
            "offer", "offer_hash",           \* 402, the second with a hash
            "unavailable", "unknown",        \* 503; 504
            "misdirected",                   \* 502
            "conflict", "charged",           \* 409, not known and known to be settled
            "broken", "lost"}                \* 500 before any settlement; no answer at all

\* What /settle's body says.
Words == {"settled", "settlement_reverted", "vendor_not_credited", "pending", "rejected",
          "unexpected_settle_error", "not_ready"}

Stages == {"idle", "kind", "verify", "simulate", "settle", "settling", "told", "answered"}
Request == [pc : Stages, header : Headers \cup {NoHeader}, word : Words \cup {"none"},
            answer : Answers \cup {"none"}, got : Items \cup {"none"}, since : 0 .. MaxTime]
Idle == [pc |-> "idle", header |-> NoHeader, word |-> "none", answer |-> "none",
         got |-> "none", since |-> 0]

Binding == [item : Items, intent : Intents, at : 0 .. MaxTime, paid : Intents \cup {NoIntent}]

TypeOK ==
    /\ stage \in [Intents -> Facilitator!Stage]
    /\ result \in [Intents -> Facilitator!Result]
    /\ flight \in [Intents -> {"none", "new", "known"}]
    /\ DOMAIN bindings \subseteq Ids /\ bindings \in [DOMAIN bindings -> Binding]
    /\ DOMAIN orders \subseteq Intents /\ orders \in [DOMAIN orders -> Items]
    /\ kind \in BOOLEAN
    /\ req \in [Requests -> Request]
    /\ seen \in [Intents -> 0 .. 2]
    /\ sent \subseteq Ids \X Intents
    /\ now \in 0 .. MaxTime
    /\ crashes \in 0 .. MaxCrashes

Init ==
    /\ Facilitator!Init
    /\ flight = [i \in Intents |-> "none"]
    /\ bindings = [d \in {} |-> 0]
    /\ orders = [i \in {} |-> 0]
    /\ kind = FALSE
    /\ req = [q \in Requests |-> Idle]
    /\ seen = [i \in Intents |-> 0]
    /\ sent = {}
    /\ now = 0
    /\ crashes = 0

-----------------------------------------------------------------------------
(* The facilitator (external to this module: SettlementRecovery models it). *)

facilitatorFrame == <<storeVars, kind, seen, sent, now, crashes>>

\* A payment commits and is accounted for by an operation in flight; the chain executes
\* it whether or not one is.
Progress(i) ==
    /\ \/ flight[i] # "none" /\ Facilitator!Commit(i)
       \/ Facilitator!Execute(i)
       \/ flight[i] # "none" /\ Facilitator!Account(i)
    /\ UNCHANGED <<flight, req, facilitatorFrame>>

\* The operation resolves: every call coalesced into it is told the same.
Tell(i, word) ==
    /\ flight' = [flight EXCEPT ![i] = "none"]
    /\ req' = [q \in Requests |->
                 IF req[q].pc = "settling" /\ req[q].header.intent = i
                 THEN [req[q] EXCEPT !.pc = "told", !.word = word] ELSE req[q]]
    /\ UNCHANGED <<paymentVars, facilitatorFrame>>

\* A refusal or a throw before the claim.
Refuse(i) ==
    /\ flight[i] # "none" /\ stage[i] = "unseen"
    /\ \E w \in {"rejected", "unexpected_settle_error"} : Tell(i, w)

\* No RPC or no journal before this operation claimed anything.
NotReady(i) ==
    /\ flight[i] = "known" \/ (flight[i] = "new" /\ stage[i] = "unseen")
    /\ Tell(i, "not_ready")

GiveUp(i) == flight[i] # "none" /\ stage[i] \in {"committed", "executed"} /\ Tell(i, "pending")

Conclude(i) == flight[i] # "none" /\ stage[i] = "accounted" /\ Tell(i, result[i])

-----------------------------------------------------------------------------
(* The buyer's side of the exchange. *)

Answered(q, a) == req' = [req EXCEPT ![q].pc = "answered", ![q].answer = a]
Goto(q, pc) == req' = [req EXCEPT ![q].pc = pc]

\* paidOrder(): a header that already bought something is handed that order at once;
\* any other goes on to the paywall, which awaits the facilitator's kind.
Present(q, h) ==
    /\ req[q].pc = "idle"
    /\ seen' = [seen EXCEPT ![h.intent] = IF @ = 2 THEN 2 ELSE @ + 1]
    /\ req' = [req EXCEPT ![q] =
                 IF h.intent \in DOMAIN orders
                 THEN [Idle EXCEPT !.pc = "answered", !.header = h, !.answer = "served",
                                   !.got = orders[h.intent]]
                 ELSE [Idle EXCEPT !.pc = "kind", !.header = h, !.since = now]]
    /\ UNCHANGED <<paymentVars, flight, storeVars, kind, sent, now, crashes>>

Collect(q) ==
    /\ req[q].pc = "answered"
    /\ req' = [req EXCEPT ![q] = Idle]
    /\ UNCHANGED <<paymentVars, flight, storeVars, kind, seen, sent, now, crashes>>

\* Mutant: the client reads a 504 as a refusal.
ReadingMut(a) ==
    CASE a = "served" -> "OK"
      [] a = "unavailable" -> "SELLER_UNAVAILABLE"
      [] a \in {"offer", "conflict", "broken", "unknown"} -> "PAYMENT_REJECTED"
      [] OTHER -> "SETTLEMENT_UNKNOWN"

\* payForDelegatedResource()'s reading of an answer: a status in doubt, a word in doubt or
\* a named hash outrank everything else.
Reading(a) ==
    CASE a = "served" -> "OK"
      [] a = "unavailable" -> "SELLER_UNAVAILABLE"
      [] a \in {"offer", "conflict", "broken"} -> "PAYMENT_REJECTED"
      [] OTHER -> "SETTLEMENT_UNKNOWN"

-----------------------------------------------------------------------------
(* The tables.  bun:sqlite is synchronous: a table changes within one turn. *)

With(f, k, v) == [x \in DOMAIN f \cup {k} |-> IF x = k THEN v ELSE f[x]]

\* Mutant: prune() counts every binding as unsettled.
PruningsMut ==
    {[d \in {x \in DOMAIN bindings : bindings[x].at >= now - BindingTTL} |-> bindings[d]]}

\* prune(): unsettled bindings older than the retention go, then all but the newest
\* KeepUnsettled of them; settled ones stay.  Ties of bound_at are left open.
Prunings ==
    LET unsettled == {d \in DOMAIN bindings : bindings[d].paid = NoIntent}
        fresh == {d \in unsettled : bindings[d].at >= now - BindingTTL}
        Newest(kept) ==
            /\ Cardinality(kept) = KeepUnsettled \/ (kept = fresh /\ Cardinality(fresh) < KeepUnsettled)
            /\ \A d \in kept, e \in fresh \ kept : bindings[d].at >= bindings[e].at
    IN {[d \in (DOMAIN bindings \ unsettled) \cup kept |-> bindings[d]] :
            kept \in {k \in SUBSET fresh : Newest(k)}}

\* createOnce()'s return value: the row of the item the payment first bought.
Ticket(h) == IF h.intent \in DOMAIN orders THEN orders[h.intent] ELSE h.item

\* deliver(): onSettled writes the order once and the handler answers with it, or the
\* write throws and the handler answers 500 under the receipt of a success.
Deliver(q) ==
    LET h == req[q].header IN
    \/ /\ orders' = IF h.intent \in DOMAIN orders THEN orders ELSE With(orders, h.intent, h.item)
       /\ req' = [req EXCEPT ![q].pc = "answered", ![q].answer = "served", ![q].got = Ticket(h)]
    \/ /\ Answered(q, "unrecorded")
       /\ UNCHANGED orders

\* Mutant: only the fingerprints are compared.
ConflictsMut(h, b) == b.item # h.item

\* bind() under an identifier that is taken: another request, or another leaf.
Conflicts(h, b) == b.item # h.item \/ b.intent # h.intent

\* bind() on one table and what the paywall makes of its answer.
Bind(q, table) ==
    LET h == req[q].header IN
    IF h.id \notin DOMAIN table
    THEN /\ bindings' = With(table, h.id, [item |-> h.item, intent |-> h.intent,
                                           at |-> now, paid |-> NoIntent])
         /\ Goto(q, "verify")
         /\ UNCHANGED orders
    ELSE LET b == table[h.id] IN
         /\ bindings' = table
         /\ \/ /\ Conflicts(h, b)
               /\ Answered(q, IF b.item = h.item /\ b.paid # NoIntent THEN "charged" ELSE "conflict")
               /\ UNCHANGED orders
            \/ /\ ~Conflicts(h, b) /\ b.paid = NoIntent
               /\ Goto(q, "verify")
               /\ UNCHANGED orders
            \/ ~Conflicts(h, b) /\ b.paid # NoIntent /\ Deliver(q)

-----------------------------------------------------------------------------
(* The paywall, one action per turn between two awaits. *)

sellerFrame == <<paymentVars, seen, now, crashes>>

\* /supported has never answered this process and does not now.
KindFails(q) ==
    /\ req[q].pc = "kind" /\ ~kind
    /\ Answered(q, "unavailable")
    /\ UNCHANGED <<sellerFrame, flight, storeVars, kind, sent>>

\* A table cannot be read or written before the payment left for the facilitator.
StoreFails(q) ==
    /\ req[q].pc = "kind"
    /\ Answered(q, "broken")
    /\ kind' = TRUE
    /\ UNCHANGED <<sellerFrame, flight, storeVars, sent>>

\* The offer is rebuilt, the intent derived and the identifier bound; one bind in
\* BINDING_PRUNE_EVERY, which this leaves open, prunes first.
Admit(q) ==
    /\ req[q].pc = "kind"
    /\ kind' = TRUE
    /\ IF req[q].header.id = NoId
       THEN Goto(q, "verify") /\ UNCHANGED storeVars
       ELSE \E table \in {bindings} \cup Prunings : Bind(q, table)
    /\ UNCHANGED <<sellerFrame, flight, sent>>

\* Mutant: /verify simulates every payment, the ones the journal knows too.
LookUpMut(q) ==
    /\ req[q].pc = "verify"
    /\ IF stage[req[q].header.intent] \in {"executed", "accounted"}
       THEN Answered(q, "offer") ELSE Goto(q, "simulate")
    /\ UNCHANGED <<sellerFrame, flight, storeVars, kind, sent>>

\* /verify on a payment the journal knows: a failed one is refused, any other passes to
\* /settle; an unknown one is simulated.
LookUp(q) ==
    LET i == req[q].header.intent IN
    /\ req[q].pc = "verify"
    /\ CASE stage[i] = "unseen" -> Goto(q, "simulate")
         [] stage[i] = "accounted" /\ result[i] # "settled" -> Answered(q, "offer")
         [] OTHER -> Goto(q, "settle")
    /\ UNCHANGED <<sellerFrame, flight, storeVars, kind, sent>>

\* The simulation's verdict, on a chain that may have moved since the look-up.
Simulated(q) ==
    /\ req[q].pc = "simulate"
    /\ Goto(q, "settle") \/ Answered(q, "offer")
    /\ UNCHANGED <<sellerFrame, flight, storeVars, kind, sent>>

\* /verify or /settle refuses to look (its rate limit, its readiness gate), and /verify
\* may also be out of reach.
TurnedAway(q) ==
    /\ req[q].pc \in {"verify", "simulate", "settle"}
    /\ Answered(q, "unavailable")
    /\ UNCHANGED <<sellerFrame, flight, storeVars, kind, sent>>

\* /settle takes the payment in: a new operation, or the one under way.
TakeIn(q) ==
    LET h == req[q].header IN
    /\ req[q].pc = "settle"
    /\ flight' = [flight EXCEPT ![h.intent] =
                    CASE @ # "none" -> @
                      [] stage[h.intent] = "unseen" -> "new"
                      [] OTHER -> "known"]
    /\ sent' = sent \cup ({h.id} \cap Ids) \X {h.intent}
    /\ Goto(q, "settling")
    /\ UNCHANGED <<sellerFrame, storeVars, kind>>

\* Mutant: the seller calls /settle again until an answer arrives.
SettleLostMut(q) ==
    /\ req[q].pc \in {"settle", "settling", "told"}
    /\ Goto(q, "settle")
    /\ UNCHANGED <<sellerFrame, flight, storeVars, kind, sent>>

\* /settle is out of reach, its answer is lost or SETTLE_TIMEOUT_MS passes.
SettleLost(q) ==
    /\ req[q].pc \in {"settle", "settling", "told"}
    /\ Answered(q, "unknown")
    /\ UNCHANGED <<sellerFrame, flight, storeVars, kind, sent>>

\* Mutant: a pending settlement is taken for a settled one.
SoldMut(word) == word \in {"settled", "pending"}

\* decideSettlement(): the one word that is a sale.
Sold(word) == word = "settled"

\* record(): the UPDATE names the identifier and nothing else, and writes only a row that
\* is there and unsettled.  Anything else throws, which the paywall logs and survives.
Record(h) ==
    \/ /\ h.id \in DOMAIN bindings /\ bindings[h.id].paid = NoIntent
       /\ bindings' = [bindings EXCEPT ![h.id].paid = h.intent]
    \/ UNCHANGED bindings

\* decideSettlement() on what came back, and the rung of the ladder it selects.
Hear(q) ==
    LET word == req[q].word IN
    /\ req[q].pc = "told"
    /\ \/ Sold(word) /\ Record(req[q].header) /\ Deliver(q)
       \/ /\ ~Sold(word)
          /\ Answered(q, CASE word = "not_ready" -> "unavailable"
                           [] word \in {"pending", "unexpected_settle_error"} -> "unknown"
                           [] word = "settlement_reverted" -> "offer_hash"
                           [] word = "vendor_not_credited" -> "misdirected"
                           [] OTHER -> "offer")
          /\ UNCHANGED storeVars
    /\ UNCHANGED <<sellerFrame, flight, kind, sent>>

-----------------------------------------------------------------------------
(* Deaths and time. *)

\* The seller dies: its exchanges are cut and only its tables survive.
SellerCrash ==
    /\ crashes < MaxCrashes
    /\ crashes' = crashes + 1
    /\ kind' = FALSE
    /\ req' = [q \in Requests |->
                 IF req[q].pc \in {"idle", "answered"} THEN req[q]
                 ELSE [req[q] EXCEPT !.pc = "answered", !.answer = "lost"]]
    /\ UNCHANGED <<paymentVars, flight, storeVars, seen, sent, now>>

\* The facilitator dies: nothing is in flight any more, and nobody is told.
FacilitatorCrash ==
    /\ crashes < MaxCrashes
    /\ crashes' = crashes + 1
    /\ flight' = [i \in Intents |-> "none"]
    /\ UNCHANGED <<paymentVars, storeVars, kind, req, seen, sent, now>>

\* An instant is as long as the timeouts of an exchange together, so none outlives the
\* instant after the one it began in.
Tick ==
    /\ now < MaxTime
    /\ \A q \in Requests : req[q].pc \in {"idle", "answered"} \/ req[q].since = now
    /\ now' = now + 1
    /\ UNCHANGED <<paymentVars, flight, storeVars, kind, req, seen, sent, crashes>>

SellerStep(q) ==
    \/ KindFails(q) \/ StoreFails(q) \/ Admit(q) \/ LookUp(q) \/ Simulated(q)
    \/ TurnedAway(q) \/ TakeIn(q) \/ SettleLost(q) \/ Hear(q)

FacilitatorStep(i) == Progress(i) \/ Refuse(i) \/ NotReady(i) \/ GiveUp(i) \/ Conclude(i)

Next ==
    \/ \E q \in Requests : SellerStep(q) \/ Collect(q) \/ \E h \in Headers : Present(q, h)
    \/ \E i \in Intents : FacilitatorStep(i)
    \/ SellerCrash \/ FacilitatorCrash \/ Tick

Spec == Init /\ [][Next]_vars

\* The seller's process takes its turns and its timers fire; the buyer reads what it is
\* told.  This alone must answer every request.
Turns ==
    /\ \A q \in Requests : WF_vars(SellerStep(q)) /\ WF_vars(Collect(q))
    /\ \A i \in Intents : WF_vars(FacilitatorStep(i))

\* The buyer presents its payment again and again, and no failure recurs forever: what is
\* possible infinitely often, a passing look-up, a taken call, a receipt found, an answer
\* that arrives, a write that holds, happens in the end.
Persistence ==
    /\ \A h \in Headers : SF_vars(\E q \in Requests : Present(q, h))
    /\ \A q \in Requests :
         /\ SF_vars(Admit(q) /\ req'[q].pc = "verify")
         /\ SF_vars(LookUp(q) /\ req'[q].pc = "settle")
         /\ SF_vars(TakeIn(q))
         /\ SF_vars((Admit(q) \/ Hear(q)) /\ req'[q].answer = "served")
    /\ \A i \in Intents : SF_vars(flight[i] # "none" /\ Progress(i)) /\ SF_vars(Conclude(i) /\ req' # req)

LiveSpec == Spec /\ Turns /\ Persistence

-----------------------------------------------------------------------------
(* Properties. *)

\* The shop writes an order, in deliver(), only for a payment the chain settled in the
\* seller's favour: whichever exchange, binding or replay led there.
ServedPaid == \A i \in DOMAIN orders : result[i] = "settled"

\* The settled half of an identifier's row, written by record() after two awaits, is about
\* the very payment bind() tied the identifier to.
BindingTruthful == \A d \in DOMAIN bindings : bindings[d].paid \in {NoIntent, bindings[d].intent}

\* The settled half of a row outlives every prune(), re-presentation and conflict: it is
\* the guard that keeps the identifier from paying a second time.
SettledBindingKept ==
    [][\A d \in DOMAIN bindings :
        bindings[d].paid # NoIntent => d \in DOMAIN bindings' /\ bindings'[d] = bindings[d]]_vars

\* While its binding is kept, an identifier sends one payment to /settle: a second leaf
\* under it is turned back by bind(), concurrently, after a lost answer or a restart.
IdentifierChargesOnce == \A s, t \in sent : s[1] = t[1] => s[2] = t[2]

\* bind() and record() keep one leaf per identifier: the row is well typed, is settled by
\* the payment it is bound to, and no second payment goes to /settle under its name.
OneLeafPerIdentifier == TypeOK /\ BindingTruthful /\ IdentifierChargesOnce

\* When the buyer's client reads "rejected" or "unavailable" off the answer to a payment
\* presented once, no transaction was claimed for it and none is being prepared: its notes
\* promise "no settlement was attempted" and "nothing charged, retry later".
UnchargedReading ==
    \A q \in Requests :
        LET i == req[q].header.intent IN
        (/\ req[q].pc = "answered" /\ seen[i] = 1
         /\ Reading(req[q].answer) \in {"PAYMENT_REJECTED", "SELLER_UNAVAILABLE"})
            => stage[i] = "unseen" /\ flight[i] = "none"

\* A presented payment is answered: the seller's timeouts cover a facilitator that dies
\* with the call in its hands.
AllAnswered == \A q \in Requests : req[q].pc = "kind" ~> req[q].pc = "answered"

\* A payment that settled is served in the end to a buyer who presents it again, whatever
\* was lost on the way: the first answer, the record, the order or either process.
PaidIsServed == \A i \in Intents : result[i] = "settled" ~> i \in DOMAIN orders
=============================================================================
