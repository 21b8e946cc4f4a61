--------------------------- MODULE SponsorProofs ---------------------------
(***************************************************************************)
(* Proofs about the sponsor's services for every finite set of requests,   *)
(* every operation, cost, fee and ceiling, and every number of days and    *)
(* faults.                                                                 *)
(***************************************************************************)
EXTENDS Sponsor, SumTheorems

-----------------------------------------------------------------------------
(***************************************************************************)
(* The inductive invariant: FlightInv, who waits for which transaction;    *)
(* GiftInv, why a gift is not made twice; MoneyInv, what the budget's      *)
(* books, the open holds and the transactions add up to.                   *)
(***************************************************************************)
Statuses == {"pending", "mined", "reverted"}
Charges == {"open", "settled", "zero", "lost"}
StageSet == Stages \cup {"idle", "joined", "done"}
Answers == {"none", "success", "refused", "failed", "lost"}
Grants == {o.grant : o \in Ops}
Req == [stage : StageSet, op : Ops \cup {NoOp}, short : Nat, day : Days, hold : Nat, tx : Nat, answer : Answers]
Tx == [id : Nat, op : Ops, value : Nat, day : Days, hold : Nat, status : Statuses, cost : Nat, charge : Charges, amount : Nat, known : BOOLEAN]
Relay == [id : Nat, op : Ops, status : {"pending", "executed", "caught", "reverted"}, known : BOOLEAN]
Chain == [deposit : [Accounts -> Nat], nonce : [Accounts -> Nat], revoked : SUBSET Grants, deployed : SUBSET Accounts]

Types ==
    /\ service \in Services /\ req \in [Requests -> Req]
    /\ mem \in [day : Days, spent : Nat, reserved : Nat] /\ disk \in [Days -> Nat] /\ today \in Days
    /\ txs \subseteq Tx /\ IsFiniteSet(txs) /\ relays \subseteq Relay /\ IsFiniteSet(relays)
    /\ chain \in Chain /\ faults \in 0 .. MaxFaults

-----------------------------------------------------------------------------
(* Flights.                                                                *)

\* The services that spend the sponsor's ETH.
Paying == service \in {"bootstrap", "sponsored"}

\* What "success" says of an operation.
Told(op) == IF service = "bootstrap" THEN op.account \in chain.deployed ELSE op.grant \in chain.revoked

\* The transaction a request v waits for.
Tracks(v, t) == t.id = v.tx /\ t.charge = "open" /\ t.op = v.op /\ t.value = v.short /\ t.hold = v.hold /\ t.day = v.day

ReqOK(v) ==
    /\ v.stage # "idle" => v.op \in Ops
    /\ service = "bootstrap" => v.stage \notin {"nonce", "signature", "simulate", "relay", "event"}
    /\ v.stage = "signature" => service = "sponsored"
    /\ v.stage \in {"reserve", "send", "receipt"} => Paying
    /\ v.stage = "receipt" => \E t \in txs : Tracks(v, t)
    /\ v.stage = "event" => \E h \in relays : h.id = v.tx /\ h.op = v.op
    /\ v.answer = "success" => Told(v.op)

TxOK(t) ==
    /\ t.id <= Cardinality(txs) /\ Paying
    /\ t.known => t.charge = "settled" /\ t.status # "pending" /\ t.amount = t.cost
    /\ t.charge = "settled" => t.known \/ t.amount = t.hold
    /\ t.charge # "settled" => t.amount = 0
    /\ t.charge = "open" => \E q \in Requests : req[q].stage = "receipt" /\ req[q].tx = t.id
    /\ service = "bootstrap" /\ t.status = "mined" => t.op.account \in chain.deployed

RelayOK(h) ==
    /\ h.id <= Cardinality(relays) /\ service # "bootstrap"
    /\ h.known => h.status # "pending"
    /\ h.status = "executed" => h.op.grant \in chain.revoked

\* One flight at a time for an account the sponsor pays for.
Alone == Paying => \A q, r \in Working : req[q].op.account = req[r].op.account => q = r

Joined == \A r \in Requests : req[r].stage = "joined" => \E q \in Working : SameFlight(req[q].op, req[r].op)

FlightInv ==
    /\ \A r \in Requests : ReqOK(req[r])
    /\ \A t \in txs : TxOK(t)
    /\ \A h \in relays : RelayOK(h)
    /\ \A t, u \in txs : t.id = u.id => t = u
    /\ \A h, k \in relays : h.id = k.id => h = k
    /\ Alone /\ Joined

-----------------------------------------------------------------------------
(* Gifts.                                                                  *)

Tracked(h) == \E q \in Requests : req[q].stage = "event" /\ req[q].tx = h.id
\* A handleOps of the account that the submitter will never hear of again.
Lost(a) == \E h \in relays : h.op.account = a /\ ~h.known /\ ~Tracked(h)
\* The same of a transaction of the sponsor.
Forgotten(t) == ~t.known /\ t.charge # "open"

SameGift(o, p) == o.account = p.account /\ o.nonce = p.nonce
Over(t) == t.status = "reverted" \/ Forgotten(t)

\* A sponsored request v on its way: the nonce it checked is still the account's, and
\* what it was short of, or its transaction, makes up the prefund.
Ahead == {"funds", "signature", "reserve", "send", "receipt", "simulate", "relay"}
Giving == {"signature", "reserve", "send"}
WayOK(v) ==
    /\ v.stage \in Ahead => chain.nonce[v.op.account] = v.op.nonce
    /\ v.stage \in Giving => chain.deposit[v.op.account] + v.short >= Prefund
    /\ v.stage = "receipt" => \A t \in txs : t.id = v.tx =>
          /\ t.status = "pending" => chain.deposit[v.op.account] + t.value >= Prefund
          /\ t.status = "mined" => chain.deposit[v.op.account] >= Prefund

\* A deposit that was seen to arrive is there until the nonce it was for is used.
PaidOK(t) ==
    /\ t.op.nonce <= chain.nonce[t.op.account]
    /\ t.known /\ t.status = "mined" /\ t.op.nonce = chain.nonce[t.op.account] => chain.deposit[t.op.account] >= Prefund

GiftOK(v) ==
    /\ service = "sponsored" => Lost(v.op.account) \/ WayOK(v)
    /\ v.stage \in Giving => Lost(v.op.account) \/ \A t \in txs : SameGift(t.op, v.op) => Over(t)

GiftInv ==
    /\ \A r \in Requests : GiftOK(req[r])
    /\ service = "sponsored" => \A t \in txs : Lost(t.op.account) \/ PaidOK(t)
    /\ \A t, u \in txs : t.id < u.id /\ SameGift(t.op, u.op) => Over(t) \/ Lost(t.op.account)

-----------------------------------------------------------------------------
(* Money.                                                                  *)

Holds == [r \in Requests |-> req[r].hold]
Sending == {r \in Requests : req[r].stage = "send"}
Open(t) == IF t.charge = "open" THEN t.hold ELSE 0
\* What a transaction takes of its day's ceiling.
Load(t) == IF t.charge = "open" THEN t.hold
           ELSE IF t.charge = "settled" THEN (IF t.amount <= t.hold THEN t.amount ELSE t.hold) ELSE 0

Amounts == [t \in Tx |-> t.amount]
Opens == [t \in Tx |-> Open(t)]
Loads == [t \in Tx |-> Load(t)]

MoneyInv ==
    /\ mem.spent = disk[mem.day]
    /\ mem.reserved = SumFunctionOnSet(Holds, OpenHolds)
    /\ mem.reserved = SumFunctionOnSet(Holds, Sending) + SumFunctionOnSet(Opens, txs)
    /\ \A d \in Days : disk[d] = SumFunctionOnSet(Amounts, Admitted(d))
    /\ \A d \in Days : SumFunctionOnSet(Loads, Admitted(d)) + SumFunctionOnSet(Holds, {r \in Sending : req[r].day = d}) <= DailyLimit

IInv == Types /\ FlightInv /\ GiftInv /\ MoneyInv

-----------------------------------------------------------------------------
(* Requests.                                                               *)

LEMMA Bounds == /\ Prefund \in Nat /\ GasHold \in Nat /\ DailyLimit \in Nat /\ MaxDay \in Nat /\ MaxFaults \in Nat
                /\ OpCost \in Nat /\ OpCost <= Prefund /\ \A fee \in Fees : fee \in Nat
BY CostAssumption

LEMMA ReqTypes ==
    ASSUME Types, NEW r \in Requests
    PROVE  /\ req \in [Requests -> Req] /\ req[r] \in Req /\ req[r].stage \in StageSet /\ req[r].op \in Ops \cup {NoOp}
           /\ req[r].short \in Nat /\ req[r].day \in Days /\ req[r].hold \in Nat /\ req[r].tx \in Nat /\ req[r].answer \in Answers
<1>1. req \in [Requests -> Req]
    BY DEF Types
<1> QED
    BY <1>1 DEF Req

\* The request r becomes v; requests coalesced on its flight may be answered with it.
Bystands(q, w) ==
    \/ w = req[q]
    \/ /\ req[q].stage = "joined" /\ w.stage = "done" /\ w.op = req[q].op /\ w.hold = req[q].hold
       /\ w.answer = "success" => Told(w.op)
StepOf(r, v) == req' \in [Requests -> Req] /\ req'[r] = v /\ \A q \in Requests \ {r} : Bystands(q, req'[q])

\* v is req[r] at another stage.
Moved(r, v) == v.op = req[r].op /\ v.short = req[r].short /\ v.day = req[r].day /\ v.hold = req[r].hold /\ v.tx = req[r].tx

LEMMA OnlyIs ==
    ASSUME Types, NEW r \in Requests, NEW v \in Req, req' = [req EXCEPT ![r] = v] PROVE StepOf(r, v)
BY DEF Types, StepOf, Bystands

LEMMA GotoIs ==
    ASSUME Types, NEW r \in Requests, NEW s \in StageSet, Goto(r, s)
    PROVE  \E v \in Req : StepOf(r, v) /\ Moved(r, v) /\ v.stage = s /\ v.answer = req[r].answer
<1>1. PICK v : v = [req[r] EXCEPT !.stage = s]
    OBVIOUS
<1>2. v \in Req /\ Moved(r, v) /\ v.stage = s /\ v.answer = req[r].answer
    BY <1>1, ReqTypes DEF Req, Moved
<1>3. req' = [req EXCEPT ![r] = v]
    BY <1>1 DEF Goto
<1> QED
    BY <1>2, <1>3, OnlyIs

\* An answer ends the flight: nobody stays joined to it.
Ends(r) == \A q \in Requests : req'[q].stage = "joined" => ~SameFlight(req[q].op, req[r].op)

LEMMA AnswerIs ==
    ASSUME Types, NEW r \in Requests, NEW a \in Answers, Answer(r, a), a = "success" => Told(req[r].op), req[r].stage # "joined"
    PROVE  \E v \in Req : StepOf(r, v) /\ Moved(r, v) /\ v.stage = "done" /\ v.answer = a /\ Ends(r)
<1>1. req \in [Requests -> Req] /\ "done" \in StageSet
    BY DEF Types, StageSet
<1>2. ASSUME NEW q \in Requests
      PROVE  /\ req'[q] = req[q] \/ (/\ q = r \/ (req[q].stage = "joined" /\ SameFlight(req[q].op, req[r].op))
                                     /\ req'[q].stage = "done" /\ req'[q].answer = a /\ Moved(q, req'[q]))
             /\ q = r \/ (req[q].stage = "joined" /\ SameFlight(req[q].op, req[r].op)) => req'[q].stage = "done" /\ req'[q].answer = a /\ Moved(q, req'[q])
             /\ req'[q] \in Req
    <2>1. PICK w : w = [req[q] EXCEPT !.stage = "done", !.answer = a]
        OBVIOUS
    <2>2. w \in Req /\ w.stage = "done" /\ w.answer = a /\ Moved(q, w)
        BY <1>1, <2>1 DEF Req, Moved
    <2>3. req'[q] = IF q = r \/ (req[q].stage = "joined" /\ SameFlight(req[q].op, req[r].op)) THEN w ELSE req[q]
        BY <2>1 DEF Answer
    <2> QED
        BY <1>1, <2>2, <2>3
<1>3. req' \in [Requests -> Req]
    <2>1. req' = [q \in Requests |-> req'[q]]
        BY Zenon DEF Answer
    <2> QED
        BY <1>2, <2>1
<1>4. ASSUME NEW q \in Requests \ {r} PROVE Bystands(q, req'[q])
    <2>1. CASE req'[q] = req[q]
        BY <2>1 DEF Bystands
    <2>2. CASE req[q].stage = "joined" /\ SameFlight(req[q].op, req[r].op) /\ req'[q].stage = "done" /\ req'[q].answer = a /\ Moved(q, req'[q])
        <3>1. Told(req[r].op) => Told(req'[q].op)
            BY <2>2 DEF Told, SameFlight, Moved
        <3> QED
            BY <2>2, <3>1 DEF Bystands, Moved
    <2> QED
        BY <1>2, <1>4, <2>1, <2>2
<1>5. Ends(r)
    <2> SUFFICES ASSUME NEW q \in Requests, req'[q].stage = "joined" PROVE ~SameFlight(req[q].op, req[r].op)
        BY DEF Ends
    <2>1. req'[q] = req[q] \/ req'[q].stage = "done"
        BY <1>2
    <2> QED
        BY <1>2, <2>1
<1> QED
    BY <1>2, <1>3, <1>4, <1>5 DEF StepOf

LEMMA WorkingStep ==
    ASSUME NEW r \in Requests, NEW v \in Req, StepOf(r, v)
    PROVE  /\ r \in Working' <=> v.stage \in Stages
           /\ \A q \in Requests \ {r} : /\ q \in Working' <=> q \in Working
                                        /\ q \in Working => req'[q] = req[q]
                                        /\ req'[q].op = req[q].op /\ req'[q].hold = req[q].hold
                                        /\ req'[q].stage \in {"joined", "event", "receipt", "send"} => req'[q] = req[q]
                                        /\ req[q].stage \in {"event", "receipt", "send"} => req'[q] = req[q]
           /\ Working \subseteq Requests /\ Working' \subseteq Requests
<1>1. \A q \in Requests \ {r} : Bystands(q, req'[q])
    BY DEF StepOf
<1>2. \A q \in Requests \ {r} : req'[q] = req[q] \/ (req[q].stage = "joined" /\ req'[q].stage = "done" /\ req'[q].op = req[q].op /\ req'[q].hold = req[q].hold)
    BY <1>1 DEF Bystands
<1> QED
    BY <1>2 DEF Working, StepOf, Stages

\* A flight goes on, ends, or starts alone; nobody stays joined to one that ended.
FlightGoes(r, v) ==
    /\ v.stage \in Stages => \/ req[r].stage \in Stages /\ v.op = req[r].op
                             \/ Paying => \A q \in Working : req[q].op.account # v.op.account
    /\ v.stage = "joined" => \E q \in Working \ {r} : SameFlight(req[q].op, v.op)
    /\ req[r].stage \in Stages => (v.stage \in Stages /\ v.op = req[r].op) \/ Ends(r)

LEMMA FlightStep ==
    ASSUME IInv, NEW r \in Requests, NEW v \in Req, StepOf(r, v), UNCHANGED <<service, chain>>,
           \A q \in Requests \ {r} : req[q].stage = "receipt" => \E t \in txs' : Tracks(req[q], t),
           \A h \in relays : \E k \in relays' : k.id = h.id /\ k.op = h.op,
           ReqOK(v)', FlightGoes(r, v)
    PROVE  (\A q \in Requests : ReqOK(req[q])') /\ Alone' /\ Joined'
<1>0. /\ r \in Working' <=> v.stage \in Stages
      /\ \A q \in Requests \ {r} : /\ q \in Working' <=> q \in Working
                                   /\ q \in Working => req'[q] = req[q]
                                   /\ req'[q].op = req[q].op
                                   /\ req'[q].stage \in {"joined", "event", "receipt", "send"} => req'[q] = req[q]
      /\ Working \subseteq Requests /\ Working' \subseteq Requests /\ req'[r] = v
    BY WorkingStep DEF StepOf
<1>1. ASSUME NEW q \in Requests PROVE ReqOK(req[q])'
    <2>1. CASE q = r
        BY <1>0, <2>1
    <2>2. CASE q # r
        <3>1. ReqOK(req[q]) /\ Bystands(q, req'[q])
            BY <2>2 DEF IInv, FlightInv, StepOf
        <3>2. CASE req'[q] = req[q]
            BY <2>2, <3>1, <3>2 DEF ReqOK, Told, Paying
        <3>3. CASE req[q].stage = "joined" /\ req'[q].stage = "done" /\ req'[q].op = req[q].op /\ (req'[q].answer = "success" => Told(req'[q].op))
            BY <3>1, <3>3 DEF ReqOK, Told, Paying
        <3> QED
            BY <3>1, <3>2, <3>3 DEF Bystands
    <2> QED
        BY <2>1, <2>2
<1>2. Alone'
    <2> SUFFICES ASSUME Paying, NEW p \in Working', NEW q \in Working', req'[p].op.account = req'[q].op.account PROVE p = q
        BY DEF Alone, Paying
    <2>1. \A x, y \in Working : req[x].op.account = req[y].op.account => x = y
        BY DEF IInv, FlightInv, Alone
    <2>2. CASE p # r /\ q # r
        BY <1>0, <2>1, <2>2
    <2>3. ASSUME NEW x \in Working', x # r, v.stage \in Stages, req'[x].op.account = v.op.account PROVE FALSE
        <3>1. x \in Working /\ req'[x] = req[x]
            BY <1>0, <2>3
        <3>2. CASE req[r].stage \in Stages /\ v.op = req[r].op
            <4>1. r \in Working
                BY <3>2 DEF Working
            <4> QED
                BY <2>1, <2>3, <3>1, <3>2, <4>1
        <3>3. CASE \A y \in Working : req[y].op.account # v.op.account
            BY <2>3, <3>1, <3>3
        <3> QED
            BY <2>3, <3>2, <3>3 DEF FlightGoes
    <2>4. CASE p = r \/ q = r
        BY <1>0, <2>3, <2>4
    <2> QED
        BY <2>2, <2>4
<1>3. Joined'
    <2> SUFFICES ASSUME NEW q \in Requests, req'[q].stage = "joined" PROVE \E p \in Working' : SameFlight(req'[p].op, req'[q].op)
        BY DEF Joined, SameFlight
    <2>1. CASE q = r
        <3>1. PICK p \in Working \ {r} : SameFlight(req[p].op, v.op)
            BY <1>0, <2>1 DEF FlightGoes
        <3> QED
            BY <1>0, <2>1, <3>1
    <2>2. CASE q # r
        <3>1. req'[q] = req[q] /\ req[q].stage = "joined"
            BY <1>0, <2>2
        <3>2. PICK p \in Working : SameFlight(req[p].op, req[q].op)
            BY <3>1 DEF IInv, FlightInv, Joined
        <3>3. CASE p # r
            BY <1>0, <3>1, <3>2, <3>3
        <3>4. CASE p = r
            <4>1. req[r].stage \in Stages /\ SameFlight(req[q].op, req[r].op)
                BY <3>2, <3>4 DEF Working, SameFlight
            <4>2. v.stage \in Stages /\ v.op = req[r].op
                BY <4>1 DEF FlightGoes, Ends
            <4> QED
                BY <1>0, <3>1, <3>2, <3>4, <4>2
        <3> QED
            BY <3>3, <3>4
    <2> QED
        BY <2>1, <2>2
<1> QED
    BY <1>1, <1>2, <1>3

\* What is lost stays lost.
LEMMA LostKept ==
    ASSUME \A h \in relays : \E k \in relays' : k.id = h.id /\ k.op = h.op /\ (k.known => h.known \/ Tracked(h)),
           \A q \in Requests : req'[q].stage = "event" =>
               (req[q].stage = "event" /\ req'[q].tx = req[q].tx) \/ \A h \in relays : h.id # req'[q].tx,
           NEW a, Lost(a)
    PROVE  Lost(a)'
<1>1. PICK h \in relays : h.op.account = a /\ ~h.known /\ ~Tracked(h)
    BY DEF Lost
<1>2. PICK k \in relays' : k.id = h.id /\ k.op = h.op /\ (k.known => h.known \/ Tracked(h))
    BY <1>1
<1>3. ~Tracked(k)'
    BY <1>1, <1>2 DEF Tracked
<1> QED
    BY <1>1, <1>2, <1>3 DEF Lost

\* A request that is answered or coalesced is on no way.
LEMMA Standing == ASSUME NEW v, v.stage \in {"idle", "joined", "done"} PROVE GiftOK(v) /\ GiftOK(v)'
BY DEF GiftOK, WayOK, Ahead, Giving

\* A step of a request that touches neither the chain nor a transaction.
LEMMA QuietStep ==
    ASSUME IInv, NEW r \in Requests, NEW v \in Req, StepOf(r, v), UNCHANGED <<service, chain>>, UNCHANGED <<txs, relays>>,
           req[r].stage # "receipt", v.stage \notin {"receipt", "event"}, ReqOK(v), FlightGoes(r, v), GiftOK(v)
    PROVE  FlightInv' /\ GiftInv'
<1>0. /\ \A q \in Requests \ {r} : /\ req'[q].stage \in {"joined", "event", "receipt", "send"} => req'[q] = req[q]
                                   /\ req[q].stage \in {"event", "receipt", "send"} => req'[q] = req[q]
      /\ req'[r] = v
    BY WorkingStep DEF StepOf
<1>1. (\A q \in Requests : ReqOK(req[q])') /\ Alone' /\ Joined'
    <2>1. \A q \in Requests \ {r} : req[q].stage = "receipt" => \E t \in txs' : Tracks(req[q], t)
        BY DEF IInv, FlightInv, ReqOK
    <2>2. \A h \in relays : \E k \in relays' : k.id = h.id /\ k.op = h.op
        OBVIOUS
    <2>3. ReqOK(v)'
        BY DEF ReqOK, Told, Paying
    <2> QED
        BY <2>1, <2>2, <2>3, FlightStep
<1>2. \A t \in txs : TxOK(t)'
    <2> SUFFICES ASSUME NEW t \in txs PROVE TxOK(t)'
        OBVIOUS
    <2>1. TxOK(t)
        BY DEF IInv, FlightInv
    <2>2. t.charge = "open" => \E q \in Requests : req'[q].stage = "receipt" /\ req'[q].tx = t.id
        BY <1>0, <2>1 DEF TxOK
    <2> QED
        BY <2>1, <2>2 DEF TxOK, Paying
<1>3. \A h \in relays : RelayOK(h)'
    BY DEF IInv, FlightInv, RelayOK
<1>4. FlightInv'
    BY <1>1, <1>2, <1>3 DEF IInv, FlightInv
<1>5. ASSUME NEW a, Lost(a) PROVE Lost(a)'
    <2>1. \A h \in relays : \E k \in relays' : k.id = h.id /\ k.op = h.op /\ (k.known => h.known \/ Tracked(h))
        OBVIOUS
    <2>2. \A q \in Requests : req'[q].stage = "event" =>
             (req[q].stage = "event" /\ req'[q].tx = req[q].tx) \/ \A h \in relays : h.id # req'[q].tx
        BY <1>0
    <2> QED
        BY <1>5, <2>1, <2>2, LostKept
<1>6. ASSUME NEW w, GiftOK(w) PROVE GiftOK(w)'
    BY <1>5, <1>6 DEF GiftOK, WayOK, Over, Forgotten, SameGift
<1>7. \A q \in Requests : GiftOK(req[q])'
    <2> SUFFICES ASSUME NEW q \in Requests PROVE GiftOK(req[q])'
        OBVIOUS
    <2>0. PICK w : w = req'[q]
        OBVIOUS
    <2>1. GiftOK(w)'
        <3>1. CASE q = r
            BY <1>0, <1>6, <2>0, <3>1
        <3>2. CASE q # r /\ w = req[q]
            BY <1>6, <3>2 DEF IInv, GiftInv
        <3>3. CASE q # r /\ w.stage = "done"
            BY <3>3, Standing
        <3> QED
            BY <2>0, <3>1, <3>2, <3>3 DEF StepOf, Bystands
    <2> QED
        BY <2>0, <2>1 DEF GiftOK, WayOK
<1>8. GiftInv'
    BY <1>5, <1>7 DEF IInv, GiftInv, PaidOK, Over, Forgotten, SameGift
<1> QED
    BY <1>4, <1>8

-----------------------------------------------------------------------------
(* The budget's sums.                                                      *)

LEMMA Finite ==
    ASSUME Types
    PROVE  /\ IsFiniteSet(Requests) /\ IsFiniteSet(OpenHolds) /\ IsFiniteSet(Sending) /\ IsFiniteSet(txs)
           /\ \A d : IsFiniteSet(Admitted(d)) /\ IsFiniteSet({q \in Sending : req[q].day = d})
           /\ txs \subseteq Tx /\ (\A d : Admitted(d) \subseteq Tx)
           /\ \A q \in Requests : Holds[q] \in Nat
           /\ \A t \in Tx : Amounts[t] \in Nat /\ Opens[t] \in Nat /\ Loads[t] \in Nat /\ Loads[t] <= Amounts[t] + Opens[t]
<1>1. IsFiniteSet(Requests) /\ IsFiniteSet(txs) /\ txs \subseteq Tx
    BY RequestAssumption DEF Types
<1>2. IsFiniteSet(OpenHolds) /\ IsFiniteSet(Sending)
    BY <1>1, FS_Subset DEF OpenHolds, Sending
<1>3. ASSUME NEW d PROVE IsFiniteSet(Admitted(d)) /\ IsFiniteSet({q \in Sending : req[q].day = d}) /\ Admitted(d) \subseteq Tx
    BY <1>1, <1>2, FS_Subset DEF Admitted
<1>4. \A q \in Requests : Holds[q] \in Nat
    BY ReqTypes DEF Holds
<1>5. ASSUME NEW t \in Tx PROVE Amounts[t] \in Nat /\ Opens[t] \in Nat /\ Loads[t] \in Nat /\ Loads[t] <= Amounts[t] + Opens[t]
    <2>1. Amounts[t] = t.amount /\ Opens[t] = Open(t) /\ Loads[t] = Load(t) /\ t.amount \in Nat /\ t.hold \in Nat
        BY DEF Amounts, Opens, Loads, Tx
    <2> QED
        BY <2>1 DEF Open, Load
<1> QED
    BY <1>1, <1>2, <1>3, <1>4, <1>5

\* Requests other than r hold what they held.
LEMMA HoldsAgree ==
    ASSUME Types, NEW r \in Requests, NEW v \in Req, StepOf(r, v), NEW A \in SUBSET (Requests \ {r})
    PROVE  SumFunctionOnSet(Holds', A) = SumFunctionOnSet(Holds, A) /\ SumFunctionOnSet(Holds, A) \in Nat
<1>1. PICK f, g : f = Holds /\ g = Holds'
    OBVIOUS
<1>2. \A q \in A : f[q] \in Nat /\ g[q] = f[q]
    BY <1>1, WorkingStep, Finite DEF Holds
<1>3. IsFiniteSet(A)
    BY RequestAssumption, FS_Subset
<1>4. SumFunctionOnSet(g, A) = SumFunctionOnSet(f, A) /\ SumFunctionOnSet(f, A) \in Nat
    BY <1>2, <1>3, SumAgree, SumType
<1> QED
    BY <1>1, <1>4

\* A step of a request that holds nothing before or after it.
LEMMA MoneyQuiet ==
    ASSUME IInv, NEW r \in Requests, NEW v \in Req, StepOf(r, v), req[r].stage \notin {"send", "receipt"}, v.stage \notin {"send", "receipt"},
           UNCHANGED <<txs, disk>>, mem'.reserved = mem.reserved, mem'.spent = disk[mem'.day]
    PROVE  MoneyInv'
<1>0. req'[r] = v /\ \A q \in Requests \ {r} : /\ req'[q].stage \in {"joined", "event", "receipt", "send"} => req'[q] = req[q]
                                               /\ req[q].stage \in {"event", "receipt", "send"} => req'[q] = req[q]
    BY WorkingStep DEF StepOf
<1>1. Sending' = Sending /\ Sending \in SUBSET (Requests \ {r})
    BY <1>0 DEF Sending
<1>2. OpenHolds' = OpenHolds /\ OpenHolds \in SUBSET (Requests \ {r})
    BY <1>0 DEF OpenHolds
<1>3. \A d : {q \in Sending' : req'[q].day = d} = {q \in Sending : req[q].day = d} /\ {q \in Sending : req[q].day = d} \in SUBSET (Requests \ {r})
    BY <1>0, <1>1 DEF Sending
<1>4. Types
    BY DEF IInv
<1>5. SumFunctionOnSet(Holds', OpenHolds) = SumFunctionOnSet(Holds, OpenHolds) /\ SumFunctionOnSet(Holds', Sending) = SumFunctionOnSet(Holds, Sending)
    BY <1>1, <1>2, <1>4, HoldsAgree
<1>6. ASSUME NEW d PROVE SumFunctionOnSet(Holds', {q \in Sending : req[q].day = d}) = SumFunctionOnSet(Holds, {q \in Sending : req[q].day = d})
    BY <1>3, <1>4, HoldsAgree
<1>7. \A d : Admitted(d)' = Admitted(d)
    BY DEF Admitted
<1>8. ASSUME NEW d \in Days
      PROVE  SumFunctionOnSet(Loads, Admitted(d)') + SumFunctionOnSet(Holds', {q \in Sending' : req'[q].day = d}) <= DailyLimit
    <2>1. SumFunctionOnSet(Loads, Admitted(d)) + SumFunctionOnSet(Holds, {q \in Sending : req[q].day = d}) <= DailyLimit
        BY DEF IInv, MoneyInv
    <2> QED
        BY <1>3, <1>6, <1>7, <2>1
<1>9. /\ mem'.spent = disk'[mem'.day] /\ mem'.reserved = SumFunctionOnSet(Holds', OpenHolds')
      /\ mem'.reserved = SumFunctionOnSet(Holds', Sending') + SumFunctionOnSet(Opens, txs')
      /\ \A d \in Days : disk'[d] = SumFunctionOnSet(Amounts, Admitted(d)')
    BY <1>1, <1>2, <1>5, <1>7 DEF IInv, MoneyInv
<1> QED
    BY <1>8, <1>9 DEF MoneyInv, Amounts, Opens, Loads

-----------------------------------------------------------------------------
(* Steps of a request that hold and send nothing.                          *)

LEMMA FaultIs == ASSUME Types, Fault \/ UNCHANGED faults PROVE faults' \in 0 .. MaxFaults
<1>1. faults \in 0 .. MaxFaults /\ MaxFaults \in Nat
    BY Bounds DEF Types
<1> QED
    BY <1>1 DEF Fault

LEMMA ReqFacts ==
    ASSUME IInv, NEW r \in Requests
    PROVE  /\ Types /\ ReqOK(req[r]) /\ GiftOK(req[r]) /\ req[r] \in Req /\ req \in [Requests -> Req]
           /\ req[r].stage \in Stages => r \in Working /\ req[r].op \in Ops /\ req[r].op.account \in Accounts /\ req[r].op.nonce \in Nat
<1>1. Types /\ ReqOK(req[r]) /\ GiftOK(req[r])
    BY DEF IInv, FlightInv, GiftInv
<1>2. "idle" \notin Stages
    BY DEF Stages
<1> QED
    BY <1>1, <1>2, ReqTypes, RequestAssumption DEF ReqOK, Working, Accounts

LEMMA QuietInv ==
    ASSUME IInv, NEW r \in Requests, NEW v \in Req, StepOf(r, v), UNCHANGED <<service, chain>>, UNCHANGED <<txs, relays>>,
           UNCHANGED <<disk, today>>, Fault \/ UNCHANGED faults,
           mem' = mem \/ (mem' \in [day : Days, spent : Nat, reserved : Nat] /\ mem'.reserved = mem.reserved /\ mem'.spent = disk[mem'.day]),
           req[r].stage \notin {"send", "receipt"}, v.stage \notin {"send", "receipt", "event"}, ReqOK(v), FlightGoes(r, v), GiftOK(v)
    PROVE  IInv'
<1>1. FlightInv' /\ GiftInv'
    BY QuietStep
<1>2. mem' \in [day : Days, spent : Nat, reserved : Nat] /\ mem'.reserved = mem.reserved /\ mem'.spent = disk[mem'.day]
    BY DEF IInv, Types, MoneyInv
<1>3. MoneyInv'
    BY <1>2, MoneyQuiet
<1>4. Types'
    BY <1>2, FaultIs DEF IInv, Types, StepOf
<1> QED
    BY <1>1, <1>3, <1>4 DEF IInv

\* An answer to a flight that holds nothing.
LEMMA AnswerInv ==
    ASSUME IInv, NEW r \in Requests, req[r].stage \in Stages \ {"send", "receipt"}, NEW a \in Answers, Answer(r, a), a = "success" => Told(req[r].op),
           UNCHANGED <<service, chain>>, UNCHANGED <<txs, relays>>, UNCHANGED <<disk, today>>, Fault \/ UNCHANGED faults,
           mem' = mem \/ (mem' \in [day : Days, spent : Nat, reserved : Nat] /\ mem'.reserved = mem.reserved /\ mem'.spent = disk[mem'.day])
    PROVE  IInv'
<1>1. Types /\ ReqOK(req[r]) /\ req[r].stage # "joined" /\ req[r].op \in Ops
    BY ReqFacts DEF Stages
<1>2. PICK v \in Req : StepOf(r, v) /\ Moved(r, v) /\ v.stage = "done" /\ v.answer = a /\ Ends(r)
    BY <1>1, AnswerIs
<1>3. ReqOK(v)
    BY <1>1, <1>2 DEF ReqOK, Moved
<1>4. FlightGoes(r, v) /\ GiftOK(v)
    BY <1>2, Standing DEF FlightGoes, Stages
<1> QED
    BY <1>2, <1>3, <1>4, QuietInv

LEMMA RefuseInv == ASSUME IInv, NEW r \in Requests, Refuse(r) PROVE IInv'
<1>1. /\ req[r].stage \in Stages \ {"send", "receipt"} /\ Answer(r, "refused") /\ UNCHANGED <<service, chain>> /\ UNCHANGED <<txs, relays>>
      /\ UNCHANGED <<disk, today>> /\ UNCHANGED faults /\ mem' = mem /\ "refused" \in Answers
    BY DEF Refuse, Stages, Answers
<1> QED
    BY <1>1, AnswerInv

LEMMA EventTimeoutInv == ASSUME IInv, NEW r \in Requests, EventTimeout(r) PROVE IInv'
<1>1. /\ req[r].stage \in Stages \ {"send", "receipt"} /\ Answer(r, "failed") /\ UNCHANGED <<service, chain>> /\ UNCHANGED <<txs, relays>>
      /\ UNCHANGED <<disk, today>> /\ Fault /\ mem' = mem /\ "failed" \in Answers
    BY DEF EventTimeout, Stages, Answers
<1> QED
    BY <1>1, AnswerInv

\* A request goes on along its way.
LEMMA GoesInv ==
    ASSUME IInv, NEW r \in Requests, req[r].stage \in Stages \ {"send", "receipt"},
           NEW v \in Req, StepOf(r, v), v.op = req[r].op, v.answer = req[r].answer, v.stage \in Stages \ {"send", "receipt", "event"},
           service = "bootstrap" => v.stage \notin {"nonce", "signature", "simulate", "relay"},
           v.stage = "signature" => service = "sponsored", v.stage = "reserve" => Paying, GiftOK(v),
           UNCHANGED <<service, chain>>, UNCHANGED <<txs, relays>>, UNCHANGED <<disk, today>>, UNCHANGED faults, mem' = mem
    PROVE  IInv'
<1>1. ReqOK(req[r]) /\ req[r].op \in Ops
    BY ReqFacts
<1>2. ReqOK(v)
    BY <1>1 DEF ReqOK
<1>3. FlightGoes(r, v)
    BY DEF FlightGoes, Stages
<1> QED
    BY <1>2, <1>3, QuietInv

LEMMA CheckInv == ASSUME IInv, NEW r \in Requests, Check(r) PROVE IInv'
<1>1. /\ req[r].stage = "check" /\ req[r].stage \in Stages \ {"send", "receipt"} /\ UNCHANGED <<service, chain>> /\ UNCHANGED <<txs, relays>>
      /\ UNCHANGED <<disk, today>> /\ UNCHANGED faults /\ mem' = mem /\ {"refused", "success"} \subseteq Answers
    BY DEF Check, Stages, Answers
<1>2. CASE service = "bootstrap" /\ req[r].op.account \in chain.deployed
    <2>1. Answer(r, "success") /\ Told(req[r].op)
        BY <1>2 DEF Check, Told
    <2> QED
        BY <1>1, <2>1, AnswerInv
<1>3. CASE service = "sponsored" /\ req[r].op.grant \in chain.revoked
    <2>1. Answer(r, "refused")
        BY <1>3 DEF Check
    <2> QED
        BY <1>1, <2>1, AnswerInv
<1>4. CASE ~(service = "bootstrap" /\ req[r].op.account \in chain.deployed) /\ ~(service = "sponsored" /\ req[r].op.grant \in chain.revoked)
    <2>1. PICK s : s = IF service = "bootstrap" THEN "funds" ELSE "nonce"
        OBVIOUS
    <2>2. Goto(r, s) /\ s \in StageSet /\ s \in Stages \ {"send", "receipt", "event"}
        BY <1>4, <2>1 DEF Check, StageSet, Stages
    <2>3. PICK v \in Req : StepOf(r, v) /\ Moved(r, v) /\ v.stage = s /\ v.answer = req[r].answer
        BY <2>2, ReqFacts, GotoIs
    <2>4. GiftOK(v)
        BY <2>1, <2>3 DEF GiftOK, WayOK, Ahead, Giving
    <2>5. v.op = req[r].op
        BY <2>3 DEF Moved
    <2> QED
        BY <1>1, <2>1, <2>2, <2>3, <2>4, <2>5, GoesInv
<1> QED
    BY <1>2, <1>3, <1>4

LEMMA CheckNonceInv == ASSUME IInv, NEW r \in Requests, CheckNonce(r) PROVE IInv'
<1>1. /\ req[r].stage = "nonce" /\ req[r].stage \in Stages \ {"send", "receipt"} /\ UNCHANGED <<service, chain>> /\ UNCHANGED <<txs, relays>>
      /\ UNCHANGED <<disk, today>> /\ UNCHANGED faults /\ mem' = mem /\ "refused" \in Answers
    BY DEF CheckNonce, Stages, Answers
<1>2. CASE req[r].op.nonce = chain.nonce[req[r].op.account]
    <2>1. Goto(r, "funds") /\ "funds" \in StageSet /\ "funds" \in Stages \ {"send", "receipt", "event"}
        BY <1>2 DEF CheckNonce, StageSet, Stages
    <2>2. PICK v \in Req : StepOf(r, v) /\ Moved(r, v) /\ v.stage = "funds" /\ v.answer = req[r].answer
        BY <2>1, ReqFacts, GotoIs
    <2>3. GiftOK(v) /\ v.op = req[r].op
        BY <1>2, <2>2 DEF GiftOK, WayOK, Moved, Giving
    <2> QED
        BY <1>1, <2>1, <2>2, <2>3, GoesInv
<1>3. CASE req[r].op.nonce # chain.nonce[req[r].op.account]
    <2>1. Answer(r, "refused")
        BY <1>3 DEF CheckNonce
    <2> QED
        BY <1>1, <2>1, AnswerInv
<1> QED
    BY <1>2, <1>3

LEMMA SimulateInv == ASSUME IInv, NEW r \in Requests, Simulate(r) PROVE IInv'
<1>1. /\ req[r].stage = "simulate" /\ req[r].stage \in Stages \ {"send", "receipt"} /\ UNCHANGED <<service, chain>> /\ UNCHANGED <<txs, relays>>
      /\ UNCHANGED <<disk, today>> /\ UNCHANGED faults /\ mem' = mem /\ "failed" \in Answers
    BY DEF Simulate, Stages, Answers
<1>2. CASE Accepted(req[r].op)
    <2>1. Goto(r, "relay") /\ "relay" \in StageSet /\ "relay" \in Stages \ {"send", "receipt", "event"}
        BY <1>2 DEF Simulate, StageSet, Stages
    <2>2. PICK v \in Req : StepOf(r, v) /\ Moved(r, v) /\ v.stage = "relay" /\ v.answer = req[r].answer
        BY <2>1, ReqFacts, GotoIs
    <2>3. GiftOK(v) /\ v.op = req[r].op
        BY <1>2, <2>2 DEF GiftOK, WayOK, Moved, Giving, Accepted
    <2>4. service # "bootstrap"
        BY <1>1, ReqFacts DEF ReqOK
    <2> QED
        BY <1>1, <2>1, <2>2, <2>3, <2>4, GoesInv
<1>3. CASE ~Accepted(req[r].op)
    <2>1. Answer(r, "failed")
        BY <1>3 DEF Simulate
    <2> QED
        BY <1>1, <2>1, AnswerInv
<1> QED
    BY <1>2, <1>3

LEMMA ArriveInv == ASSUME IInv, NEW r \in Requests, NEW op \in Ops, Arrive(r, op) PROVE IInv'
<1> DEFINE joins == \E q \in Working : SameFlight(req[q].op, op)
           refused == ~joins /\ SenderBusy(op)
<1>1. /\ req[r].stage = "idle" /\ UNCHANGED <<service, chain>> /\ UNCHANGED <<txs, relays>> /\ UNCHANGED <<disk, today>>
      /\ UNCHANGED faults /\ mem' = mem
    BY DEF Arrive
<1>2. Types /\ req \in [Requests -> Req]
    BY ReqFacts
<1>3. PICK s, a : /\ s = IF joins THEN "joined" ELSE IF refused THEN "done" ELSE IF service = "pinned" THEN "funds" ELSE "check"
                  /\ a = IF refused THEN "refused" ELSE "none"
    OBVIOUS
<1>4. s \in StageSet /\ a \in Answers /\ a # "success" /\ s \in {"joined", "done", "funds", "check"} /\ (s = "funds" => service = "pinned")
    BY <1>3 DEF StageSet, Stages, Answers
<1>5. PICK v : v = [req[r] EXCEPT !.op = op, !.stage = s, !.answer = a]
    OBVIOUS
<1>6. v \in Req /\ v.op = op /\ v.stage = s /\ v.answer = a
    BY <1>2, <1>4, <1>5 DEF Req
<1>7. req' = [req EXCEPT ![r] = v]
    <2>1. req' = [req EXCEPT ![r].op = op, ![r].stage = s, ![r].answer = a]
        BY <1>3, Zenon DEF Arrive
    <2> QED
        BY <1>2, <1>5, <2>1
<1>8. StepOf(r, v)
    BY <1>2, <1>6, <1>7, OnlyIs
<1>9. ReqOK(v) /\ GiftOK(v)
    <2>1. service = "pinned" => ~Paying /\ service # "sponsored" /\ service # "bootstrap"
        BY DEF Paying
    <2> QED
        BY <1>4, <1>6, <2>1 DEF ReqOK, GiftOK, WayOK, Ahead, Giving
<1>10. FlightGoes(r, v)
    <2>1. req[r].stage \notin Stages /\ r \notin Working /\ "joined" \notin Stages /\ "done" \notin Stages
        BY <1>1 DEF Working, Stages
    <2>2. s = "joined" => \E q \in Working \ {r} : SameFlight(req[q].op, op)
        BY <1>3, <2>1
    <2>3. ASSUME s \in Stages, Paying, NEW q \in Working, req[q].op.account = op.account PROVE FALSE
        <3>1. ~joins /\ ~SenderBusy(op)
            BY <1>3, <2>1, <2>3
        <3>2. CASE service = "bootstrap"
            BY <2>3, <3>1, <3>2 DEF SameFlight
        <3>3. CASE service = "sponsored"
            BY <2>3, <3>1, <3>3 DEF SenderBusy
        <3> QED
            BY <2>3, <3>2, <3>3 DEF Paying
    <2> QED
        BY <1>6, <2>1, <2>2, <2>3 DEF FlightGoes
<1> QED
    BY <1>1, <1>4, <1>6, <1>8, <1>9, <1>10, QuietInv

\* No transaction of an account is being waited for while its only flight is at another stage.
LEMMA NoOpen ==
    ASSUME IInv, Paying, NEW r \in Working, req[r].stage # "receipt", NEW t \in txs, t.op.account = req[r].op.account
    PROVE  t.charge # "open"
<1> SUFFICES ASSUME t.charge = "open" PROVE FALSE
    OBVIOUS
<1>1. PICK q \in Requests : req[q].stage = "receipt" /\ req[q].tx = t.id
    BY DEF IInv, FlightInv, TxOK
<1>2. PICK u \in txs : Tracks(req[q], u)
    BY <1>1 DEF IInv, FlightInv, ReqOK
<1>3. u = t
    BY <1>1, <1>2 DEF IInv, FlightInv, Tracks
<1>4. q \in Working
    BY <1>1 DEF Working, Stages
<1> QED
    BY <1>1, <1>2, <1>3, <1>4 DEF IInv, FlightInv, Alone, Tracks

LEMMA CheckFundsInv == ASSUME IInv, NEW r \in Requests, CheckFunds(r) PROVE IInv'
<1>1. /\ req[r].stage = "funds" /\ req[r].stage \in Stages \ {"send", "receipt"} /\ UNCHANGED <<service, chain>> /\ UNCHANGED <<txs, relays>>
      /\ UNCHANGED <<disk, today>> /\ UNCHANGED faults /\ mem' = mem /\ "refused" \in Answers
      /\ {"reserve", "simulate", "signature"} \subseteq StageSet /\ {"reserve", "simulate", "signature"} \subseteq Stages \ {"send", "receipt", "event"}
    BY DEF CheckFunds, Stages, StageSet, Answers
<1>2. Types /\ ReqOK(req[r]) /\ GiftOK(req[r]) /\ req[r] \in Req /\ r \in Working /\ req[r].op.account \in Accounts /\ req[r].op.nonce \in Nat
    BY <1>1, ReqFacts
<1>3. chain.deposit[req[r].op.account] \in Nat /\ Prefund \in Nat
    BY <1>2, Bounds DEF Types, Chain
<1>a. PICK short : short = Shortfall(req[r].op)
    OBVIOUS
<1>b. short \in Nat /\ chain.deposit[req[r].op.account] + short >= Prefund /\ (short > 0 => chain.deposit[req[r].op.account] < Prefund)
    BY <1>3, <1>a DEF Shortfall
<1>4. CASE service = "bootstrap" /\ req[r].op.account \notin chain.deployed
    <2>1. Goto(r, "reserve")
        BY <1>4 DEF CheckFunds
    <2>2. PICK v \in Req : StepOf(r, v) /\ Moved(r, v) /\ v.stage = "reserve" /\ v.answer = req[r].answer
        BY <1>1, <1>2, <2>1, GotoIs
    <2>3. ASSUME NEW t \in txs, SameGift(t.op, v.op) PROVE Over(t)
        <3>1. t.op.account = req[r].op.account /\ TxOK(t) /\ t \in Tx /\ Paying
            BY <1>2, <1>4, <2>2, <2>3 DEF SameGift, Moved, IInv, FlightInv, Types, Paying
        <3>2. t.charge # "open" /\ t.status # "mined"
            BY <1>1, <1>2, <1>4, <3>1, NoOpen DEF TxOK
        <3>3. t.status \in Statuses
            BY <3>1 DEF Tx
        <3> QED
            BY <3>1, <3>2, <3>3 DEF TxOK, Over, Forgotten, Statuses
    <2>4. GiftOK(v) /\ v.op = req[r].op /\ Paying
        BY <1>4, <2>2, <2>3 DEF GiftOK, Moved, Paying
    <2> QED
        BY <1>1, <2>2, <2>4, GoesInv
<1>5. CASE service = "sponsored" /\ short > 0
    <2>1. PICK v : v = [req[r] EXCEPT !.stage = "signature", !.short = short]
        OBVIOUS
    <2>2. v \in Req /\ v.stage = "signature" /\ v.op = req[r].op /\ v.short = short /\ v.answer = req[r].answer
        BY <1>1, <1>2, <1>b, <2>1 DEF Req
    <2>3. req' = [req EXCEPT ![r].stage = "signature", ![r].short = short]
        <3>1. service # "bootstrap" /\ short # 0
            BY <1>5, <1>b
        <3> QED
            BY <1>5, <1>a, <3>1, Zenon DEF CheckFunds
    <2>4. req' = [req EXCEPT ![r] = v]
        BY <1>2, <2>1, <2>3 DEF Types
    <2>5. StepOf(r, v)
        BY <1>2, <2>2, <2>4, OnlyIs
    <2>6. GiftOK(v)
        <3>1. CASE Lost(req[r].op.account)
            BY <2>2, <3>1 DEF GiftOK
        <3>2. CASE ~Lost(req[r].op.account)
            <4>1. chain.nonce[req[r].op.account] = req[r].op.nonce
                BY <1>1, <1>2, <1>5, <3>2 DEF GiftOK, WayOK, Ahead
            <4>2. ASSUME NEW t \in txs, SameGift(t.op, v.op) PROVE Over(t)
                <5>1. t.op.account = req[r].op.account /\ t.op.nonce = req[r].op.nonce /\ TxOK(t) /\ t \in Tx /\ Paying
                    BY <1>2, <1>5, <2>2, <4>2 DEF SameGift, IInv, FlightInv, Types, Paying
                <5>2. t.charge # "open"
                    BY <1>1, <1>2, <5>1, NoOpen
                <5>3. PaidOK(t)
                    BY <1>5, <3>2, <5>1 DEF IInv, GiftInv
                <5>4. ~(t.known /\ t.status = "mined")
                    BY <1>3, <1>5, <1>b, <4>1, <5>1, <5>3 DEF PaidOK
                <5>5. t.status \in Statuses
                    BY <5>1 DEF Tx
                <5> QED
                    BY <5>1, <5>2, <5>4, <5>5 DEF TxOK, Over, Forgotten, Statuses
            <4> QED
                BY <1>b, <2>2, <4>1, <4>2 DEF GiftOK, WayOK
        <3> QED
            BY <3>1, <3>2
    <2> QED
        BY <1>1, <1>5, <2>2, <2>5, <2>6, GoesInv
<1>6. CASE service # "bootstrap" /\ short = 0
    <2>1. Goto(r, "simulate")
        BY <1>6, <1>a DEF CheckFunds
    <2>2. PICK v \in Req : StepOf(r, v) /\ Moved(r, v) /\ v.stage = "simulate" /\ v.answer = req[r].answer
        BY <1>1, <1>2, <2>1, GotoIs
    <2>3. GiftOK(v) /\ v.op = req[r].op
        BY <1>1, <1>2, <2>2 DEF GiftOK, WayOK, Moved, Giving, Ahead
    <2> QED
        BY <1>1, <1>6, <2>2, <2>3, GoesInv
<1>7. CASE /\ ~(service = "bootstrap" /\ req[r].op.account \notin chain.deployed)
           /\ ~(service = "sponsored" /\ short > 0) /\ ~(service # "bootstrap" /\ short = 0)
    <2>1. Answer(r, "refused")
        BY <1>7, <1>a, Zenon DEF CheckFunds
    <2> QED
        BY <1>1, <2>1, AnswerInv
<1> QED
    BY <1>4, <1>5, <1>6, <1>7

LEMMA CheckSignatureInv == ASSUME IInv, NEW r \in Requests, CheckSignature(r) PROVE IInv'
<1>1. /\ req[r].stage = "signature" /\ req[r].stage \in Stages \ {"send", "receipt"} /\ UNCHANGED <<service, chain>> /\ UNCHANGED <<txs, relays>>
      /\ UNCHANGED <<disk, today>> /\ UNCHANGED faults /\ mem' = mem /\ "reserve" \in StageSet /\ "reserve" \in Stages \ {"send", "receipt", "event"}
    BY DEF CheckSignature, Stages, StageSet
<1>2. Types /\ ReqOK(req[r]) /\ GiftOK(req[r]) /\ req[r] \in Req /\ today \in Days
    BY <1>1, ReqFacts DEF Types
<1>3. PICK v : v = [req[r] EXCEPT !.stage = "reserve", !.day = today]
    OBVIOUS
<1>4. v \in Req /\ v.stage = "reserve" /\ v.op = req[r].op /\ v.short = req[r].short /\ v.answer = req[r].answer
    BY <1>1, <1>2, <1>3 DEF Req
<1>5. req' = [req EXCEPT ![r].stage = "reserve", ![r].day = today]
    BY DEF CheckSignature
<1>6. req' = [req EXCEPT ![r] = v]
    BY <1>2, <1>3, <1>5 DEF Types
<1>7. StepOf(r, v)
    BY <1>2, <1>4, <1>6, OnlyIs
<1>8. GiftOK(v) /\ Paying
    BY <1>1, <1>2, <1>4 DEF GiftOK, WayOK, Ahead, Giving, ReqOK, Paying
<1> QED
    BY <1>1, <1>4, <1>7, <1>8, GoesInv

-----------------------------------------------------------------------------
(* Holds and the sponsor's transactions.                                   *)

LEMMA HoldsAdd ==
    ASSUME Types, NEW r \in Requests, NEW v \in Req, StepOf(r, v), NEW A \in SUBSET (Requests \ {r})
    PROVE  SumFunctionOnSet(Holds', A \cup {r}) = SumFunctionOnSet(Holds, A) + v.hold
<1>1. PICK g : g = Holds'
    OBVIOUS
<1>2. g[r] = v.hold /\ v.hold \in Nat /\ \A q \in A : g[q] \in Nat
    <2>1. g[r] = v.hold /\ v.hold \in Nat
        BY <1>1 DEF Holds, StepOf, Req
    <2>2. \A q \in A : g[q] = req[q].hold /\ req[q].hold \in Nat
        BY <1>1, WorkingStep, ReqTypes DEF Holds
    <2> QED
        BY <2>1, <2>2
<1>3. IsFiniteSet(A) /\ r \notin A
    BY RequestAssumption, FS_Subset
<1>4. SumFunctionOnSet(g, A \cup {r}) = SumFunctionOnSet(g, A) + g[r]
    BY <1>2, <1>3, SumAdd
<1> QED
    BY <1>1, <1>2, <1>4, HoldsAgree

\* What a day's transactions take of its ceiling is charged or held.
LEMMA LoadBound ==
    ASSUME IInv, NEW d \in Days
    PROVE  /\ SumFunctionOnSet(Loads, Admitted(d)) <= disk[d] + SumFunctionOnSet(Opens, txs)
           /\ SumFunctionOnSet(Loads, Admitted(d)) \in Nat /\ SumFunctionOnSet(Opens, txs) \in Nat /\ disk[d] \in Nat
<1>1. PICK A : A = Admitted(d)
    OBVIOUS
<1>2. /\ IsFiniteSet(A) /\ IsFiniteSet(txs) /\ A \subseteq txs /\ txs \subseteq Tx
      /\ \A t \in Tx : Amounts[t] \in Nat /\ Opens[t] \in Nat /\ Loads[t] \in Nat /\ Loads[t] <= Amounts[t] + Opens[t]
    BY <1>1, Finite DEF IInv, Admitted
<1>3. PICK h : h = [t \in Tx |-> Amounts[t] + Opens[t]]
    OBVIOUS
<1>4. \A t \in A : Amounts[t] \in Nat /\ Opens[t] \in Nat /\ h[t] = Amounts[t] + Opens[t] /\ h[t] \in Nat /\ Loads[t] \in Nat /\ Loads[t] <= h[t]
    BY <1>2, <1>3
<1>5. SumFunctionOnSet(h, A) = SumFunctionOnSet(Amounts, A) + SumFunctionOnSet(Opens, A)
    BY <1>2, <1>4, SumPlus
<1>6. SumFunctionOnSet(Loads, A) <= SumFunctionOnSet(h, A)
    BY <1>2, <1>4, SumMonotone
<1>7. SumFunctionOnSet(Opens, A) <= SumFunctionOnSet(Opens, txs)
    <2>1. \A t \in txs : Opens[t] \in Nat
        BY <1>2
    <2>2. \A t \in A : Opens[t] \in Nat /\ Opens[t] <= Opens[t]
        BY <1>2
    <2> QED
        BY <1>2, <2>1, <2>2, SumMonotone
<1>8. /\ SumFunctionOnSet(Loads, A) \in Nat /\ SumFunctionOnSet(Opens, txs) \in Nat /\ SumFunctionOnSet(Opens, A) \in Nat
      /\ SumFunctionOnSet(Amounts, A) \in Nat /\ SumFunctionOnSet(h, A) \in Nat
    <2>1. \A t \in txs : Opens[t] \in Nat
        BY <1>2
    <2> QED
        BY <1>2, <1>4, <2>1, SumType
<1>9. disk[d] = SumFunctionOnSet(Amounts, A)
    BY <1>1 DEF IInv, MoneyInv
<1> QED
    BY <1>1, <1>5, <1>6, <1>7, <1>8, <1>9

LEMMA RolledIs ==
    ASSUME IInv, NEW day \in Days
    PROVE  /\ Rolled(day) \in [day : Days, spent : Nat, reserved : Nat]
           /\ Rolled(day).day = day /\ Rolled(day).spent = disk[day] /\ Rolled(day).reserved = mem.reserved
<1>1. mem \in [day : Days, spent : Nat, reserved : Nat] /\ disk[day] \in Nat /\ mem.spent = disk[mem.day]
    BY DEF IInv, Types, MoneyInv
<1>2. PICK m : m = [mem EXCEPT !.day = day, !.spent = disk[day]]
    OBVIOUS
<1>3. m \in [day : Days, spent : Nat, reserved : Nat] /\ m.day = day /\ m.spent = disk[day] /\ m.reserved = mem.reserved
    BY <1>1, <1>2
<1>4. Rolled(day) = IF mem.day = day THEN mem ELSE m
    BY <1>2 DEF Rolled
<1> QED
    BY <1>1, <1>3, <1>4

LEMMA HoldInv == ASSUME IInv, NEW r \in Requests, Hold(r) PROVE IInv'
<1>1. /\ req[r].stage = "reserve" /\ req[r].stage \in Stages \ {"send", "receipt"} /\ UNCHANGED <<service, chain>> /\ UNCHANGED <<txs, relays>>
      /\ UNCHANGED <<disk, today>> /\ UNCHANGED faults /\ "refused" \in Answers /\ "send" \in StageSet
    BY DEF Hold, Stages, StageSet, Answers
<1>2. Types /\ ReqOK(req[r]) /\ GiftOK(req[r]) /\ req[r] \in Req /\ req[r].op \in Ops /\ req[r].short \in Nat /\ req[r].day \in Days
    BY <1>1, ReqFacts, ReqTypes
<1>3. PICK day, hold : day = (IF service = "bootstrap" THEN today ELSE req[r].day) /\ hold = req[r].short + GasHold
    OBVIOUS
<1>4. day \in Days /\ hold \in Nat
    BY <1>2, <1>3, Bounds DEF Types
<1>5. PICK m : m = Rolled(day)
    OBVIOUS
<1>6. m \in [day : Days, spent : Nat, reserved : Nat] /\ m.day = day /\ m.spent = disk[day] /\ m.reserved = mem.reserved
    BY <1>4, <1>5, RolledIs
<1>7. CASE ~Room(day, hold)
    <2>1. mem' = m /\ Answer(r, "refused")
        BY <1>3, <1>5, <1>7, Zenon DEF Hold
    <2> QED
        BY <1>1, <1>6, <2>1, AnswerInv
<1>8. CASE Room(day, hold)
    <2>1. mem' = [m EXCEPT !.reserved = @ + hold] /\ req' = [req EXCEPT ![r].stage = "send", ![r].hold = hold, ![r].day = day]
        BY <1>3, <1>5, <1>8, Zenon DEF Hold
    <2>2. PICK v : v = [req[r] EXCEPT !.stage = "send", !.hold = hold, !.day = day]
        OBVIOUS
    <2>3. v \in Req /\ v.stage = "send" /\ v.op = req[r].op /\ v.short = req[r].short /\ v.answer = req[r].answer /\ v.hold = hold /\ v.day = day
        BY <1>1, <1>2, <1>4, <2>2 DEF Req
    <2>4. req' = [req EXCEPT ![r] = v]
        BY <1>2, <2>1, <2>2 DEF Types
    <2>5. StepOf(r, v)
        BY <1>2, <2>3, <2>4, OnlyIs
    <2>6. FlightInv' /\ GiftInv'
        <3>1. GiftOK(v)
            BY <1>1, <1>2, <2>3 DEF GiftOK, WayOK, Ahead, Giving
        <3>2. ReqOK(v)
            BY <1>1, <1>2, <2>3 DEF ReqOK
        <3>3. FlightGoes(r, v)
            BY <1>1, <2>3 DEF FlightGoes, Stages
        <3> QED
            BY <1>1, <2>3, <2>5, <3>1, <3>2, <3>3, QuietStep
    <2>7. mem' \in [day : Days, spent : Nat, reserved : Nat] /\ mem'.day = day /\ mem'.spent = disk[day] /\ mem'.reserved = mem.reserved + hold
        BY <1>4, <1>6, <2>1
    <2>8. Types'
        BY <1>1, <1>2, <2>5, <2>7, FaultIs DEF Types, StepOf
    <2>9. /\ Sending' = Sending \cup {r} /\ Sending \in SUBSET (Requests \ {r})
          /\ OpenHolds' = OpenHolds \cup {r} /\ OpenHolds \in SUBSET (Requests \ {r})
          /\ \A q \in Sending : req'[q] = req[q]
        <3>1. req'[r] = v /\ \A q \in Requests \ {r} : req'[q] = req[q]
            BY <1>2, <2>4 DEF Types
        <3> QED
            BY <1>1, <2>3, <3>1 DEF Sending, OpenHolds
    <2>10. /\ SumFunctionOnSet(Holds', OpenHolds') = SumFunctionOnSet(Holds, OpenHolds) + hold
           /\ SumFunctionOnSet(Holds', Sending') = SumFunctionOnSet(Holds, Sending) + hold
           /\ SumFunctionOnSet(Holds, Sending) \in Nat
        BY <1>2, <2>3, <2>5, <2>9, HoldsAdd, HoldsAgree
    <2>11. mem.reserved = SumFunctionOnSet(Holds, OpenHolds) /\ mem.reserved = SumFunctionOnSet(Holds, Sending) + SumFunctionOnSet(Opens, txs)
        BY DEF IInv, MoneyInv
    <2>12. SumFunctionOnSet(Opens, txs) \in Nat
        BY <1>4, LoadBound
    <2>13. /\ mem'.reserved = SumFunctionOnSet(Holds', OpenHolds')
           /\ mem'.reserved = SumFunctionOnSet(Holds', Sending') + SumFunctionOnSet(Opens, txs)
        BY <1>4, <2>7, <2>10, <2>11, <2>12
    <2>14. ASSUME NEW d \in Days
           PROVE  SumFunctionOnSet(Loads, Admitted(d)) + SumFunctionOnSet(Holds', {q \in Sending' : req'[q].day = d}) <= DailyLimit
        <3>1. PICK B : B = {q \in Sending : req[q].day = d}
            OBVIOUS
        <3>2. B \in SUBSET (Requests \ {r}) /\ B \subseteq Sending
            BY <2>9, <3>1
        <3>3. req'[r] = v
            BY <2>5 DEF StepOf
        <3>4. SumFunctionOnSet(Loads, Admitted(d)) + SumFunctionOnSet(Holds, B) <= DailyLimit
            BY <3>1 DEF IInv, MoneyInv
        <3>5. CASE d # day
            <4>1. {q \in Sending' : req'[q].day = d} = B
                BY <2>3, <2>9, <3>1, <3>3, <3>5
            <4> QED
                BY <1>2, <2>3, <2>5, <3>2, <3>4, <4>1, HoldsAgree
        <3>6. CASE d = day
            <4>1. {q \in Sending' : req'[q].day = d} = B \cup {r}
                BY <2>3, <2>9, <3>1, <3>3, <3>6
            <4>2. SumFunctionOnSet(Holds', B \cup {r}) = SumFunctionOnSet(Holds, B) + hold
                BY <1>2, <2>3, <2>5, <3>2, HoldsAdd
            <4>3. SumFunctionOnSet(Holds, B) <= SumFunctionOnSet(Holds, Sending) /\ SumFunctionOnSet(Holds, B) \in Nat
                <5>1. IsFiniteSet(Sending) /\ \A q \in Sending : Holds[q] \in Nat /\ Holds[q] <= Holds[q]
                    BY <1>2, <2>9, Finite
                <5>2. SumFunctionOnSet(Holds, B) <= SumFunctionOnSet(Holds, Sending)
                    BY <3>2, <5>1, SumMonotone
                <5> QED
                    BY <1>2, <2>5, <2>3, <3>2, <5>2, HoldsAgree
            <4>4. disk[d] + mem.reserved + hold <= DailyLimit
                BY <1>5, <1>6, <1>8, <3>6 DEF Room
            <4>5. /\ SumFunctionOnSet(Loads, Admitted(d)) <= disk[d] + SumFunctionOnSet(Opens, txs)
                  /\ SumFunctionOnSet(Loads, Admitted(d)) \in Nat /\ disk[d] \in Nat
                BY LoadBound
            <4>6. SumFunctionOnSet(Loads, Admitted(d)) + (SumFunctionOnSet(Holds, B) + hold) <= DailyLimit
                BY <1>4, <2>10, <2>11, <2>12, <4>3, <4>4, <4>5, Bounds
            <4> QED
                BY <4>1, <4>2, <4>6
        <3> QED
            BY <3>5, <3>6
    <2>15. MoneyInv'
        <3>1. \A d : Admitted(d)' = Admitted(d)
            BY <1>1 DEF Admitted
        <3>2. \A d \in Days : disk'[d] = SumFunctionOnSet(Amounts, Admitted(d)')
            BY <1>1, <3>1 DEF IInv, MoneyInv
        <3>3. mem'.spent = disk'[mem'.day]
            BY <1>1, <2>7
        <3> QED
            BY <1>1, <2>13, <2>14, <3>1, <3>2, <3>3 DEF MoneyInv, Amounts, Opens, Loads
    <2> QED
        BY <2>6, <2>8, <2>15 DEF IInv
<1> QED
    BY <1>7, <1>8

-----------------------------------------------------------------------------
(* The set of the sponsor's transactions.                                  *)

LEMMA TxFacts ==
    ASSUME IInv, NEW t \in txs
    PROVE  /\ t \in Tx /\ t.id \in Nat /\ t.id <= Cardinality(txs) /\ Cardinality(txs) \in Nat /\ TxOK(t) /\ Paying
           /\ t.op \in Ops /\ t.op.account \in Accounts /\ t.op.nonce \in Nat /\ t.value \in Nat /\ t.hold \in Nat /\ t.cost \in Nat /\ t.amount \in Nat
           /\ t.status \in Statuses /\ t.charge \in Charges /\ t.known \in BOOLEAN /\ t.day \in Days
           /\ \A u \in txs : t.id = u.id => t = u
<1>1. t \in Tx /\ IsFiniteSet(txs) /\ TxOK(t) /\ \A u \in txs : t.id = u.id => t = u
    BY DEF IInv, Types, FlightInv
<1>2. Cardinality(txs) \in Nat
    BY <1>1, FS_CardinalityType
<1>3. /\ t.id \in Nat /\ t.op \in Ops /\ t.value \in Nat /\ t.hold \in Nat /\ t.cost \in Nat /\ t.amount \in Nat
      /\ t.status \in Statuses /\ t.charge \in Charges /\ t.known \in BOOLEAN /\ t.day \in Days
    BY <1>1 DEF Tx
<1>4. t.op.account \in Accounts /\ t.op.nonce \in Nat
    BY <1>3, RequestAssumption DEF Accounts
<1> QED
    BY <1>1, <1>2, <1>3, <1>4 DEF TxOK

\* A new transaction has the next number.
LEMMA TxsAdd ==
    ASSUME IInv, NEW n \in Tx, n.id = Cardinality(txs) + 1, txs' = txs \cup {n}
    PROVE  /\ n \notin txs /\ txs' \subseteq Tx /\ IsFiniteSet(txs') /\ Cardinality(txs') = Cardinality(txs) + 1 /\ Cardinality(txs) \in Nat
           /\ \A t, u \in txs' : t.id = u.id => t = u
<1>1. txs \subseteq Tx /\ IsFiniteSet(txs) /\ Cardinality(txs) \in Nat
    BY FS_CardinalityType DEF IInv, Types
<1>2. \A t \in txs : t.id # n.id
    BY <1>1, TxFacts
<1>3. n \notin txs
    BY <1>2
<1>4. IsFiniteSet(txs') /\ Cardinality(txs') = Cardinality(txs) + 1
    BY <1>1, <1>3, FS_AddElement
<1>5. \A t, u \in txs : t.id = u.id => t = u
    BY DEF IInv, FlightInv
<1> QED
    BY <1>1, <1>2, <1>3, <1>4, <1>5

\* A transaction keeps its number when it changes.
LEMMA TxsSwap ==
    ASSUME IInv, NEW t \in txs, NEW u \in Tx, u.id = t.id, txs' = (txs \ {t}) \cup {u}
    PROVE  /\ u \notin txs \ {t} /\ txs' \subseteq Tx /\ IsFiniteSet(txs') /\ Cardinality(txs') = Cardinality(txs)
           /\ \A x, y \in txs' : x.id = y.id => x = y
<1>1. txs \subseteq Tx /\ IsFiniteSet(txs) /\ Cardinality(txs) \in Nat
    BY FS_CardinalityType DEF IInv, Types
<1>2. \A x, y \in txs : x.id = y.id => x = y
    BY DEF IInv, FlightInv
<1>3. u \notin txs \ {t}
    BY <1>2
<1>4. IsFiniteSet(txs \ {t}) /\ Cardinality(txs \ {t}) = Cardinality(txs) - 1
    BY <1>1, FS_RemoveElement
<1>5. IsFiniteSet(txs') /\ Cardinality(txs') = Cardinality(txs \ {t}) + 1
    BY <1>3, <1>4, FS_AddElement
<1>6. Cardinality(txs') = Cardinality(txs)
    BY <1>1, <1>4, <1>5
<1> QED
    BY <1>1, <1>2, <1>3, <1>5, <1>6

\* What is lost stays lost while the relayer's transactions rest.
LEMMA LostRests ==
    ASSUME NEW r \in Requests, NEW v \in Req, StepOf(r, v), v.stage # "event", relays' = relays, NEW a, Lost(a)
    PROVE  Lost(a)'
<1>1. \A h \in relays : \E k \in relays' : k.id = h.id /\ k.op = h.op /\ (k.known => h.known \/ Tracked(h))
    OBVIOUS
<1>2. \A q \in Requests : req'[q].stage = "event" =>
         (req[q].stage = "event" /\ req'[q].tx = req[q].tx) \/ \A h \in relays : h.id # req'[q].tx
    BY WorkingStep DEF StepOf
<1> QED
    BY <1>1, <1>2, LostKept

\* The transaction a waiting request tracks.
LEMMA TrackedTx ==
    ASSUME IInv, NEW q \in Requests, req[q].stage = "receipt"
    PROVE  \E t \in txs : Tracks(req[q], t) /\ (\A u \in txs : u.id = req[q].tx => u = t) /\ q \in Working /\ Paying
<1>1. PICK t \in txs : Tracks(req[q], t)
    BY DEF IInv, FlightInv, ReqOK
<1>2. \A u \in txs : u.id = req[q].tx => u = t
    BY <1>1, TxFacts DEF Tracks
<1>3. q \in Working /\ Paying
    BY <1>1, TxFacts DEF Working, Stages
<1> QED
    BY <1>1, <1>2, <1>3

\* The request r, with its hold, hands its transaction n to the node.
SentAs(r, v, n) ==
    /\ n \in Tx /\ n.id = Cardinality(txs) + 1 /\ n.op = req[r].op /\ n.value = req[r].short /\ n.hold = req[r].hold /\ n.day = req[r].day
    /\ n.status = "pending" /\ ~n.known /\ n.amount = 0 /\ v.op = req[r].op
    /\ \/ /\ n.charge = "open" /\ v.stage = "receipt" /\ v.tx = n.id /\ v.short = n.value /\ v.hold = n.hold /\ v.day = n.day /\ v.answer = req[r].answer
       \/ n.charge = "zero" /\ v.stage = "done" /\ v.answer = "failed" /\ Ends(r)

LEMMA SendStep ==
    ASSUME IInv, NEW r \in Requests, req[r].stage = "send", NEW v \in Req, StepOf(r, v), NEW n, SentAs(r, v, n), txs' = txs \cup {n},
           UNCHANGED <<service, chain>>, relays' = relays
    PROVE  FlightInv' /\ GiftInv'
<1>0. /\ \A q \in Requests \ {r} : /\ req'[q].stage \in {"joined", "event", "receipt", "send"} => req'[q] = req[q]
                                   /\ req[q].stage \in {"event", "receipt", "send"} => req'[q] = req[q]
      /\ req'[r] = v
    BY WorkingStep DEF StepOf
<1>1. /\ n \in Tx /\ n.id = Cardinality(txs) + 1 /\ n.op = req[r].op /\ n.value = req[r].short /\ n.hold = req[r].hold /\ n.day = req[r].day
      /\ n.status = "pending" /\ ~n.known /\ n.amount = 0 /\ v.op = req[r].op
    BY Zenon DEF SentAs
<1>2. /\ n.charge = "open" => v.stage = "receipt" /\ v.tx = n.id /\ v.short = n.value /\ v.hold = n.hold /\ v.day = n.day /\ v.answer = req[r].answer
      /\ n.charge # "open" => n.charge = "zero" /\ v.stage = "done" /\ v.answer = "failed" /\ Ends(r)
    BY DEF SentAs
<1>3. /\ n \notin txs /\ txs' \subseteq Tx /\ IsFiniteSet(txs') /\ Cardinality(txs') = Cardinality(txs) + 1 /\ Cardinality(txs) \in Nat
      /\ \A t, u \in txs' : t.id = u.id => t = u
    BY <1>1, TxsAdd
<1>4. /\ Types /\ ReqOK(req[r]) /\ GiftOK(req[r]) /\ r \in Working /\ req[r].op \in Ops /\ req[r].op.account \in Accounts /\ req[r].op.nonce \in Nat
      /\ Paying /\ "send" \in Stages /\ "receipt" \in Stages
    BY ReqFacts DEF Stages, ReqOK
<1>5. (\A q \in Requests : ReqOK(req[q])') /\ Alone' /\ Joined'
    <2>1. \A q \in Requests \ {r} : req[q].stage = "receipt" => \E t \in txs' : Tracks(req[q], t)
        BY DEF IInv, FlightInv, ReqOK
    <2>2. \A h \in relays : \E k \in relays' : k.id = h.id /\ k.op = h.op
        OBVIOUS
    <2>3. ReqOK(v)'
        <3>1. v.stage = "receipt" => \E t \in txs' : Tracks(v, t)
            BY <1>1, <1>2 DEF Tracks
        <3> QED
            BY <1>1, <1>2, <1>4, <3>1 DEF ReqOK, Told, Paying
    <2>4. FlightGoes(r, v)
        BY <1>1, <1>2, <1>4 DEF FlightGoes, Stages
    <2> QED
        BY <2>1, <2>2, <2>3, <2>4, FlightStep
<1>6. ASSUME NEW t \in txs' PROVE TxOK(t)'
    <2>1. CASE t \in txs
        <3>1. TxOK(t) /\ t.id \in Nat /\ t.id <= Cardinality(txs)
            BY <2>1, TxFacts
        <3>2. t.charge = "open" => \E q \in Requests : req'[q].stage = "receipt" /\ req'[q].tx = t.id
            BY <1>0, <3>1 DEF TxOK
        <3>3. t.id <= Cardinality(txs')
            BY <1>3, <3>1
        <3> QED
            BY <3>1, <3>2, <3>3 DEF TxOK, Paying
    <2>2. CASE t = n
        <3>1. n.charge = "open" => \E q \in Requests : req'[q].stage = "receipt" /\ req'[q].tx = n.id
            BY <1>0, <1>2
        <3>2. n.id <= Cardinality(txs')
            BY <1>1, <1>3
        <3> QED
            BY <1>1, <1>2, <1>4, <2>2, <3>1, <3>2 DEF TxOK, Paying
    <2> QED
        BY <2>1, <2>2
<1>7. \A h \in relays' : RelayOK(h)'
    BY DEF IInv, FlightInv, RelayOK
<1>8. FlightInv'
    <2>1. \A h, k \in relays' : h.id = k.id => h = k
        BY DEF IInv, FlightInv
    <2> QED
        BY <1>3, <1>5, <1>6, <1>7, <2>1 DEF FlightInv
<1>9. ASSUME NEW a, Lost(a) PROVE Lost(a)'
    BY <1>2, <1>9, LostRests
<1>10. ASSUME NEW q \in Requests PROVE GiftOK(req[q])'
    <2>0. PICK w : w = req'[q]
        OBVIOUS
    <2>1. GiftOK(w)'
        <3>1. CASE w.stage \in {"idle", "joined", "done"}
            BY <3>1, Standing
        <3>2. CASE q = r /\ n.charge = "open"
            <4>1. w = v /\ w.stage = "receipt" /\ w.op = n.op /\ w.tx = n.id
                BY <1>0, <1>1, <1>2, <2>0, <3>2
            <4>2. Lost(n.op.account) => GiftOK(w)'
                BY <1>9, <4>1 DEF GiftOK
            <4>3. ASSUME ~Lost(n.op.account), service = "sponsored" PROVE WayOK(w)'
                <5>1. chain.nonce[n.op.account] = n.op.nonce /\ chain.deposit[n.op.account] + n.value >= Prefund
                    BY <1>1, <1>4, <4>3 DEF GiftOK, WayOK, Ahead, Giving
                <5>2. \A t \in txs' : t.id = n.id => t = n
                    BY <1>3
                <5> QED
                    BY <1>1, <4>1, <5>1, <5>2 DEF WayOK, Giving
            <4> QED
                BY <4>1, <4>2, <4>3 DEF GiftOK, Giving
        <3>3. CASE q # r /\ w = req[q] /\ w.stage \notin {"idle", "joined", "done"}
            <4>0. GiftOK(w) /\ ReqOK(w) /\ q \in Working
                BY <3>3, ReqTypes DEF IInv, GiftInv, FlightInv, Working, StageSet
            <4>1. w.op.account # n.op.account
                BY <1>1, <1>4, <3>3, <4>0 DEF IInv, FlightInv, Alone
            <4>2. w.stage = "receipt" => w.tx # n.id
                <5>1. SUFFICES ASSUME w.stage = "receipt" PROVE w.tx # n.id
                    OBVIOUS
                <5>2. PICK t \in txs : Tracks(req[q], t)
                    BY <3>3, <5>1, TrackedTx
                <5> QED
                    BY <1>1, <1>3, <3>3, <5>2, TxFacts DEF Tracks
            <4>3. Lost(w.op.account) => GiftOK(w)'
                BY <1>9 DEF GiftOK
            <4>4. ASSUME ~Lost(w.op.account) PROVE GiftOK(w)'
                <5>1. (service = "sponsored" => WayOK(w)) /\ (w.stage \in Giving => \A t \in txs : SameGift(t.op, w.op) => Over(t))
                    BY <4>0, <4>4 DEF GiftOK
                <5>2. service = "sponsored" => WayOK(w)'
                    BY <4>2, <5>1 DEF WayOK
                <5>3. w.stage \in Giving => \A t \in txs' : SameGift(t.op, w.op) => Over(t)
                    BY <4>1, <5>1 DEF SameGift
                <5> QED
                    BY <5>2, <5>3 DEF GiftOK
            <4> QED
                BY <4>3, <4>4
        <3> QED
            BY <1>0, <1>2, <2>0, <3>1, <3>2, <3>3 DEF StepOf, Bystands
    <2> QED
        BY <2>0, <2>1 DEF GiftOK, WayOK
<1>11. service = "sponsored" => \A t \in txs' : Lost(t.op.account)' \/ PaidOK(t)'
    <2> SUFFICES ASSUME service = "sponsored", NEW t \in txs', ~Lost(t.op.account) PROVE PaidOK(t)'
        BY <1>9
    <2>1. CASE t \in txs
        BY <2>1 DEF IInv, GiftInv, PaidOK
    <2>2. CASE t = n
        <3>1. chain.nonce[n.op.account] = n.op.nonce
            BY <1>1, <1>4, <2>2 DEF GiftOK, WayOK, Ahead
        <3> QED
            BY <1>1, <1>4, <2>2, <3>1 DEF PaidOK
    <2> QED
        BY <2>1, <2>2
<1>12. ASSUME NEW t \in txs', NEW u \in txs', t.id < u.id, SameGift(t.op, u.op) PROVE Over(t) \/ Lost(t.op.account)'
    <2>1. CASE t \in txs /\ u \in txs
        BY <1>9, <1>12, <2>1 DEF IInv, GiftInv
    <2>2. CASE t \in txs /\ u = n
        <3>1. Lost(req[r].op.account) \/ Over(t)
            BY <1>1, <1>4, <1>12, <2>2 DEF GiftOK, Giving
        <3>2. t.op.account = req[r].op.account
            BY <1>1, <1>12, <2>2 DEF SameGift
        <3> QED
            BY <1>9, <3>1, <3>2
    <2>3. CASE t = n
        <3>1. \A x \in txs' : x.id \in Nat /\ x.id <= n.id
            BY <1>1, <1>3, TxFacts
        <3>2. n.id \in Nat
            BY <1>1, <1>3
        <3> QED
            BY <1>12, <2>3, <3>1, <3>2
    <2> QED
        BY <2>1, <2>2, <2>3
<1>13. GiftInv'
    <2>1. \A t \in txs', u \in txs' : t.id < u.id /\ SameGift(t.op, u.op) => Over(t) \/ Lost(t.op.account)'
        BY <1>12
    <2> QED
        BY <1>10, <1>11, <2>1 DEF GiftInv, SameGift, Over, Forgotten
<1> QED
    BY <1>8, <1>13

\* The transaction t becomes u.
Becomes(t, u) == u \in Tx /\ u.id = t.id /\ u.op = t.op /\ u.value = t.value /\ u.hold = t.hold /\ u.day = t.day

\* The transaction t that r waits for is charged as u, and r goes on or its flight ends.
SettledAs(r, v, t, u) ==
    /\ Becomes(t, u) /\ u.status = t.status /\ u.cost = t.cost /\ u.charge = "settled"
    /\ (u.known /\ t.status # "pending" /\ u.amount = t.cost) \/ (~u.known /\ u.amount = t.hold)
    /\ \/ v.stage = "done" /\ Ends(r) /\ (v.answer = "success" => Told(v.op))
       \/ v.stage = "simulate" /\ service = "sponsored" /\ v.answer = req[r].answer

LEMMA SettleStep ==
    ASSUME IInv, NEW r \in Requests, req[r].stage = "receipt", NEW v \in Req, StepOf(r, v), Moved(r, v), NEW t \in txs, Tracks(req[r], t),
           NEW u, SettledAs(r, v, t, u), txs' = (txs \ {t}) \cup {u}, UNCHANGED <<service, chain>>, relays' = relays
    PROVE  FlightInv' /\ GiftInv'
<1>0. /\ \A q \in Requests \ {r} : /\ req'[q].stage \in {"joined", "event", "receipt", "send"} => req'[q] = req[q]
                                   /\ req[q].stage \in {"event", "receipt", "send"} => req'[q] = req[q]
      /\ req'[r] = v
    BY WorkingStep DEF StepOf
<1>1. /\ u \in Tx /\ u.id = t.id /\ u.op = t.op /\ u.value = t.value /\ u.hold = t.hold /\ u.day = t.day
      /\ u.status = t.status /\ u.cost = t.cost /\ u.charge = "settled"
      /\ (u.known /\ t.status # "pending" /\ u.amount = t.cost) \/ (~u.known /\ u.amount = t.hold)
    BY Zenon DEF SettledAs, Becomes
<1>2. \/ v.stage = "done" /\ Ends(r) /\ (v.answer = "success" => Told(v.op))
      \/ v.stage = "simulate" /\ service = "sponsored" /\ v.answer = req[r].answer
    BY Zenon DEF SettledAs
<1>3. /\ u \notin txs \ {t} /\ txs' \subseteq Tx /\ IsFiniteSet(txs') /\ Cardinality(txs') = Cardinality(txs)
      /\ \A x, y \in txs' : x.id = y.id => x = y
    BY <1>1, TxsSwap
<1>4. /\ Types /\ ReqOK(req[r]) /\ GiftOK(req[r]) /\ r \in Working /\ req[r].op \in Ops /\ Paying /\ {"simulate", "receipt"} \subseteq Stages
    BY ReqFacts DEF Stages, ReqOK
<1>5. /\ v.op = req[r].op /\ t.op = req[r].op /\ t.charge = "open" /\ t.id = req[r].tx
      /\ TxOK(t) /\ \A x \in txs : x.id = t.id => x = t
    BY TxFacts DEF Moved, Tracks
<1>6. (\A q \in Requests : ReqOK(req[q])') /\ Alone' /\ Joined'
    <2>1. ASSUME NEW q \in Requests \ {r}, req[q].stage = "receipt" PROVE \E x \in txs' : Tracks(req[q], x)
        <3>1. PICK x \in txs : Tracks(req[q], x) /\ q \in Working
            BY <2>1, TrackedTx
        <3>2. x # t
            BY <1>4, <1>5, <3>1 DEF Tracks, IInv, FlightInv, Alone
        <3> QED
            BY <3>1, <3>2
    <2>2. \A h \in relays : \E k \in relays' : k.id = h.id /\ k.op = h.op
        OBVIOUS
    <2>3. ReqOK(v)'
        BY <1>2, <1>4, <1>5 DEF ReqOK, Told, Paying
    <2>4. FlightGoes(r, v)
        BY <1>2, <1>4, <1>5 DEF FlightGoes, Stages
    <2> QED
        BY <2>1, <2>2, <2>3, <2>4, FlightStep
<1>7. ASSUME NEW x \in txs' PROVE TxOK(x)'
    <2>1. CASE x \in txs \ {t}
        <3>1. TxOK(x) /\ x.id # t.id
            BY <1>5, <2>1, TxFacts
        <3>2. x.charge = "open" => \E q \in Requests : req'[q].stage = "receipt" /\ req'[q].tx = x.id
            BY <1>0, <1>5, <3>1 DEF TxOK
        <3> QED
            BY <1>3, <3>1, <3>2 DEF TxOK, Paying
    <2>2. CASE x = u
        BY <1>1, <1>3, <1>5, <2>2 DEF TxOK, Paying
    <2> QED
        BY <2>1, <2>2
<1>8. FlightInv'
    <2>1. \A h, k \in relays' : h.id = k.id => h = k
        BY DEF IInv, FlightInv
    <2>2. \A h \in relays' : RelayOK(h)'
        BY DEF IInv, FlightInv, RelayOK
    <2> QED
        BY <1>3, <1>6, <1>7, <2>1, <2>2 DEF FlightInv
<1>9. ASSUME NEW a, Lost(a) PROVE Lost(a)'
    BY <1>2, <1>9, LostRests
<1>10. Over(t) => Over(u)
    BY <1>1, <1>5 DEF Over, Forgotten
<1>11. ASSUME NEW w, GiftOK(w) PROVE GiftOK(w)'
    <2>1. Lost(w.op.account) => GiftOK(w)'
        BY <1>9 DEF GiftOK
    <2>2. ASSUME ~Lost(w.op.account) PROVE GiftOK(w)'
        <3>1. (service = "sponsored" => WayOK(w)) /\ (w.stage \in Giving => \A x \in txs : SameGift(x.op, w.op) => Over(x))
            BY <1>11, <2>2 DEF GiftOK
        <3>2. service = "sponsored" => WayOK(w)'
            BY <1>1, <3>1 DEF WayOK
        <3>3. w.stage \in Giving => \A x \in txs' : SameGift(x.op, w.op) => Over(x)
            BY <1>1, <1>10, <3>1
        <3> QED
            BY <3>2, <3>3 DEF GiftOK
    <2> QED
        BY <2>1, <2>2
<1>12. ASSUME NEW q \in Requests PROVE GiftOK(req[q])'
    <2>0. PICK w : w = req'[q]
        OBVIOUS
    <2>1. GiftOK(w)'
        <3>1. CASE w.stage \in {"idle", "joined", "done"}
            BY <3>1, Standing
        <3>2. CASE q = r /\ v.stage = "simulate"
            <4>1. GiftOK(v)
                BY <1>4, <1>5, <3>2 DEF GiftOK, WayOK, Ahead, Giving
            <4> QED
                BY <1>0, <1>11, <2>0, <3>2, <4>1
        <3>3. CASE q # r /\ w = req[q]
            BY <1>11, <3>3 DEF IInv, GiftInv
        <3> QED
            BY <1>0, <1>2, <2>0, <3>1, <3>2, <3>3 DEF StepOf, Bystands
    <2> QED
        BY <2>0, <2>1 DEF GiftOK, WayOK
<1>13. ASSUME service = "sponsored", NEW x \in txs', ~Lost(x.op.account) PROVE PaidOK(x)'
    <2>1. CASE x \in txs
        BY <1>13, <2>1 DEF IInv, GiftInv, PaidOK
    <2>2. CASE x = u
        <3>1. PaidOK(t) /\ WayOK(req[r])
            BY <1>1, <1>4, <1>5, <1>13, <2>2 DEF IInv, GiftInv, GiftOK
        <3>2. t.status = "mined" => chain.deposit[t.op.account] >= Prefund
            BY <1>5, <3>1 DEF WayOK
        <3> QED
            BY <1>1, <2>2, <3>1, <3>2 DEF PaidOK
    <2> QED
        BY <2>1, <2>2
<1>14. ASSUME NEW x \in txs', NEW y \in txs', x.id < y.id, SameGift(x.op, y.op) PROVE Over(x) \/ Lost(x.op.account)'
    <2>1. PICK b \in txs : b.id = y.id /\ b.op = y.op
        BY <1>1
    <2>2. PICK a \in txs : a.id = x.id /\ a.op = x.op /\ (Over(a) => Over(x))
        BY <1>1, <1>10
    <2>3. Over(a) \/ Lost(a.op.account)
        BY <1>14, <2>1, <2>2 DEF IInv, GiftInv
    <2> QED
        BY <1>9, <2>2, <2>3
<1>15. GiftInv'
    <2>1. \A x \in txs', y \in txs' : x.id < y.id /\ SameGift(x.op, y.op) => Over(x) \/ Lost(x.op.account)'
        BY <1>14
    <2>2. service' = "sponsored" => \A x \in txs' : Lost(x.op.account)' \/ PaidOK(x)'
        BY <1>9, <1>13
    <2> QED
        BY <1>12, <2>1, <2>2 DEF GiftInv, SameGift, Over, Forgotten
<1> QED
    BY <1>8, <1>15

LEMMA SwapOn ==
    ASSUME NEW G, \A x \in Tx : G[x] \in Nat, NEW D \in SUBSET Tx, IsFiniteSet(D), NEW t \in D, NEW u \in Tx, u \notin D \ {t}
    PROVE  /\ SumFunctionOnSet(G, (D \ {t}) \cup {u}) = SumFunctionOnSet(G, D) - G[t] + G[u]
           /\ SumFunctionOnSet(G, D) \in Nat /\ G[t] \in Nat /\ G[u] \in Nat /\ G[t] <= SumFunctionOnSet(G, D)
<1>1. IsFiniteSet(D \ {t}) /\ (\A x \in D : G[x] \in Nat) /\ G[t] \in Nat /\ G[u] \in Nat
    BY FS_Subset
<1>2. SumFunctionOnSet(G, D) = G[t] + SumFunctionOnSet(G, D \ {t})
    BY <1>1, SumStep
<1>3. SumFunctionOnSet(G, (D \ {t}) \cup {u}) = SumFunctionOnSet(G, D \ {t}) + G[u]
    BY <1>1, SumAdd
<1>4. SumFunctionOnSet(G, D \ {t}) \in Nat /\ SumFunctionOnSet(G, D) \in Nat
    BY <1>1, SumType
<1> QED
    BY <1>1, <1>2, <1>3, <1>4

\* What the sum over the transactions, and over a day's, does when t becomes u.
LEMMA SwapSum ==
    ASSUME IInv, NEW t \in txs, NEW u, Becomes(t, u), txs' = (txs \ {t}) \cup {u}, NEW G, \A x \in Tx : G[x] \in Nat
    PROVE  /\ SumFunctionOnSet(G, txs') = SumFunctionOnSet(G, txs) - G[t] + G[u] /\ G[t] \in Nat /\ G[u] \in Nat
           /\ SumFunctionOnSet(G, txs) \in Nat /\ G[t] <= SumFunctionOnSet(G, txs)
           /\ SumFunctionOnSet(G, Admitted(t.day)') = SumFunctionOnSet(G, Admitted(t.day)) - G[t] + G[u]
           /\ \A d : d # t.day => SumFunctionOnSet(G, Admitted(d)') = SumFunctionOnSet(G, Admitted(d))
           /\ \A d : SumFunctionOnSet(G, Admitted(d)) \in Nat
<1>1. u \in Tx /\ u.id = t.id /\ u.day = t.day /\ txs \subseteq Tx /\ IsFiniteSet(txs) /\ t \in Tx
    BY DEF Becomes, IInv, Types
<1>2. u \notin txs \ {t}
    BY <1>1, TxsSwap
<1>3. SumFunctionOnSet(G, txs') = SumFunctionOnSet(G, txs) - G[t] + G[u] /\ G[t] \in Nat /\ G[u] \in Nat
           /\ SumFunctionOnSet(G, txs) \in Nat /\ G[t] <= SumFunctionOnSet(G, txs)
    BY <1>1, <1>2, SwapOn
<1>4. SumFunctionOnSet(G, Admitted(t.day)') = SumFunctionOnSet(G, Admitted(t.day)) - G[t] + G[u]
    <2>1. PICK D, E : D = Admitted(t.day) /\ E = Admitted(t.day)'
        OBVIOUS
    <2>2. E = (D \ {t}) \cup {u} /\ D \in SUBSET Tx /\ t \in D /\ u \notin D \ {t}
        BY <1>1, <1>2, <2>1 DEF Admitted
    <2>3. IsFiniteSet(D)
        BY <2>1, Finite DEF IInv
    <2>4. SumFunctionOnSet(G, E) = SumFunctionOnSet(G, D) - G[t] + G[u]
        BY <1>1, <2>2, <2>3, SwapOn
    <2> QED
        BY <2>1, <2>4
<1>5. \A d : d # t.day => Admitted(d)' = Admitted(d)
    BY <1>1 DEF Admitted
<1>6. ASSUME NEW d PROVE SumFunctionOnSet(G, Admitted(d)) \in Nat
    <2>1. IsFiniteSet(Admitted(d)) /\ \A x \in Admitted(d) : G[x] \in Nat
        BY Finite DEF IInv
    <2> QED
        BY <2>1, SumType
<1> QED
    BY <1>3, <1>4, <1>5, <1>6

\* The same when n is added.
LEMMA AddSum ==
    ASSUME IInv, NEW n \in Tx, n.id = Cardinality(txs) + 1, txs' = txs \cup {n}, NEW G, \A x \in Tx : G[x] \in Nat
    PROVE  /\ SumFunctionOnSet(G, txs') = SumFunctionOnSet(G, txs) + G[n] /\ SumFunctionOnSet(G, txs) \in Nat /\ G[n] \in Nat
           /\ SumFunctionOnSet(G, Admitted(n.day)') = SumFunctionOnSet(G, Admitted(n.day)) + G[n]
           /\ \A d : d # n.day => SumFunctionOnSet(G, Admitted(d)') = SumFunctionOnSet(G, Admitted(d))
           /\ \A d : SumFunctionOnSet(G, Admitted(d)) \in Nat
<1>1. n \notin txs /\ txs \subseteq Tx /\ IsFiniteSet(txs) /\ \A y \in txs \cup {n} : G[y] \in Nat
    BY TxsAdd DEF IInv, Types
<1>2. SumFunctionOnSet(G, txs') = SumFunctionOnSet(G, txs) + G[n] /\ SumFunctionOnSet(G, txs) \in Nat
    BY <1>1, SumAdd, SumType
<1>3. SumFunctionOnSet(G, Admitted(n.day)') = SumFunctionOnSet(G, Admitted(n.day)) + G[n]
    <2>1. PICK D, E : D = Admitted(n.day) /\ E = Admitted(n.day)'
        OBVIOUS
    <2>2. E = D \cup {n} /\ n \notin D /\ \A y \in D \cup {n} : G[y] \in Nat
        BY <1>1, <2>1 DEF Admitted
    <2>3. IsFiniteSet(D)
        BY <2>1, Finite DEF IInv
    <2>4. SumFunctionOnSet(G, E) = SumFunctionOnSet(G, D) + G[n]
        BY <2>2, <2>3, SumAdd
    <2> QED
        BY <2>1, <2>4
<1>4. \A d : d # n.day => Admitted(d)' = Admitted(d)
    BY DEF Admitted
<1>5. ASSUME NEW d PROVE SumFunctionOnSet(G, Admitted(d)) \in Nat
    <2>1. IsFiniteSet(Admitted(d)) /\ \A x \in Admitted(d) : G[x] \in Nat
        BY Finite DEF IInv
    <2> QED
        BY <2>1, SumType
<1> QED
    BY <1>1, <1>2, <1>3, <1>4, <1>5

\* What settling a hold does to the books.
LEMMA SettleIs ==
    ASSUME IInv, NEW hold \in Nat, hold <= mem.reserved, NEW day \in Days, NEW actual \in Nat, Settle(hold, day, actual)
    PROVE  /\ mem' \in [day : Days, spent : Nat, reserved : Nat] /\ mem'.reserved = mem.reserved - hold /\ mem'.spent = disk'[mem'.day]
           /\ disk' \in [Days -> Nat] /\ disk'[day] = disk[day] + actual /\ \A d \in Days \ {day} : disk'[d] = disk[d]
<1>1. today \in Days /\ disk \in [Days -> Nat] /\ mem.reserved \in Nat /\ disk[day] \in Nat
    BY DEF IInv, Types
<1>2. PICK m : m = Rolled(today)
    OBVIOUS
<1>3. m \in [day : Days, spent : Nat, reserved : Nat] /\ m.day = today /\ m.spent = disk[today] /\ m.reserved = mem.reserved
    BY <1>1, <1>2, RolledIs
<1>4. PICK rest, spent, total : /\ rest = m.reserved - hold /\ spent = (IF day = today THEN m.spent + actual ELSE m.spent)
                                /\ total = (IF day = today THEN m.spent ELSE disk[day]) + actual
    OBVIOUS
<1>5. rest \in Nat /\ rest = mem.reserved - hold /\ spent \in Nat /\ total = disk[day] + actual /\ total \in Nat
    BY <1>1, <1>3, <1>4
<1>6. disk' = [disk EXCEPT ![day] = total]
    BY <1>2, <1>4 DEF Settle
<1>7. mem' = [m EXCEPT !.reserved = rest, !.spent = spent]
    BY <1>2, <1>4 DEF Settle
<1>8. mem' \in [day : Days, spent : Nat, reserved : Nat] /\ mem'.reserved = rest /\ mem'.spent = spent /\ mem'.day = today
    BY <1>3, <1>5, <1>7
<1>9. disk' \in [Days -> Nat] /\ disk'[day] = disk[day] + actual /\ \A d \in Days \ {day} : disk'[d] = disk[d]
    BY <1>1, <1>5, <1>6
<1>10. spent = disk'[today]
    BY <1>1, <1>3, <1>4, <1>9
<1> QED
    BY <1>5, <1>8, <1>9, <1>10

LEMMA HoldsDrop ==
    ASSUME Types, NEW r \in Requests, NEW v \in Req, StepOf(r, v), NEW A \in SUBSET Requests, r \in A
    PROVE  /\ SumFunctionOnSet(Holds', A \ {r}) = SumFunctionOnSet(Holds, A) - req[r].hold
           /\ SumFunctionOnSet(Holds, A) \in Nat /\ req[r].hold \in Nat /\ req[r].hold <= SumFunctionOnSet(Holds, A)
<1>1. IsFiniteSet(A) /\ (\A q \in A : Holds[q] \in Nat) /\ Holds[r] = req[r].hold /\ req[r].hold \in Nat
    BY RequestAssumption, FS_Subset, Finite, ReqTypes DEF Holds
<1>2. SumFunctionOnSet(Holds, A) = Holds[r] + SumFunctionOnSet(Holds, A \ {r})
    BY <1>1, SumStep
<1>3. A \ {r} \in SUBSET (Requests \ {r})
    OBVIOUS
<1>4. SumFunctionOnSet(Holds', A \ {r}) = SumFunctionOnSet(Holds, A \ {r}) /\ SumFunctionOnSet(Holds, A \ {r}) \in Nat
    BY <1>3, HoldsAgree
<1> QED
    BY <1>1, <1>2, <1>4

\* What the sums of the holds do when r, which has one, sends, or its flight lets go of it.
LEMMA HeldSums ==
    ASSUME IInv, NEW r \in Requests, NEW v \in Req, StepOf(r, v), req[r].stage \in {"send", "receipt"}, v.stage # "send",
           v.stage = "receipt" => v.hold = req[r].hold
    PROVE  /\ req[r].hold \in Nat /\ req[r].hold <= mem.reserved /\ mem.reserved \in Nat
           /\ SumFunctionOnSet(Holds', OpenHolds') = (IF v.stage = "receipt" THEN mem.reserved ELSE mem.reserved - req[r].hold)
           /\ SumFunctionOnSet(Holds, Sending) \in Nat
           /\ SumFunctionOnSet(Holds', Sending') = SumFunctionOnSet(Holds, Sending) - (IF req[r].stage = "send" THEN req[r].hold ELSE 0)
           /\ \A d : /\ SumFunctionOnSet(Holds, {q \in Sending : req[q].day = d}) \in Nat
                     /\ SumFunctionOnSet(Holds', {q \in Sending' : req'[q].day = d})
                          = SumFunctionOnSet(Holds, {q \in Sending : req[q].day = d})
                              - (IF req[r].stage = "send" /\ d = req[r].day THEN req[r].hold ELSE 0)
<1>0. req'[r] = v /\ \A q \in Requests \ {r} : /\ req'[q].stage \in {"joined", "event", "receipt", "send"} => req'[q] = req[q]
                                               /\ req[q].stage \in {"event", "receipt", "send"} => req'[q] = req[q]
    BY WorkingStep DEF StepOf
<1>1. Types /\ mem.reserved = SumFunctionOnSet(Holds, OpenHolds)
    BY DEF IInv, MoneyInv
<1>2. r \in OpenHolds /\ OpenHolds \in SUBSET Requests /\ Sending \in SUBSET Requests
    BY DEF OpenHolds, Sending
<1>3. /\ SumFunctionOnSet(Holds', OpenHolds \ {r}) = mem.reserved - req[r].hold
      /\ req[r].hold \in Nat /\ req[r].hold <= mem.reserved /\ mem.reserved \in Nat
    BY <1>1, <1>2, HoldsDrop
<1>4. SumFunctionOnSet(Holds', OpenHolds') = (IF v.stage = "receipt" THEN mem.reserved ELSE mem.reserved - req[r].hold)
    <2>1. CASE v.stage = "receipt"
        <3>1. OpenHolds' = (OpenHolds \ {r}) \cup {r} /\ OpenHolds \ {r} \in SUBSET (Requests \ {r})
            BY <1>0, <1>2, <2>1 DEF OpenHolds
        <3>2. SumFunctionOnSet(Holds', (OpenHolds \ {r}) \cup {r}) = SumFunctionOnSet(Holds, OpenHolds \ {r}) + v.hold
            BY <1>1, <3>1, HoldsAdd
        <3>3. SumFunctionOnSet(Holds', OpenHolds \ {r}) = SumFunctionOnSet(Holds, OpenHolds \ {r})
            BY <1>1, <3>1, HoldsAgree
        <3> QED
            BY <1>3, <2>1, <3>1, <3>2, <3>3
    <2>2. CASE v.stage # "receipt"
        <3>1. OpenHolds' = OpenHolds \ {r}
            BY <1>0, <1>2, <2>2 DEF OpenHolds
        <3> QED
            BY <1>3, <2>2, <3>1
    <2> QED
        BY <2>1, <2>2
<1>5. ASSUME NEW B \in SUBSET Requests
      PROVE  /\ SumFunctionOnSet(Holds, B) \in Nat
             /\ SumFunctionOnSet(Holds', B \ {r}) = SumFunctionOnSet(Holds, B) - (IF r \in B THEN req[r].hold ELSE 0)
    <2>1. CASE r \in B
        BY <1>1, <2>1, HoldsDrop
    <2>2. CASE r \notin B
        <3>1. B \ {r} = B /\ B \in SUBSET (Requests \ {r})
            BY <2>2
        <3>2. SumFunctionOnSet(Holds', B) = SumFunctionOnSet(Holds, B) /\ SumFunctionOnSet(Holds, B) \in Nat
            BY <1>1, <3>1, HoldsAgree
        <3>3. SumFunctionOnSet(Holds', B \ {r}) = SumFunctionOnSet(Holds, B)
            BY <3>1, <3>2
        <3> QED
            BY <2>2, <3>2, <3>3
    <2> QED
        BY <2>1, <2>2
<1>6. Sending' = Sending \ {r} /\ (r \in Sending <=> req[r].stage = "send")
    BY <1>0 DEF Sending
<1>7. /\ SumFunctionOnSet(Holds, Sending) \in Nat
      /\ SumFunctionOnSet(Holds', Sending') = SumFunctionOnSet(Holds, Sending) - (IF req[r].stage = "send" THEN req[r].hold ELSE 0)
    BY <1>2, <1>5, <1>6
<1>8. ASSUME NEW d
      PROVE  /\ SumFunctionOnSet(Holds, {q \in Sending : req[q].day = d}) \in Nat
             /\ SumFunctionOnSet(Holds', {q \in Sending' : req'[q].day = d})
                  = SumFunctionOnSet(Holds, {q \in Sending : req[q].day = d})
                      - (IF req[r].stage = "send" /\ d = req[r].day THEN req[r].hold ELSE 0)
    <2>1. PICK B : B = {q \in Sending : req[q].day = d}
        OBVIOUS
    <2>2. {q \in Sending' : req'[q].day = d} = B \ {r}
        BY <1>0, <1>6, <2>1 DEF Sending
    <2>3. B \in SUBSET Requests /\ (r \in B <=> req[r].stage = "send" /\ d = req[r].day)
        BY <1>2, <1>6, <2>1
    <2>4. /\ SumFunctionOnSet(Holds, B) \in Nat
          /\ SumFunctionOnSet(Holds', B \ {r}) = SumFunctionOnSet(Holds, B) - (IF r \in B THEN req[r].hold ELSE 0)
        BY <1>5, <2>3
    <2> QED
        BY <2>1, <2>2, <2>3, <2>4
<1> QED
    BY <1>3, <1>4, <1>7, <1>8

\* The values of a transaction, one by one.
LEMMA TxValues ==
    ASSUME NEW t \in Tx
    PROVE  /\ Amounts[t] = t.amount /\ Opens[t] = Open(t) /\ Loads[t] = Load(t)
           /\ Amounts[t] \in Nat /\ Opens[t] \in Nat /\ Loads[t] \in Nat /\ t.hold \in Nat /\ t.amount \in Nat
<1>1. Amounts[t] = t.amount /\ Opens[t] = Open(t) /\ Loads[t] = Load(t) /\ t.hold \in Nat /\ t.amount \in Nat
    BY DEF Amounts, Opens, Loads, Tx
<1> QED
    BY <1>1 DEF Open, Load

LEMMA SendOkInv == ASSUME IInv, NEW r \in Requests, SendOk(r) PROVE IInv'
<1>1. /\ req[r].stage = "send" /\ UNCHANGED <<service, chain>> /\ relays' = relays /\ mem' = mem /\ UNCHANGED <<disk, today>> /\ UNCHANGED faults
      /\ "receipt" \in StageSet /\ "send" \in Stages /\ "open" \in Charges /\ "pending" \in Statuses
    BY DEF SendOk, StageSet, Stages, Charges, Statuses
<1>2. /\ Types /\ req[r] \in Req /\ req[r].op \in Ops /\ req[r].short \in Nat /\ req[r].day \in Days /\ req[r].hold \in Nat
      /\ Cardinality(txs) \in Nat
    BY <1>1, ReqFacts, ReqTypes, FS_CardinalityType DEF Types
<1>3. PICK n : n = Transaction(r, "open")
    OBVIOUS
<1>4. /\ n \in Tx /\ n.id = Cardinality(txs) + 1 /\ n.op = req[r].op /\ n.value = req[r].short /\ n.hold = req[r].hold /\ n.day = req[r].day
      /\ n.status = "pending" /\ ~n.known /\ n.amount = 0 /\ n.charge = "open"
    BY <1>1, <1>2, <1>3 DEF Transaction, Tx
<1>a. PICK k : k = Cardinality(txs) + 1
    OBVIOUS
<1>b. k \in Nat /\ n.id = k
    BY <1>2, <1>4, <1>a
<1>5. PICK v : v = [req[r] EXCEPT !.stage = "receipt", !.tx = k]
    OBVIOUS
<1>6. /\ v \in Req /\ v.stage = "receipt" /\ v.tx = n.id /\ v.op = req[r].op /\ v.short = req[r].short /\ v.hold = req[r].hold /\ v.day = req[r].day
      /\ v.answer = req[r].answer
    BY <1>1, <1>2, <1>b, <1>5 DEF Req
<1>7. req' = [req EXCEPT ![r] = v]
    <2>1. req' = [req EXCEPT ![r].stage = "receipt", ![r].tx = k]
        BY <1>a DEF SendOk
    <2> QED
        BY <1>2, <1>5, <2>1 DEF Types
<1>8. StepOf(r, v) /\ txs' = txs \cup {n} /\ SentAs(r, v, n)
    BY <1>2, <1>3, <1>4, <1>6, <1>7, OnlyIs DEF SendOk, SentAs
<1>9. FlightInv' /\ GiftInv'
    BY <1>1, <1>6, <1>8, SendStep
<1>10. Types'
    BY <1>1, <1>2, <1>4, <1>8, TxsAdd, FaultIs DEF Types, StepOf
<1>11. Amounts[n] = 0 /\ Opens[n] = req[r].hold /\ Loads[n] = req[r].hold
    BY <1>4, TxValues DEF Open, Load
<1>12. /\ SumFunctionOnSet(Opens, txs') = SumFunctionOnSet(Opens, txs) + req[r].hold /\ SumFunctionOnSet(Opens, txs) \in Nat
       /\ \A d : SumFunctionOnSet(Amounts, Admitted(d)') = SumFunctionOnSet(Amounts, Admitted(d))
       /\ \A d : /\ SumFunctionOnSet(Loads, Admitted(d)') = SumFunctionOnSet(Loads, Admitted(d)) + (IF d = req[r].day THEN req[r].hold ELSE 0)
                 /\ SumFunctionOnSet(Loads, Admitted(d)) \in Nat
    <2>1. /\ SumFunctionOnSet(Opens, txs') = SumFunctionOnSet(Opens, txs) + Opens[n] /\ SumFunctionOnSet(Opens, txs) \in Nat
        BY <1>4, <1>8, TxValues, AddSum
    <2>2. /\ SumFunctionOnSet(Amounts, Admitted(n.day)') = SumFunctionOnSet(Amounts, Admitted(n.day)) + Amounts[n]
          /\ \A d : d # n.day => SumFunctionOnSet(Amounts, Admitted(d)') = SumFunctionOnSet(Amounts, Admitted(d))
          /\ \A d : SumFunctionOnSet(Amounts, Admitted(d)) \in Nat
        BY <1>4, <1>8, TxValues, AddSum
    <2>3. /\ SumFunctionOnSet(Loads, Admitted(n.day)') = SumFunctionOnSet(Loads, Admitted(n.day)) + Loads[n]
          /\ \A d : d # n.day => SumFunctionOnSet(Loads, Admitted(d)') = SumFunctionOnSet(Loads, Admitted(d))
          /\ \A d : SumFunctionOnSet(Loads, Admitted(d)) \in Nat
        BY <1>4, <1>8, TxValues, AddSum
    <2> QED
        BY <1>4, <1>11, <2>1, <2>2, <2>3
<1>13. MoneyInv'
    <2>1. /\ mem.reserved \in Nat /\ SumFunctionOnSet(Holds', OpenHolds') = mem.reserved /\ SumFunctionOnSet(Holds, Sending) \in Nat
          /\ SumFunctionOnSet(Holds', Sending') = SumFunctionOnSet(Holds, Sending) - req[r].hold
          /\ \A d : /\ SumFunctionOnSet(Holds, {q \in Sending : req[q].day = d}) \in Nat
                    /\ SumFunctionOnSet(Holds', {q \in Sending' : req'[q].day = d})
                          = SumFunctionOnSet(Holds, {q \in Sending : req[q].day = d}) - (IF d = req[r].day THEN req[r].hold ELSE 0)
        <3>1. v.stage # "send" /\ (v.stage = "receipt" => v.hold = req[r].hold) /\ req[r].stage \in {"send", "receipt"}
            BY <1>1, <1>6
        <3> QED
            BY <1>1, <1>6, <1>8, <3>1, HeldSums, ZenonT(30)
    <2>2. mem.reserved = SumFunctionOnSet(Holds, Sending) + SumFunctionOnSet(Opens, txs) /\ mem.spent = disk[mem.day]
        BY DEF IInv, MoneyInv
    <2>3. mem.reserved = SumFunctionOnSet(Holds', Sending') + SumFunctionOnSet(Opens, txs')
        BY <1>2, <1>12, <2>1, <2>2
    <2>4. ASSUME NEW d \in Days
          PROVE  /\ SumFunctionOnSet(Loads, Admitted(d)') + SumFunctionOnSet(Holds', {q \in Sending' : req'[q].day = d}) <= DailyLimit
                 /\ disk[d] = SumFunctionOnSet(Amounts, Admitted(d)')
        <3>1. /\ SumFunctionOnSet(Loads, Admitted(d)) + SumFunctionOnSet(Holds, {q \in Sending : req[q].day = d}) <= DailyLimit
              /\ disk[d] = SumFunctionOnSet(Amounts, Admitted(d))
            BY DEF IInv, MoneyInv
        <3>2. PICK a, b, c : a = SumFunctionOnSet(Loads, Admitted(d)) /\ b = SumFunctionOnSet(Holds, {q \in Sending : req[q].day = d})
                             /\ c = (IF d = req[r].day THEN req[r].hold ELSE 0)
            OBVIOUS
        <3>3. a \in Nat /\ b \in Nat /\ c \in Nat /\ a + b <= DailyLimit
            BY <1>2, <1>12, <2>1, <3>1, <3>2
        <3>4. SumFunctionOnSet(Loads, Admitted(d)') = a + c /\ SumFunctionOnSet(Holds', {q \in Sending' : req'[q].day = d}) = b - c
            BY <1>12, <2>1, <3>2
        <3>5. (a + c) + (b - c) <= DailyLimit
            BY <3>3, Bounds
        <3> QED
            BY <1>12, <3>1, <3>4, <3>5
    <2> QED
        BY <1>1, <2>1, <2>2, <2>3, <2>4 DEF MoneyInv, Amounts, Opens, Loads
<1> QED
    BY <1>9, <1>10, <1>13 DEF IInv

\* The flight of r lets go of its hold: the books stay exact when the transactions do.
LEMMA MoneyLetsGo ==
    ASSUME IInv, NEW r \in Requests, NEW v \in Req, StepOf(r, v), req[r].stage \in {"send", "receipt"}, v.stage \notin {"send", "receipt"},
           mem'.reserved = mem.reserved - req[r].hold, mem'.spent = disk'[mem'.day],
           SumFunctionOnSet(Opens, txs) \in Nat,
           SumFunctionOnSet(Opens, txs') = SumFunctionOnSet(Opens, txs) - (IF req[r].stage = "receipt" THEN req[r].hold ELSE 0),
           \A d \in Days : disk'[d] = SumFunctionOnSet(Amounts, Admitted(d)'),
           \A d \in Days : /\ SumFunctionOnSet(Loads, Admitted(d)) \in Nat /\ SumFunctionOnSet(Loads, Admitted(d)') \in Nat
                           /\ SumFunctionOnSet(Loads, Admitted(d)') <= SumFunctionOnSet(Loads, Admitted(d))
    PROVE  MoneyInv'
<1>1. /\ req[r].hold \in Nat /\ mem.reserved \in Nat /\ SumFunctionOnSet(Holds', OpenHolds') = mem.reserved - req[r].hold
      /\ SumFunctionOnSet(Holds, Sending) \in Nat
      /\ SumFunctionOnSet(Holds', Sending') = SumFunctionOnSet(Holds, Sending) - (IF req[r].stage = "send" THEN req[r].hold ELSE 0)
      /\ \A d : /\ SumFunctionOnSet(Holds, {q \in Sending : req[q].day = d}) \in Nat
                /\ SumFunctionOnSet(Holds', {q \in Sending' : req'[q].day = d})
                     = SumFunctionOnSet(Holds, {q \in Sending : req[q].day = d})
                         - (IF req[r].stage = "send" /\ d = req[r].day THEN req[r].hold ELSE 0)
    BY HeldSums
<1>2. mem.reserved = SumFunctionOnSet(Holds, Sending) + SumFunctionOnSet(Opens, txs)
    BY DEF IInv, MoneyInv
<1>3. mem'.reserved = SumFunctionOnSet(Holds', Sending') + SumFunctionOnSet(Opens, txs')
    BY <1>1, <1>2
<1>4. ASSUME NEW d \in Days
      PROVE  SumFunctionOnSet(Loads, Admitted(d)') + SumFunctionOnSet(Holds', {q \in Sending' : req'[q].day = d}) <= DailyLimit
    <2>1. PICK a, b, c : /\ a = SumFunctionOnSet(Loads, Admitted(d)) /\ b = SumFunctionOnSet(Holds, {q \in Sending : req[q].day = d})
                         /\ c = (IF req[r].stage = "send" /\ d = req[r].day THEN req[r].hold ELSE 0)
        OBVIOUS
    <2>2. a \in Nat /\ b \in Nat /\ c \in Nat
        BY <1>1, <2>1
    <2>3. a + b <= DailyLimit
        BY <2>1 DEF IInv, MoneyInv
    <2>4. PICK x : x = SumFunctionOnSet(Loads, Admitted(d)')
        OBVIOUS
    <2>5. x \in Nat /\ x <= a
        BY <2>1, <2>4
    <2>6. SumFunctionOnSet(Holds', {q \in Sending' : req'[q].day = d}) = b - c
        BY <1>1, <2>1
    <2>7. x + (b - c) <= DailyLimit
        BY <2>2, <2>3, <2>5, Bounds
    <2> QED
        BY <2>4, <2>6, <2>7
<1> QED
    BY <1>1, <1>3, <1>4 DEF MoneyInv, Amounts, Opens, Loads

LEMMA SendFailsInv == ASSUME IInv, NEW r \in Requests, SendFails(r) PROVE IInv'
<1>1. /\ req[r].stage = "send" /\ Answer(r, "failed") /\ Settle(req[r].hold, req[r].day, 0) /\ Fault
      /\ UNCHANGED <<service, chain>> /\ relays' = relays /\ today' = today /\ txs' \in {txs, txs \cup {Transaction(r, "zero")}}
      /\ "failed" \in Answers /\ "send" \in Stages /\ "zero" \in Charges /\ "pending" \in Statuses
    BY DEF SendFails, Stages, Charges, Statuses, Answers
<1>2. /\ Types /\ ReqOK(req[r]) /\ req[r] \in Req /\ req[r].op \in Ops /\ req[r].short \in Nat /\ req[r].day \in Days /\ req[r].hold \in Nat
      /\ Cardinality(txs) \in Nat
    BY <1>1, ReqFacts, ReqTypes, FS_CardinalityType DEF Types
<1>3. PICK v \in Req : StepOf(r, v) /\ Moved(r, v) /\ v.stage = "done" /\ v.answer = "failed" /\ Ends(r)
    <2>1. req[r].stage # "joined"
        BY <1>1
    <2> QED
        BY <1>1, <1>2, <2>1, AnswerIs
<1>4. PICK n : n = Transaction(r, "zero")
    OBVIOUS
<1>5. /\ n \in Tx /\ n.id = Cardinality(txs) + 1 /\ n.op = req[r].op /\ n.value = req[r].short /\ n.hold = req[r].hold /\ n.day = req[r].day
      /\ n.status = "pending" /\ ~n.known /\ n.amount = 0 /\ n.charge = "zero"
    BY <1>1, <1>2, <1>4 DEF Transaction, Tx
<1>6. req[r].hold <= mem.reserved
    <2>1. v.stage # "send" /\ (v.stage = "receipt" => v.hold = req[r].hold) /\ req[r].stage \in {"send", "receipt"}
        BY <1>1, <1>3
    <2> QED
        BY <1>3, <2>1, HeldSums
<1>7. /\ mem' \in [day : Days, spent : Nat, reserved : Nat] /\ mem'.reserved = mem.reserved - req[r].hold /\ mem'.spent = disk'[mem'.day]
      /\ disk' \in [Days -> Nat] /\ \A d \in Days : disk'[d] = disk[d]
    <2>1. /\ mem' \in [day : Days, spent : Nat, reserved : Nat] /\ mem'.reserved = mem.reserved - req[r].hold /\ mem'.spent = disk'[mem'.day]
          /\ disk' \in [Days -> Nat] /\ disk'[req[r].day] = disk[req[r].day] + 0 /\ \A d \in Days \ {req[r].day} : disk'[d] = disk[d]
        BY <1>1, <1>2, <1>6, SettleIs
    <2>2. disk[req[r].day] \in Nat
        BY <1>2 DEF Types
    <2> QED
        BY <2>1, <2>2
<1>8. /\ FlightInv' /\ GiftInv' /\ txs' \subseteq Tx /\ IsFiniteSet(txs')
      /\ SumFunctionOnSet(Opens, txs) \in Nat /\ SumFunctionOnSet(Opens, txs') = SumFunctionOnSet(Opens, txs)
      /\ \A d : SumFunctionOnSet(Amounts, Admitted(d)') = SumFunctionOnSet(Amounts, Admitted(d))
      /\ \A d : SumFunctionOnSet(Loads, Admitted(d)) \in Nat /\ SumFunctionOnSet(Loads, Admitted(d)') = SumFunctionOnSet(Loads, Admitted(d))
    <2>1. CASE txs' = txs
        <3>1. ReqOK(v) /\ GiftOK(v) /\ FlightGoes(r, v)
            BY <1>2, <1>3, Standing DEF ReqOK, Moved, FlightGoes, Stages
        <3>2. FlightInv' /\ GiftInv'
            <4>1. req[r].stage # "receipt" /\ v.stage \notin {"receipt", "event"} /\ UNCHANGED <<txs, relays>>
                BY <1>1, <1>3, <2>1
            <4> QED
                BY <1>1, <1>3, <3>1, <4>1, QuietStep
        <3>3. \A d : Admitted(d)' = Admitted(d)
            BY <2>1 DEF Admitted
        <3>4. ASSUME NEW d PROVE SumFunctionOnSet(Loads, Admitted(d)) \in Nat
            <4>1. IsFiniteSet(Admitted(d)) /\ \A x \in Admitted(d) : Loads[x] \in Nat
                BY <1>2, Finite
            <4> QED
                BY <4>1, SumType
        <3>5. SumFunctionOnSet(Opens, txs) \in Nat
            <4>1. IsFiniteSet(txs) /\ \A x \in txs : Opens[x] \in Nat
                BY <1>2, Finite
            <4> QED
                BY <4>1, SumType
        <3> QED
            BY <1>2, <2>1, <3>2, <3>3, <3>4, <3>5 DEF Types
    <2>2. CASE txs' = txs \cup {n}
        <3>1. SentAs(r, v, n)
            BY <1>3, <1>5 DEF SentAs, Moved
        <3>2. FlightInv' /\ GiftInv'
            BY <1>1, <1>3, <2>2, <3>1, SendStep
        <3>3. Amounts[n] = 0 /\ Opens[n] = 0 /\ Loads[n] = 0
            BY <1>5, TxValues DEF Open, Load
        <3>4. SumFunctionOnSet(Opens, txs') = SumFunctionOnSet(Opens, txs) + Opens[n] /\ SumFunctionOnSet(Opens, txs) \in Nat
            BY <1>5, <2>2, TxValues, AddSum
        <3>5. /\ SumFunctionOnSet(Amounts, Admitted(n.day)') = SumFunctionOnSet(Amounts, Admitted(n.day)) + Amounts[n]
              /\ \A d : d # n.day => SumFunctionOnSet(Amounts, Admitted(d)') = SumFunctionOnSet(Amounts, Admitted(d))
              /\ \A d : SumFunctionOnSet(Amounts, Admitted(d)) \in Nat
            BY <1>5, <2>2, TxValues, AddSum
        <3>6. /\ SumFunctionOnSet(Loads, Admitted(n.day)') = SumFunctionOnSet(Loads, Admitted(n.day)) + Loads[n]
              /\ \A d : d # n.day => SumFunctionOnSet(Loads, Admitted(d)') = SumFunctionOnSet(Loads, Admitted(d))
              /\ \A d : SumFunctionOnSet(Loads, Admitted(d)) \in Nat
            BY <1>5, <2>2, TxValues, AddSum
        <3>7. txs' \subseteq Tx /\ IsFiniteSet(txs')
            BY <1>5, <2>2, TxsAdd
        <3> QED
            BY <3>2, <3>3, <3>4, <3>5, <3>6, <3>7
    <2> QED
        BY <1>1, <1>4, <2>1, <2>2
<1>9. MoneyInv'
    <2>1. \A d \in Days : disk'[d] = SumFunctionOnSet(Amounts, Admitted(d)')
        BY <1>7, <1>8 DEF IInv, MoneyInv
    <2>2. \A d \in Days : /\ SumFunctionOnSet(Loads, Admitted(d)) \in Nat /\ SumFunctionOnSet(Loads, Admitted(d)') \in Nat
                          /\ SumFunctionOnSet(Loads, Admitted(d)') <= SumFunctionOnSet(Loads, Admitted(d))
        BY <1>8
    <2>3. SumFunctionOnSet(Opens, txs') = SumFunctionOnSet(Opens, txs) - (IF req[r].stage = "receipt" THEN req[r].hold ELSE 0)
        BY <1>1, <1>8
    <2>4. req[r].stage \in {"send", "receipt"} /\ v.stage \notin {"send", "receipt"}
        BY <1>1, <1>3
    <2> QED
        BY <1>3, <1>7, <1>8, <2>1, <2>2, <2>3, <2>4, MoneyLetsGo
<1>10. Types'
    BY <1>1, <1>2, <1>3, <1>7, <1>8, FaultIs DEF Types, StepOf
<1> QED
    BY <1>8, <1>9, <1>10 DEF IInv

\* The transaction r waits for is charged: the shape of Receipt and ReceiptTimeout.
LEMMA SettlesInv ==
    ASSUME IInv, NEW r \in Requests, req[r].stage = "receipt", NEW v \in Req, StepOf(r, v), Moved(r, v), NEW t \in txs, Tracks(req[r], t),
           NEW u, SettledAs(r, v, t, u), txs' = (txs \ {t}) \cup {u}, Settle(t.hold, t.day, u.amount),
           UNCHANGED <<service, chain>>, relays' = relays, today' = today, Fault \/ UNCHANGED faults
    PROVE  IInv'
<1>1. FlightInv' /\ GiftInv'
    BY SettleStep
<1>2. /\ Becomes(t, u) /\ u \in Tx /\ u.id = t.id /\ u.hold = t.hold /\ u.day = t.day /\ u.charge = "settled" /\ t \in Tx /\ TxOK(t) /\ t.day \in Days
      /\ v.stage \notin {"send", "receipt"}
    BY TxFacts DEF SettledAs, Becomes
<1>3. /\ Types /\ t.hold = req[r].hold /\ t.charge = "open" /\ t.amount = 0
    BY <1>2 DEF IInv, Tracks, TxOK
<1>4. req[r].hold \in Nat /\ req[r].hold <= mem.reserved
    <2>1. v.stage # "send" /\ (v.stage = "receipt" => v.hold = req[r].hold) /\ req[r].stage \in {"send", "receipt"}
        BY <1>2
    <2> QED
        BY <2>1, HeldSums
<1>5. /\ Amounts[t] = 0 /\ Opens[t] = req[r].hold /\ Loads[t] = req[r].hold
      /\ Amounts[u] = u.amount /\ Opens[u] = 0 /\ Loads[u] \in Nat /\ Loads[u] <= req[r].hold /\ u.amount \in Nat
    BY <1>2, <1>3, <1>4, TxValues DEF Open, Load
<1>6. /\ mem' \in [day : Days, spent : Nat, reserved : Nat] /\ mem'.reserved = mem.reserved - req[r].hold /\ mem'.spent = disk'[mem'.day]
      /\ disk' \in [Days -> Nat] /\ disk'[t.day] = disk[t.day] + u.amount /\ \A d \in Days \ {t.day} : disk'[d] = disk[d]
    <2>1. Settle(req[r].hold, t.day, u.amount)
        BY <1>3
    <2> QED
        BY <1>2, <1>4, <1>5, <2>1, SettleIs
<1>7. SumFunctionOnSet(Opens, txs') = SumFunctionOnSet(Opens, txs) - Opens[t] + Opens[u] /\ SumFunctionOnSet(Opens, txs) \in Nat
    BY <1>2, TxValues, SwapSum
<1>8. /\ SumFunctionOnSet(Amounts, Admitted(t.day)') = SumFunctionOnSet(Amounts, Admitted(t.day)) - Amounts[t] + Amounts[u]
      /\ \A d : d # t.day => SumFunctionOnSet(Amounts, Admitted(d)') = SumFunctionOnSet(Amounts, Admitted(d))
      /\ \A d : SumFunctionOnSet(Amounts, Admitted(d)) \in Nat
    BY <1>2, TxValues, SwapSum
<1>9. /\ SumFunctionOnSet(Loads, Admitted(t.day)') = SumFunctionOnSet(Loads, Admitted(t.day)) - Loads[t] + Loads[u]
      /\ \A d : d # t.day => SumFunctionOnSet(Loads, Admitted(d)') = SumFunctionOnSet(Loads, Admitted(d))
      /\ \A d : SumFunctionOnSet(Loads, Admitted(d)) \in Nat
    BY <1>2, TxValues, SwapSum
<1>10. Loads[t] <= SumFunctionOnSet(Loads, Admitted(t.day))
    <2>1. PICK D : D = Admitted(t.day)
        OBVIOUS
    <2>2. D \in SUBSET Tx /\ IsFiniteSet(D) /\ t \in D /\ t \notin D \ {t}
        BY <1>3, <2>1, Finite DEF Admitted
    <2>3. Loads[t] <= SumFunctionOnSet(Loads, D)
        BY <1>2, <2>2, TxValues, SwapOn
    <2> QED
        BY <2>1, <2>3
<1>11. MoneyInv'
    <2>1. ASSUME NEW d \in Days PROVE disk'[d] = SumFunctionOnSet(Amounts, Admitted(d)')
        <3>1. disk[d] = SumFunctionOnSet(Amounts, Admitted(d))
            BY DEF IInv, MoneyInv
        <3>2. CASE d = t.day
            <4>1. SumFunctionOnSet(Amounts, Admitted(t.day)') = disk[t.day] + u.amount
                BY <1>5, <1>8, <3>1, <3>2
            <4> QED
                BY <1>6, <3>2, <4>1
        <3>3. CASE d # t.day
            BY <1>6, <1>8, <3>1, <3>3
        <3> QED
            BY <3>2, <3>3
    <2>2. ASSUME NEW d \in Days
          PROVE  /\ SumFunctionOnSet(Loads, Admitted(d)) \in Nat /\ SumFunctionOnSet(Loads, Admitted(d)') \in Nat
                 /\ SumFunctionOnSet(Loads, Admitted(d)') <= SumFunctionOnSet(Loads, Admitted(d))
        <3>1. CASE d = t.day
            <4>1. PICK x, y : x = SumFunctionOnSet(Loads, Admitted(t.day)) /\ y = SumFunctionOnSet(Loads, Admitted(t.day)')
                OBVIOUS
            <4>2. x \in Nat /\ Loads[t] <= x /\ y = x - Loads[t] + Loads[u]
                BY <1>9, <1>10, <4>1
            <4>3. y \in Nat /\ y <= x
                BY <1>4, <1>5, <4>2
            <4> QED
                BY <3>1, <4>1, <4>2, <4>3
        <3>2. CASE d # t.day
            BY <1>9, <3>2
        <3> QED
            BY <3>1, <3>2
    <2>3. SumFunctionOnSet(Opens, txs') = SumFunctionOnSet(Opens, txs) - (IF req[r].stage = "receipt" THEN req[r].hold ELSE 0)
        BY <1>4, <1>5, <1>7
    <2>4. req[r].stage \in {"send", "receipt"}
        OBVIOUS
    <2> QED
        BY <1>2, <1>6, <1>7, <2>1, <2>2, <2>3, <2>4, MoneyLetsGo
<1>12. Types'
    BY <1>2, <1>3, <1>6, TxsSwap, FaultIs DEF Types, StepOf
<1> QED
    BY <1>1, <1>11, <1>12 DEF IInv

LEMMA TxOfIs ==
    ASSUME IInv, NEW r \in Requests, req[r].stage = "receipt"
    PROVE  TxOf(r) \in txs /\ Tracks(req[r], TxOf(r))
<1>1. PICK t \in txs : Tracks(req[r], t) /\ \A u \in txs : u.id = req[r].tx => u = t
    BY TrackedTx
<1>2. TxOf(r) \in txs /\ TxOf(r).id = req[r].tx
    BY <1>1 DEF TxOf, Tracks
<1> QED
    BY <1>1, <1>2

\* The record of a transaction with its charge.
LEMMA ChargedIs ==
    ASSUME IInv, NEW t \in txs, NEW amount \in Nat, NEW known \in BOOLEAN, txs' = Charged(t, amount, known)
    PROVE  \E u : /\ txs' = (txs \ {t}) \cup {u} /\ Becomes(t, u) /\ u.status = t.status /\ u.cost = t.cost /\ u.charge = "settled"
                  /\ u.amount = amount /\ u.known = known
<1>1. PICK u : u = [t EXCEPT !.charge = "settled", !.amount = amount, !.known = known]
    OBVIOUS
<1>2. txs' = (txs \ {t}) \cup {u}
    BY <1>1 DEF Charged
<1>3. t \in Tx /\ "settled" \in Charges
    BY TxFacts DEF Charges
<1>4. Becomes(t, u) /\ u.status = t.status /\ u.cost = t.cost /\ u.charge = "settled" /\ u.amount = amount /\ u.known = known
    BY <1>1, <1>3 DEF Tx, Becomes
<1> QED
    BY <1>2, <1>4

LEMMA ReceiptTimeoutInv == ASSUME IInv, NEW r \in Requests, ReceiptTimeout(r) PROVE IInv'
<1>1. PICK t : t = TxOf(r)
    OBVIOUS
<1>2. /\ req[r].stage = "receipt" /\ Answer(r, "failed") /\ Settle(t.hold, t.day, t.hold) /\ Fault /\ txs' = Charged(t, t.hold, FALSE)
      /\ UNCHANGED <<service, chain>> /\ relays' = relays /\ today' = today /\ "failed" \in Answers
    BY <1>1 DEF ReceiptTimeout, Answers
<1>3. t \in txs /\ Tracks(req[r], t)
    BY <1>1, <1>2, TxOfIs
<1>4. PICK u : /\ txs' = (txs \ {t}) \cup {u} /\ Becomes(t, u) /\ u.status = t.status /\ u.cost = t.cost /\ u.charge = "settled"
               /\ u.amount = t.hold /\ u.known = FALSE
    <2>1. PICK amount \in Nat, known \in BOOLEAN : amount = t.hold /\ known = FALSE
        BY <1>3, TxFacts
    <2>2. txs' = Charged(t, amount, known)
        BY <1>2, <2>1
    <2> QED
        BY <1>3, <2>1, <2>2, ChargedIs
<1>5. PICK v \in Req : StepOf(r, v) /\ Moved(r, v) /\ v.stage = "done" /\ v.answer = "failed" /\ Ends(r)
    <2>1. req[r].stage # "joined"
        BY <1>2
    <2> QED
        BY <1>2, <2>1, AnswerIs DEF IInv
<1>6. SettledAs(r, v, t, u)
    BY <1>4, <1>5 DEF SettledAs
<1>7. Settle(t.hold, t.day, u.amount)
    BY <1>2, <1>4
<1> QED
    BY <1>2, <1>3, <1>4, <1>5, <1>6, <1>7, SettlesInv

LEMMA ReceiptInv == ASSUME IInv, NEW r \in Requests, Receipt(r) PROVE IInv'
<1>1. PICK t : t = TxOf(r)
    OBVIOUS
<1>2. /\ req[r].stage = "receipt" /\ Settle(t.hold, t.day, t.cost) /\ txs' = Charged(t, t.cost, TRUE) /\ t.status # "pending"
      /\ UNCHANGED <<service, chain>> /\ relays' = relays /\ today' = today /\ UNCHANGED faults
      /\ {"failed", "success"} \subseteq Answers /\ "simulate" \in StageSet
    BY <1>1 DEF Receipt, Answers, StageSet, Stages
<1>3. t \in txs /\ Tracks(req[r], t)
    BY <1>1, <1>2, TxOfIs
<1>4. PICK u : /\ txs' = (txs \ {t}) \cup {u} /\ Becomes(t, u) /\ u.status = t.status /\ u.cost = t.cost /\ u.charge = "settled"
               /\ u.amount = t.cost /\ u.known = TRUE
    <2>1. PICK amount \in Nat, known \in BOOLEAN : amount = t.cost /\ known = TRUE
        BY <1>3, TxFacts
    <2>2. txs' = Charged(t, amount, known)
        BY <1>2, <2>1
    <2> QED
        BY <1>3, <2>1, <2>2, ChargedIs
<1>5. Types /\ req[r].stage # "joined" /\ TxOK(t) /\ t.op = req[r].op /\ t.status \in Statuses /\ Paying
    BY <1>2, <1>3, TxFacts DEF IInv, Tracks
<1>6. \E v \in Req : /\ StepOf(r, v) /\ Moved(r, v)
                     /\ \/ v.stage = "done" /\ Ends(r) /\ (v.answer = "success" => Told(v.op))
                        \/ v.stage = "simulate" /\ service = "sponsored" /\ v.answer = req[r].answer
    <2>1. CASE t.status = "reverted"
        <3>1. Answer(r, "failed")
            BY <1>1, <2>1, Zenon DEF Receipt
        <3> QED
            BY <1>2, <1>5, <3>1, AnswerIs
    <2>2. CASE t.status = "mined" /\ service = "bootstrap"
        <3>1. Answer(r, "success")
            <4>1. t.status # "reverted"
                BY <2>2
            <4> QED
                BY <1>1, <2>2, <4>1, Zenon DEF Receipt
        <3>2. Told(req[r].op)
            BY <1>5, <2>2 DEF Told, TxOK
        <3>3. PICK v \in Req : StepOf(r, v) /\ Moved(r, v) /\ v.stage = "done" /\ v.answer = "success" /\ Ends(r)
            BY <1>2, <1>5, <3>1, <3>2, AnswerIs
        <3>4. Told(v.op)
            BY <3>2, <3>3 DEF Moved
        <3> QED
            BY <3>3, <3>4
    <2>3. CASE t.status # "reverted" /\ ~(t.status = "mined" /\ service = "bootstrap")
        <3>1. Goto(r, "simulate")
            BY <1>1, <2>3, Zenon DEF Receipt
        <3>2. service = "sponsored"
            BY <1>2, <1>5, <2>3 DEF Statuses, Paying
        <3> QED
            BY <1>2, <1>5, <3>1, <3>2, GotoIs
    <2> QED
        BY <2>1, <2>2, <2>3
<1>7. PICK v \in Req : /\ StepOf(r, v) /\ Moved(r, v)
                       /\ \/ v.stage = "done" /\ Ends(r) /\ (v.answer = "success" => Told(v.op))
                          \/ v.stage = "simulate" /\ service = "sponsored" /\ v.answer = req[r].answer
    BY <1>6
<1>8. SettledAs(r, v, t, u)
    BY <1>2, <1>4, <1>7 DEF SettledAs
<1>9. Settle(t.hold, t.day, u.amount)
    BY <1>2, <1>4
<1> QED
    BY <1>2, <1>3, <1>4, <1>7, <1>8, <1>9, SettlesInv

-----------------------------------------------------------------------------
(* The relayer's transactions.                                             *)

LEMMA RelayFacts ==
    ASSUME IInv, NEW h \in relays
    PROVE  /\ h \in Relay /\ h.id \in Nat /\ h.id <= Cardinality(relays) /\ Cardinality(relays) \in Nat /\ RelayOK(h) /\ service # "bootstrap"
           /\ h.op \in Ops /\ h.op.account \in Accounts /\ h.op.nonce \in Nat /\ h.op.grant \in Grants /\ h.known \in BOOLEAN
           /\ \A k \in relays : h.id = k.id => h = k
<1>1. h \in Relay /\ IsFiniteSet(relays) /\ RelayOK(h) /\ \A k \in relays : h.id = k.id => h = k
    BY DEF IInv, Types, FlightInv
<1>2. Cardinality(relays) \in Nat
    BY <1>1, FS_CardinalityType
<1>3. h.id \in Nat /\ h.op \in Ops /\ h.known \in BOOLEAN
    BY <1>1 DEF Relay
<1>4. h.op.account \in Accounts /\ h.op.nonce \in Nat /\ h.op.grant \in Grants
    BY <1>3, RequestAssumption DEF Accounts, Grants
<1> QED
    BY <1>1, <1>2, <1>3, <1>4 DEF RelayOK

LEMMA RelaysAdd ==
    ASSUME IInv, NEW k \in Relay, k.id = Cardinality(relays) + 1, relays' = relays \cup {k}
    PROVE  /\ relays' \subseteq Relay /\ IsFiniteSet(relays') /\ Cardinality(relays') = Cardinality(relays) + 1 /\ Cardinality(relays) \in Nat
           /\ (\A h, g \in relays' : h.id = g.id => h = g) /\ \A h \in relays : h.id # k.id
<1>1. relays \subseteq Relay /\ IsFiniteSet(relays) /\ Cardinality(relays) \in Nat
    BY FS_CardinalityType DEF IInv, Types
<1>2. \A h \in relays : h.id # k.id
    BY <1>1, RelayFacts
<1>3. k \notin relays
    BY <1>2
<1>4. IsFiniteSet(relays') /\ Cardinality(relays') = Cardinality(relays) + 1
    BY <1>1, <1>3, FS_AddElement
<1>5. \A h, g \in relays : h.id = g.id => h = g
    BY DEF IInv, FlightInv
<1> QED
    BY <1>1, <1>2, <1>3, <1>4, <1>5

LEMMA RelaysSwap ==
    ASSUME IInv, NEW h \in relays, NEW k \in Relay, k.id = h.id, relays' = (relays \ {h}) \cup {k}
    PROVE  /\ relays' \subseteq Relay /\ IsFiniteSet(relays') /\ Cardinality(relays') = Cardinality(relays)
           /\ \A x, y \in relays' : x.id = y.id => x = y
<1>1. relays \subseteq Relay /\ IsFiniteSet(relays) /\ Cardinality(relays) \in Nat
    BY FS_CardinalityType DEF IInv, Types
<1>2. \A x, y \in relays : x.id = y.id => x = y
    BY DEF IInv, FlightInv
<1>3. k \notin relays \ {h}
    BY <1>2
<1>4. IsFiniteSet(relays \ {h}) /\ Cardinality(relays \ {h}) = Cardinality(relays) - 1
    BY <1>1, FS_RemoveElement
<1>5. IsFiniteSet(relays') /\ Cardinality(relays') = Cardinality(relays \ {h}) + 1
    BY <1>3, <1>4, FS_AddElement
<1>6. Cardinality(relays') = Cardinality(relays)
    BY <1>1, <1>4, <1>5
<1> QED
    BY <1>1, <1>2, <1>5, <1>6

\* A request that relays, or hears of its handleOps.
LEMMA RelaysStep ==
    ASSUME IInv, NEW r \in Requests, NEW v \in Req, StepOf(r, v), req[r].stage \in {"relay", "event"}, v.stage \in {"done", "event"},
           ReqOK(v)', FlightGoes(r, v), UNCHANGED <<service, chain>>, txs' = txs, mem' = mem, UNCHANGED <<disk, today>>, Fault \/ UNCHANGED faults,
           relays' \subseteq Relay, IsFiniteSet(relays'), \A h \in relays' : RelayOK(h)', \A h, k \in relays' : h.id = k.id => h = k,
           \A h \in relays : \E k \in relays' : k.id = h.id /\ k.op = h.op /\ (k.known => h.known \/ Tracked(h)),
           v.stage = "event" => \A h \in relays : h.id # v.tx
    PROVE  IInv'
<1>0. /\ \A q \in Requests \ {r} : /\ req'[q].stage \in {"joined", "event", "receipt", "send"} => req'[q] = req[q]
                                   /\ req[q].stage \in {"event", "receipt", "send"} => req'[q] = req[q]
      /\ req'[r] = v
    BY WorkingStep DEF StepOf
<1>1. (\A q \in Requests : ReqOK(req[q])') /\ Alone' /\ Joined'
    <2>1. \A q \in Requests \ {r} : req[q].stage = "receipt" => \E t \in txs' : Tracks(req[q], t)
        BY DEF IInv, FlightInv, ReqOK
    <2>2. \A h \in relays : \E k \in relays' : k.id = h.id /\ k.op = h.op
        OBVIOUS
    <2> QED
        BY <2>1, <2>2, FlightStep
<1>2. \A t \in txs' : TxOK(t)'
    <2> SUFFICES ASSUME NEW t \in txs PROVE TxOK(t)'
        OBVIOUS
    <2>1. TxOK(t)
        BY DEF IInv, FlightInv
    <2>2. t.charge = "open" => \E q \in Requests : req'[q].stage = "receipt" /\ req'[q].tx = t.id
        BY <1>0, <2>1 DEF TxOK
    <2> QED
        BY <2>1, <2>2 DEF TxOK, Paying
<1>3. FlightInv'
    <2>1. \A t, u \in txs' : t.id = u.id => t = u
        BY DEF IInv, FlightInv
    <2> QED
        BY <1>1, <1>2, <2>1 DEF FlightInv
<1>4. ASSUME NEW a, Lost(a) PROVE Lost(a)'
    <2>1. \A q \in Requests : req'[q].stage = "event" =>
             (req[q].stage = "event" /\ req'[q].tx = req[q].tx) \/ \A h \in relays : h.id # req'[q].tx
        BY <1>0
    <2> QED
        BY <1>4, <2>1, LostKept
<1>5. ASSUME NEW w, GiftOK(w) PROVE GiftOK(w)'
    BY <1>4, <1>5 DEF GiftOK, WayOK, Over, Forgotten, SameGift
<1>6. ASSUME NEW q \in Requests PROVE GiftOK(req[q])'
    <2>0. PICK w : w = req'[q]
        OBVIOUS
    <2>1. GiftOK(w)'
        <3>1. CASE w.stage \in {"done", "event"}
            BY <3>1 DEF GiftOK, WayOK, Ahead, Giving
        <3>2. CASE q # r /\ w = req[q]
            BY <1>5, <3>2 DEF IInv, GiftInv
        <3> QED
            BY <1>0, <2>0, <3>1, <3>2 DEF StepOf, Bystands
    <2> QED
        BY <2>0, <2>1 DEF GiftOK, WayOK
<1>7. GiftInv'
    BY <1>4, <1>6 DEF IInv, GiftInv, PaidOK, Over, Forgotten, SameGift
<1>8. MoneyInv'
    <2>1. mem'.reserved = mem.reserved /\ mem'.spent = disk[mem'.day] /\ req[r].stage \notin {"send", "receipt"} /\ v.stage \notin {"send", "receipt"}
        BY DEF IInv, MoneyInv
    <2> QED
        BY <2>1, MoneyQuiet
<1>9. Types'
    BY FaultIs DEF IInv, Types, StepOf
<1> QED
    BY <1>3, <1>7, <1>8, <1>9 DEF IInv

\* The record of the handleOps that r sends.
LEMMA HandleOpsIs ==
    ASSUME IInv, NEW r \in Requests, req[r].stage = "relay", relays' = HandleOps(r), UNCHANGED <<service, chain>>
    PROVE  \E k \in Relay : /\ relays' = relays \cup {k} /\ k.id = Cardinality(relays) + 1 /\ k.op = req[r].op
                            /\ (\A h \in relays' : RelayOK(h)') /\ k.id \in Nat
<1>1. PICK k : k = [id |-> Cardinality(relays) + 1, op |-> req[r].op, status |-> "pending", known |-> FALSE]
    OBVIOUS
<1>2. Cardinality(relays) \in Nat /\ req[r].op \in Ops /\ ReqOK(req[r])
    BY ReqFacts, FS_CardinalityType DEF Types, Stages
<1>3. k \in Relay /\ k.id = Cardinality(relays) + 1 /\ k.op = req[r].op /\ k.status = "pending" /\ k.known = FALSE /\ k.id \in Nat
    BY <1>1, <1>2 DEF Relay
<1>4. relays' = relays \cup {k}
    BY <1>1 DEF HandleOps
<1>5. Cardinality(relays') = Cardinality(relays) + 1
    BY <1>3, <1>4, RelaysAdd
<1>6. ASSUME NEW h \in relays' PROVE RelayOK(h)'
    <2>1. CASE h \in relays
        <3>1. RelayOK(h) /\ h.id \in Nat
            BY <2>1, RelayFacts
        <3>2. h.id <= Cardinality(relays')
            BY <1>2, <1>5, <3>1 DEF RelayOK
        <3> QED
            BY <3>1, <3>2 DEF RelayOK
    <2>2. CASE h = k
        BY <1>2, <1>3, <1>5, <2>2 DEF RelayOK, ReqOK
    <2> QED
        BY <1>4, <2>1, <2>2
<1> QED
    BY <1>3, <1>4, <1>6

LEMMA RelayOkInv == ASSUME IInv, NEW r \in Requests, RelayOk(r) PROVE IInv'
<1>1. /\ req[r].stage = "relay" /\ relays' = HandleOps(r) /\ UNCHANGED <<service, chain>> /\ txs' = txs /\ mem' = mem /\ UNCHANGED <<disk, today>>
      /\ UNCHANGED faults /\ "event" \in StageSet /\ {"event", "relay"} \subseteq Stages
    BY DEF RelayOk, StageSet, Stages
<1>2. PICK k \in Relay : /\ relays' = relays \cup {k} /\ k.id = Cardinality(relays) + 1 /\ k.op = req[r].op
                         /\ (\A h \in relays' : RelayOK(h)') /\ k.id \in Nat
    BY <1>1, HandleOpsIs
<1>3. Types /\ ReqOK(req[r]) /\ req[r] \in Req /\ req[r].op \in Ops
    BY <1>1, ReqFacts
<1>4. PICK n : n = k.id
    OBVIOUS
<1>5. PICK v : v = [req[r] EXCEPT !.stage = "event", !.tx = n]
    OBVIOUS
<1>6. v \in Req /\ v.stage = "event" /\ v.op = req[r].op /\ v.tx = n /\ v.answer = req[r].answer
    BY <1>1, <1>2, <1>3, <1>4, <1>5 DEF Req
<1>7. req' = [req EXCEPT ![r] = v]
    <2>1. req' = [req EXCEPT ![r].stage = "event", ![r].tx = n]
        BY <1>2, <1>4 DEF RelayOk
    <2> QED
        BY <1>3, <1>5, <2>1 DEF Types
<1>8. StepOf(r, v)
    BY <1>3, <1>6, <1>7, OnlyIs
<1>9. ReqOK(v)'
    <2>1. \E h \in relays' : h.id = v.tx /\ h.op = v.op
        BY <1>2, <1>4, <1>6
    <2> QED
        BY <1>1, <1>3, <1>6, <2>1 DEF ReqOK, Told, Paying
<1>10. FlightGoes(r, v)
    BY <1>1, <1>6 DEF FlightGoes, Stages
<1>11. /\ relays' \subseteq Relay /\ IsFiniteSet(relays') /\ (\A h, g \in relays' : h.id = g.id => h = g) /\ \A h \in relays : h.id # v.tx
    BY <1>2, <1>4, <1>6, RelaysAdd
<1>12. \A h \in relays : \E g \in relays' : g.id = h.id /\ g.op = h.op /\ (g.known => h.known \/ Tracked(h))
    BY <1>2
<1>13. req[r].stage \in {"relay", "event"} /\ v.stage \in {"done", "event"}
    BY <1>1, <1>6
<1> QED
    BY <1>1, <1>2, <1>6, <1>8, <1>9, <1>10, <1>11, <1>12, <1>13, RelaysStep

LEMMA RelayFailsInv == ASSUME IInv, NEW r \in Requests, RelayFails(r) PROVE IInv'
<1>1. /\ req[r].stage = "relay" /\ relays' \in {relays, HandleOps(r)} /\ UNCHANGED <<service, chain>> /\ txs' = txs /\ mem' = mem /\ UNCHANGED <<disk, today>>
      /\ Fault /\ Answer(r, "failed") /\ "failed" \in Answers /\ req[r].stage \in Stages \ {"send", "receipt"}
    BY DEF RelayFails, Answers, Stages
<1>2. CASE relays' = relays
    BY <1>1, <1>2, AnswerInv
<1>3. CASE relays' = HandleOps(r)
    <2>1. PICK k \in Relay : /\ relays' = relays \cup {k} /\ k.id = Cardinality(relays) + 1 /\ k.op = req[r].op
                             /\ (\A h \in relays' : RelayOK(h)') /\ k.id \in Nat
        BY <1>1, <1>3, HandleOpsIs
    <2>2. Types /\ ReqOK(req[r]) /\ req[r].op \in Ops /\ req[r].stage # "joined"
        BY <1>1, ReqFacts
    <2>3. PICK v \in Req : StepOf(r, v) /\ Moved(r, v) /\ v.stage = "done" /\ v.answer = "failed" /\ Ends(r)
        BY <1>1, <2>2, AnswerIs
    <2>4. ReqOK(v)' /\ FlightGoes(r, v)
        BY <2>2, <2>3 DEF ReqOK, Told, Paying, Moved, FlightGoes, Stages
    <2>5. /\ relays' \subseteq Relay /\ IsFiniteSet(relays') /\ (\A h, g \in relays' : h.id = g.id => h = g)
        BY <2>1, RelaysAdd
    <2>6. \A h \in relays : \E g \in relays' : g.id = h.id /\ g.op = h.op /\ (g.known => h.known \/ Tracked(h))
        BY <2>1
    <2>7. req[r].stage \in {"relay", "event"} /\ v.stage \in {"done", "event"} /\ (v.stage = "event" => \A h \in relays : h.id # v.tx)
        BY <1>1, <2>3
    <2> QED
        BY <1>1, <2>1, <2>3, <2>4, <2>5, <2>6, <2>7, RelaysStep
<1> QED
    BY <1>1, <1>2, <1>3

LEMMA ReadEventInv == ASSUME IInv, NEW r \in Requests, ReadEvent(r) PROVE IInv'
<1>1. PICK h : h = RelayOf(r)
    OBVIOUS
<1>2. /\ req[r].stage = "event" /\ h.status # "pending" /\ UNCHANGED <<service, chain>> /\ txs' = txs /\ mem' = mem /\ UNCHANGED <<disk, today>>
      /\ UNCHANGED faults /\ {"failed", "success"} \subseteq Answers /\ "event" \in Stages
    BY <1>1 DEF ReadEvent, Answers, Stages
<1>3. PICK a \in Answers : a = (IF h.status = "executed" THEN "success" ELSE "failed")
    BY <1>2
<1>4. Answer(r, a) /\ relays' = Seen(r)
    BY <1>1, <1>3 DEF ReadEvent
<1>5. Types /\ ReqOK(req[r]) /\ req[r].op \in Ops /\ req[r].stage # "joined"
    BY <1>2, ReqFacts
<1>6. h \in relays /\ h.id = req[r].tx /\ h.op = req[r].op
    <2>1. PICK g \in relays : g.id = req[r].tx /\ g.op = req[r].op
        BY <1>2, <1>5 DEF ReqOK
    <2>2. h \in relays /\ h.id = req[r].tx
        BY <1>1, <2>1 DEF RelayOf
    <2> QED
        BY <2>1, <2>2, RelayFacts
<1>7. RelayOK(h) /\ h \in Relay /\ service # "bootstrap" /\ \A g \in relays : g.id = h.id => g = h
    BY <1>6, RelayFacts
<1>8. a = "success" => Told(req[r].op)
    BY <1>3, <1>6, <1>7 DEF Told, RelayOK
<1>9. PICK v \in Req : StepOf(r, v) /\ Moved(r, v) /\ v.stage = "done" /\ v.answer = a /\ Ends(r)
    BY <1>4, <1>5, <1>8, AnswerIs
<1>10. PICK k : k = [h EXCEPT !.known = TRUE]
    OBVIOUS
<1>11. k \in Relay /\ k.id = h.id /\ k.op = h.op /\ k.status = h.status /\ k.known = TRUE
    BY <1>7, <1>10 DEF Relay
<1>12. relays' = (relays \ {h}) \cup {k}
    BY <1>1, <1>4, <1>10 DEF Seen
<1>13. relays' \subseteq Relay /\ IsFiniteSet(relays') /\ Cardinality(relays') = Cardinality(relays) /\ \A x, y \in relays' : x.id = y.id => x = y
    BY <1>6, <1>11, <1>12, RelaysSwap
<1>14. ASSUME NEW g \in relays' PROVE RelayOK(g)'
    <2>1. CASE g \in relays
        <3>1. RelayOK(g)
            BY <2>1, RelayFacts
        <3> QED
            BY <1>2, <1>13, <3>1 DEF RelayOK
    <2>2. CASE g = k
        BY <1>2, <1>7, <1>11, <1>13, <2>2 DEF RelayOK
    <2> QED
        BY <1>12, <2>1, <2>2
<1>15. \A x \in relays : \E g \in relays' : g.id = x.id /\ g.op = x.op /\ (g.known => x.known \/ Tracked(x))
    <2>1. Tracked(h)
        BY <1>2, <1>6 DEF Tracked
    <2> QED
        BY <1>11, <1>12, <2>1
<1>16. ReqOK(v)' /\ FlightGoes(r, v)
    <2>1. v.answer = "success" => Told(v.op)
        BY <1>8, <1>9 DEF Moved
    <2> QED
        BY <1>2, <1>5, <1>9, <2>1 DEF ReqOK, Told, Paying, Moved, FlightGoes, Stages
<1>17. req[r].stage \in {"relay", "event"} /\ v.stage \in {"done", "event"} /\ (v.stage = "event" => \A x \in relays : x.id # v.tx)
    BY <1>2, <1>9
<1>18. \A g \in relays' : RelayOK(g)'
    BY <1>14
<1> QED
    BY <1>2, <1>9, <1>13, <1>15, <1>16, <1>17, <1>18, RelaysStep

-----------------------------------------------------------------------------
(* The calendar, the chain and the process.                                *)

LEMMA RestInv ==
    ASSUME IInv, UNCHANGED <<service, req, mem, disk>>, UNCHANGED <<txs, relays, chain>>, today' \in Days, UNCHANGED faults
    PROVE  IInv'
<1>1. Types'
    BY DEF IInv, Types
<1>2. Working' = Working /\ OpenHolds' = OpenHolds /\ Sending' = Sending /\ Holds' = Holds /\ \A d : Admitted(d)' = Admitted(d)
    BY DEF Working, OpenHolds, Sending, Holds, Admitted
<1>3. FlightInv'
    <2>1. \A r \in Requests : ReqOK(req[r])'
        BY DEF IInv, FlightInv, ReqOK, Told, Paying
    <2>2. \A t \in txs : TxOK(t)'
        BY DEF IInv, FlightInv, TxOK, Paying
    <2>3. \A h \in relays : RelayOK(h)'
        BY DEF IInv, FlightInv, RelayOK
    <2>4. Alone' /\ Joined'
        BY <1>2 DEF IInv, FlightInv, Alone, Joined, Paying, SameFlight
    <2> QED
        BY <2>1, <2>2, <2>3, <2>4 DEF IInv, FlightInv
<1>4. GiftInv'
    <2>1. \A a : Lost(a)' = Lost(a)
        BY DEF Lost, Tracked
    <2>2. \A r \in Requests : GiftOK(req[r])'
        BY <2>1 DEF IInv, GiftInv, GiftOK, WayOK
    <2> QED
        BY <2>1, <2>2 DEF IInv, GiftInv, PaidOK
<1>5. MoneyInv'
    BY <1>2 DEF IInv, MoneyInv, Amounts, Opens, Loads
<1> QED
    BY <1>1, <1>3, <1>4, <1>5 DEF IInv

LEMMA MidnightInv == ASSUME IInv, Midnight PROVE IInv'
<1>1. today \in Days /\ MaxDay \in Nat
    BY Bounds DEF IInv, Types
<1>2. today' \in Days
    BY <1>1 DEF Midnight, Days
<1> QED
    BY <1>2, RestInv DEF Midnight

\* A transaction is mined: the chain keeps its nonces and grants, and no deposit shrinks.
MinedAs(t, u) ==
    /\ Becomes(t, u) /\ t.status = "pending" /\ u.status # "pending" /\ u.charge = t.charge /\ u.amount = t.amount /\ u.known = t.known
    /\ chain' \in Chain /\ chain'.nonce = chain.nonce /\ chain'.revoked = chain.revoked /\ chain.deployed \subseteq chain'.deployed
    /\ \A a \in Accounts : chain.deposit[a] <= chain'.deposit[a]
    /\ u.status = "mined" /\ service = "bootstrap" => t.op.account \in chain'.deployed
    /\ u.status = "mined" /\ service = "sponsored" => chain'.deposit[t.op.account] = chain.deposit[t.op.account] + t.value

LEMMA MineTxInv ==
    ASSUME IInv, NEW t \in txs, NEW u, MinedAs(t, u), txs' = (txs \ {t}) \cup {u}, UNCHANGED <<service, req, mem, disk>>, UNCHANGED <<today, relays>>,
           Fault \/ UNCHANGED faults
    PROVE  IInv'
<1>1. /\ Becomes(t, u) /\ t.status = "pending" /\ u.status # "pending" /\ u.charge = t.charge /\ u.amount = t.amount /\ u.known = t.known
      /\ chain' \in Chain /\ chain'.nonce = chain.nonce /\ chain'.revoked = chain.revoked /\ chain.deployed \subseteq chain'.deployed
      /\ \A a \in Accounts : chain.deposit[a] <= chain'.deposit[a]
      /\ u.status = "mined" /\ service = "bootstrap" => t.op.account \in chain'.deployed
      /\ u.status = "mined" /\ service = "sponsored" => chain'.deposit[t.op.account] = chain.deposit[t.op.account] + t.value
    BY Zenon DEF MinedAs
<1>2. u \in Tx /\ u.id = t.id /\ u.op = t.op /\ u.value = t.value /\ u.hold = t.hold /\ u.day = t.day
    BY <1>1, Zenon DEF Becomes
<1>3. /\ t \in Tx /\ TxOK(t) /\ t.op.account \in Accounts /\ t.op.nonce \in Nat /\ t.value \in Nat /\ \A x \in txs : t.id = x.id => t = x
      /\ ~t.known /\ u.status \in Statuses /\ u.op.account \in Accounts
    BY <1>1, <1>2, TxFacts DEF TxOK, Tx
<1>4. /\ txs' \subseteq Tx /\ IsFiniteSet(txs') /\ Cardinality(txs') = Cardinality(txs) /\ \A x, y \in txs' : x.id = y.id => x = y
    BY <1>2, TxsSwap
<1>5. Types'
    BY <1>1, <1>4, FaultIs DEF IInv, Types
<1>6. chain.deposit \in [Accounts -> Nat] /\ chain'.deposit \in [Accounts -> Nat] /\ Prefund \in Nat
    BY <1>1, Bounds DEF IInv, Types, Chain
<1>7. Working' = Working /\ OpenHolds' = OpenHolds /\ Sending' = Sending /\ Holds' = Holds
    BY DEF Working, OpenHolds, Sending, Holds
<1>8. FlightInv'
    <2>1. ASSUME NEW q \in Requests PROVE ReqOK(req[q])'
        <3>1. ReqOK(req[q])
            BY DEF IInv, FlightInv
        <3>2. Told(req[q].op) => Told(req[q].op)'
            BY <1>1 DEF Told
        <3>3. req[q].stage = "receipt" => \E x \in txs' : Tracks(req[q], x)
            BY <1>1, <1>2, <3>1 DEF ReqOK, Tracks
        <3> QED
            BY <3>1, <3>2, <3>3 DEF ReqOK, Paying, Tracks
    <2>2. ASSUME NEW x \in txs' PROVE TxOK(x)'
        <3>1. CASE x \in txs
            <4>1. TxOK(x)
                BY <3>1, TxFacts
            <4> QED
                BY <1>1, <1>4, <4>1 DEF TxOK, Paying
        <3>2. CASE x = u
            BY <1>1, <1>2, <1>3, <1>4, <3>2 DEF TxOK, Paying
        <3> QED
            BY <3>1, <3>2
    <2>3. \A h \in relays' : RelayOK(h)'
        BY <1>1 DEF IInv, FlightInv, RelayOK
    <2>4. Alone' /\ Joined'
        BY <1>7 DEF IInv, FlightInv, Alone, Joined, Paying, SameFlight
    <2>5. \A h, k \in relays' : h.id = k.id => h = k
        BY DEF IInv, FlightInv
    <2> QED
        BY <1>4, <2>1, <2>2, <2>3, <2>4, <2>5 DEF FlightInv
<1>9. \A a : Lost(a)' = Lost(a)
    BY DEF Lost, Tracked
<1>10. Over(t) => Over(u)
    BY <1>1 DEF Over, Forgotten
<1>11. ASSUME NEW q \in Requests PROVE GiftOK(req[q])'
    <2>0. PICK w : w = req[q]
        OBVIOUS
    <2>1. GiftOK(w) /\ ReqOK(w)
        BY <2>0 DEF IInv, GiftInv, FlightInv
    <2>2. CASE Lost(w.op.account)
        BY <1>9, <2>0, <2>2 DEF GiftOK
    <2>3. CASE ~Lost(w.op.account)
        <3>1. (service = "sponsored" => WayOK(w)) /\ (w.stage \in Giving => \A x \in txs : SameGift(x.op, w.op) => Over(x))
            BY <2>1, <2>3 DEF GiftOK
        <3>2. w.stage \in Giving => \A x \in txs' : SameGift(x.op, w.op) => Over(x)
            BY <1>2, <1>10, <3>1
        <3>3. ASSUME service = "sponsored" PROVE WayOK(w)'
            <4>1. w.stage \in Ahead \cup Giving => w.op.account \in Accounts /\ w.short \in Nat
                <5>1. w.stage \in Ahead \cup Giving => w.stage \in Stages
                    BY DEF Ahead, Giving, Stages
                <5> QED
                    BY <2>0, <5>1, ReqFacts, ReqTypes
            <4>2. w.stage \in Ahead => chain'.nonce[w.op.account] = w.op.nonce
                BY <1>1, <3>1, <3>3 DEF WayOK
            <4>3. w.stage \in Giving => chain'.deposit[w.op.account] + w.short >= Prefund
                <5> SUFFICES ASSUME w.stage \in Giving PROVE chain'.deposit[w.op.account] + w.short >= Prefund
                    OBVIOUS
                <5>1. /\ chain.deposit[w.op.account] + w.short >= Prefund /\ w.short \in Nat /\ chain.deposit[w.op.account] \in Nat
                      /\ chain'.deposit[w.op.account] \in Nat /\ chain.deposit[w.op.account] <= chain'.deposit[w.op.account]
                    BY <1>1, <1>6, <3>1, <3>3, <4>1 DEF WayOK
                <5> QED
                    BY <1>6, <5>1
            <4>4. ASSUME w.stage = "receipt", NEW x \in txs', x.id = w.tx
                  PROVE  /\ x.status = "pending" => chain'.deposit[w.op.account] + x.value >= Prefund
                         /\ x.status = "mined" => chain'.deposit[w.op.account] >= Prefund
                <5>1. w.op.account \in Accounts
                    BY <4>1, <4>4 DEF Ahead
                <5>2. /\ chain.deposit[w.op.account] \in Nat /\ chain'.deposit[w.op.account] \in Nat
                      /\ chain.deposit[w.op.account] <= chain'.deposit[w.op.account]
                    BY <1>1, <1>6, <5>1
                <5>3. CASE x \in txs
                    <6>1. x.value \in Nat
                        BY <5>3, TxFacts
                    <6>2. /\ x.status = "pending" => chain.deposit[w.op.account] + x.value >= Prefund
                          /\ x.status = "mined" => chain.deposit[w.op.account] >= Prefund
                        BY <3>1, <3>3, <4>4, <5>3 DEF WayOK
                    <6> QED
                        BY <1>6, <5>2, <6>1, <6>2
                <5>4. CASE x = u
                    <6>1. t.id = w.tx /\ chain.deposit[w.op.account] + t.value >= Prefund
                        BY <1>1, <1>2, <3>1, <3>3, <4>4, <5>4 DEF WayOK
                    <6>2. PICK y \in txs : Tracks(w, y)
                        BY <2>1, <4>4 DEF ReqOK
                    <6>3. t.op = w.op
                        BY <1>3, <6>1, <6>2 DEF Tracks
                    <6> QED
                        BY <1>1, <3>3, <5>4, <6>1, <6>3
                <5> QED
                    BY <5>3, <5>4
            <4> QED
                BY <4>2, <4>3, <4>4 DEF WayOK
        <3> QED
            BY <2>0, <3>2, <3>3 DEF GiftOK
    <2> QED
        BY <2>2, <2>3
<1>12. ASSUME service = "sponsored", NEW x \in txs', ~Lost(x.op.account) PROVE PaidOK(x)'
    <2>1. ASSUME NEW y \in txs, y.op = x.op, y.known = x.known, x.known => y.status = x.status PROVE PaidOK(x)'
        <3>1. PaidOK(y) /\ y.op.account \in Accounts
            BY <1>12, <2>1, TxFacts DEF IInv, GiftInv
        <3>2. /\ chain.deposit[y.op.account] \in Nat /\ chain'.deposit[y.op.account] \in Nat
              /\ chain.deposit[y.op.account] <= chain'.deposit[y.op.account]
            BY <1>1, <1>6, <3>1
        <3>3. x.op.nonce <= chain'.nonce[x.op.account]
            BY <1>1, <2>1, <3>1 DEF PaidOK
        <3>4. x.known /\ x.status = "mined" /\ x.op.nonce = chain'.nonce[x.op.account] => chain.deposit[y.op.account] >= Prefund
            BY <1>1, <2>1, <3>1 DEF PaidOK
        <3>5. x.known /\ x.status = "mined" /\ x.op.nonce = chain'.nonce[x.op.account] => chain'.deposit[x.op.account] >= Prefund
            BY <1>6, <2>1, <3>2, <3>4
        <3> QED
            BY <3>3, <3>5 DEF PaidOK
    <2>2. CASE x \in txs
        BY <2>1, <2>2
    <2>3. CASE x = u
        BY <1>1, <1>2, <1>3, <2>1, <2>3
    <2> QED
        BY <2>2, <2>3
<1>13. ASSUME NEW x \in txs', NEW y \in txs', x.id < y.id, SameGift(x.op, y.op) PROVE Over(x) \/ Lost(x.op.account)
    <2>1. PICK b \in txs : b.id = y.id /\ b.op = y.op
        BY <1>2
    <2>2. PICK a \in txs : a.id = x.id /\ a.op = x.op /\ (Over(a) => Over(x))
        BY <1>2, <1>10
    <2>3. Over(a) \/ Lost(a.op.account)
        BY <1>13, <2>1, <2>2 DEF IInv, GiftInv
    <2> QED
        BY <2>2, <2>3
<1>14. GiftInv'
    <2>1. \A x \in txs', y \in txs' : x.id < y.id /\ SameGift(x.op, y.op) => Over(x) \/ Lost(x.op.account)'
        BY <1>9, <1>13
    <2>2. service' = "sponsored" => \A x \in txs' : Lost(x.op.account)' \/ PaidOK(x)'
        BY <1>9, <1>12
    <2> QED
        BY <1>11, <2>1, <2>2 DEF GiftInv, SameGift, Over, Forgotten
<1>15. MoneyInv'
    <2>1. Amounts[u] = Amounts[t] /\ Opens[u] = Opens[t] /\ Loads[u] = Loads[t]
        BY <1>1, <1>2, <1>3, TxValues DEF Open, Load
    <2>2. SumFunctionOnSet(Opens, txs') = SumFunctionOnSet(Opens, txs)
        <3>1. /\ SumFunctionOnSet(Opens, txs') = SumFunctionOnSet(Opens, txs) - Opens[t] + Opens[u] /\ Opens[t] \in Nat
              /\ SumFunctionOnSet(Opens, txs) \in Nat
            BY <1>1, TxValues, SwapSum
        <3> QED
            BY <2>1, <3>1
    <2>3. ASSUME NEW d PROVE SumFunctionOnSet(Amounts, Admitted(d)') = SumFunctionOnSet(Amounts, Admitted(d))
        <3>1. /\ SumFunctionOnSet(Amounts, Admitted(t.day)') = SumFunctionOnSet(Amounts, Admitted(t.day)) - Amounts[t] + Amounts[u]
              /\ \A e : e # t.day => SumFunctionOnSet(Amounts, Admitted(e)') = SumFunctionOnSet(Amounts, Admitted(e))
              /\ \A e : SumFunctionOnSet(Amounts, Admitted(e)) \in Nat
              /\ Amounts[t] \in Nat
            BY <1>1, TxValues, SwapSum
        <3> QED
            BY <2>1, <3>1
    <2>4. ASSUME NEW d PROVE SumFunctionOnSet(Loads, Admitted(d)') = SumFunctionOnSet(Loads, Admitted(d))
        <3>1. /\ SumFunctionOnSet(Loads, Admitted(t.day)') = SumFunctionOnSet(Loads, Admitted(t.day)) - Loads[t] + Loads[u]
              /\ \A e : e # t.day => SumFunctionOnSet(Loads, Admitted(e)') = SumFunctionOnSet(Loads, Admitted(e))
              /\ \A e : SumFunctionOnSet(Loads, Admitted(e)) \in Nat
              /\ Loads[t] \in Nat
            BY <1>1, TxValues, SwapSum
        <3> QED
            BY <2>1, <3>1
    <2>5. \A d \in Days : /\ SumFunctionOnSet(Loads, Admitted(d)') + SumFunctionOnSet(Holds', {q \in Sending' : req'[q].day = d}) <= DailyLimit
                          /\ disk'[d] = SumFunctionOnSet(Amounts, Admitted(d)')
        BY <1>7, <2>3, <2>4 DEF IInv, MoneyInv
    <2>6. /\ mem'.spent = disk'[mem'.day] /\ mem'.reserved = SumFunctionOnSet(Holds', OpenHolds')
          /\ mem'.reserved = SumFunctionOnSet(Holds', Sending') + SumFunctionOnSet(Opens, txs')
        BY <1>7, <2>2 DEF IInv, MoneyInv
    <2> QED
        BY <2>5, <2>6 DEF MoneyInv, Amounts, Opens, Loads
<1> QED
    BY <1>5, <1>8, <1>14, <1>15 DEF IInv

\* The record of a mined transaction.
LEMMA SentIs ==
    ASSUME IInv, NEW t \in txs, NEW status \in {"mined", "reverted"}, NEW cost \in Nat, txs' = Sent(t, status, cost)
    PROVE  \E u : /\ txs' = (txs \ {t}) \cup {u} /\ Becomes(t, u) /\ u.status = status
                  /\ u.charge = t.charge /\ u.amount = t.amount /\ u.known = t.known
<1>1. PICK u : u = [t EXCEPT !.status = status, !.cost = cost]
    OBVIOUS
<1>2. txs' = (txs \ {t}) \cup {u}
    BY <1>1 DEF Sent
<1>3. t \in Tx /\ status \in Statuses
    BY TxFacts DEF Statuses
<1>4. Becomes(t, u) /\ u.status = status /\ u.charge = t.charge /\ u.amount = t.amount /\ u.known = t.known
    BY <1>1, <1>3 DEF Tx, Becomes
<1> QED
    BY <1>2, <1>4

LEMMA MineSponsorInv == ASSUME IInv, MineSponsor PROVE IInv'
<1>0. UNCHANGED <<service, req, mem, disk>> /\ UNCHANGED <<today, relays>>
    BY DEF MineSponsor
<1>1. PICK t \in txs, fee \in Fees :
         /\ t.status = "pending"
         /\ \A u \in txs : u.status = "pending" => t.id <= u.id
         /\ \/ /\ service = "bootstrap" /\ t.op.account \notin chain.deployed
               /\ txs' = Sent(t, "mined", fee)
               /\ chain' = [chain EXCEPT !.deployed = @ \cup {t.op.account}]
               /\ UNCHANGED faults
            \/ /\ service = "sponsored"
               /\ txs' = Sent(t, "mined", t.value + fee)
               /\ chain' = [chain EXCEPT !.deposit[t.op.account] = @ + t.value]
               /\ UNCHANGED faults
            \/ /\ IF t.op.account \in chain.deployed /\ service = "bootstrap" THEN UNCHANGED faults ELSE Fault
               /\ txs' = Sent(t, "reverted", fee)
               /\ UNCHANGED chain
    BY Zenon DEF MineSponsor
<1>2. fee \in Nat /\ t.value \in Nat /\ t.op.account \in Accounts /\ chain \in Chain
    BY Bounds, TxFacts DEF IInv, Types
<1>3. /\ chain.deposit \in [Accounts -> Nat] /\ chain.nonce \in [Accounts -> Nat] /\ chain.revoked \in SUBSET Grants /\ chain.deployed \in SUBSET Accounts
    BY <1>2 DEF Chain
<1>4. CASE /\ service = "bootstrap" /\ txs' = Sent(t, "mined", fee) /\ chain' = [chain EXCEPT !.deployed = @ \cup {t.op.account}] /\ UNCHANGED faults
    <2>1. PICK u : /\ txs' = (txs \ {t}) \cup {u} /\ Becomes(t, u) /\ u.status = "mined"
                   /\ u.charge = t.charge /\ u.amount = t.amount /\ u.known = t.known
        BY <1>2, <1>4, SentIs
    <2>2. /\ chain' \in Chain /\ chain'.nonce = chain.nonce /\ chain'.revoked = chain.revoked /\ chain.deployed \subseteq chain'.deployed
          /\ chain'.deposit = chain.deposit /\ t.op.account \in chain'.deployed
        BY <1>2, <1>3, <1>4 DEF Chain
    <2>3. \A a \in Accounts : chain.deposit[a] <= chain'.deposit[a]
        BY <1>3, <2>2
    <2>4. MinedAs(t, u)
        BY <1>1, <1>4, <2>1, <2>2, <2>3 DEF MinedAs
    <2> QED
        BY <1>0, <1>4, <2>1, <2>4, MineTxInv
<1>5. CASE /\ service = "sponsored" /\ txs' = Sent(t, "mined", t.value + fee) /\ chain' = [chain EXCEPT !.deposit[t.op.account] = @ + t.value]
           /\ UNCHANGED faults
    <2>0. PICK cost \in Nat : cost = t.value + fee
        BY <1>2
    <2>1. PICK u : /\ txs' = (txs \ {t}) \cup {u} /\ Becomes(t, u) /\ u.status = "mined"
                   /\ u.charge = t.charge /\ u.amount = t.amount /\ u.known = t.known
        BY <1>5, <2>0, SentIs
    <2>2. PICK deposit : deposit = [chain.deposit EXCEPT ![t.op.account] = @ + t.value]
        OBVIOUS
    <2>3. /\ deposit \in [Accounts -> Nat] /\ deposit[t.op.account] = chain.deposit[t.op.account] + t.value
          /\ \A a \in Accounts : chain.deposit[a] <= deposit[a]
        BY <1>2, <1>3, <2>2
    <2>4. chain' = [chain EXCEPT !.deposit = deposit]
        BY <1>5, <2>2
    <2>5. /\ chain' \in Chain /\ chain'.nonce = chain.nonce /\ chain'.revoked = chain.revoked /\ chain.deployed \subseteq chain'.deployed
          /\ chain'.deposit = deposit
        BY <1>2, <1>3, <2>3, <2>4 DEF Chain
    <2>6. MinedAs(t, u)
        BY <1>1, <1>5, <2>1, <2>3, <2>5 DEF MinedAs
    <2> QED
        BY <1>0, <1>5, <2>1, <2>6, MineTxInv
<1>6. CASE /\ IF t.op.account \in chain.deployed /\ service = "bootstrap" THEN UNCHANGED faults ELSE Fault
           /\ txs' = Sent(t, "reverted", fee) /\ UNCHANGED chain
    <2>1. PICK u : /\ txs' = (txs \ {t}) \cup {u} /\ Becomes(t, u) /\ u.status = "reverted"
                   /\ u.charge = t.charge /\ u.amount = t.amount /\ u.known = t.known
        BY <1>2, <1>6, SentIs
    <2>2. \A a \in Accounts : chain.deposit[a] <= chain'.deposit[a]
        BY <1>3, <1>6
    <2>3. MinedAs(t, u)
        BY <1>1, <1>2, <1>6, <2>1, <2>2 DEF MinedAs
    <2>4. Fault \/ UNCHANGED faults
        BY <1>6
    <2> QED
        BY <1>0, <2>1, <2>3, <2>4, MineTxInv
<1> QED
    BY <1>1, <1>4, <1>5, <1>6

\* The pending handleOps of an account of which none is lost has its flight waiting for it.
LEMMA WaitedFor ==
    ASSUME IInv, service = "sponsored", NEW h \in relays, h.status = "pending", ~Lost(h.op.account), NEW p \in Working,
           req[p].op.account = h.op.account
    PROVE  req[p].stage = "event"
<1>1. ~h.known
    BY RelayFacts DEF RelayOK
<1>2. PICK q \in Requests : req[q].stage = "event" /\ req[q].tx = h.id
    BY <1>1 DEF Lost, Tracked
<1>3. PICK g \in relays : g.id = req[q].tx /\ g.op = req[q].op
    BY <1>2 DEF IInv, FlightInv, ReqOK
<1>4. g = h
    BY <1>2, <1>3, RelayFacts
<1>5. q \in Working
    BY <1>2 DEF Working, Stages
<1> QED
    BY <1>2, <1>3, <1>4, <1>5 DEF IInv, FlightInv, Alone, Paying

\* A handleOps is mined: either the chain rests, or the operation's nonce is used and paid for.
LEMMA MineRelayInv == ASSUME IInv, MineRelay PROVE IInv'
<1>0. UNCHANGED <<service, req, mem, disk>> /\ UNCHANGED <<today, txs>> /\ UNCHANGED faults
    BY DEF MineRelay
<1>1. PICK h \in relays, status \in {"executed", "caught", "reverted"} :
         /\ h.status = "pending"
         /\ (status = "reverted") = ~Accepted(h.op)
         /\ relays' = (relays \ {h}) \cup {[h EXCEPT !.status = status]}
         /\ chain' = IF status = "reverted" THEN chain ELSE
                     [chain EXCEPT !.nonce[h.op.account] = @ + 1, !.deposit[h.op.account] = @ - OpCost,
                                   !.revoked = IF status = "executed" THEN @ \cup {h.op.grant} ELSE @]
    BY Zenon DEF MineRelay
<1>2. /\ h \in Relay /\ RelayOK(h) /\ service # "bootstrap" /\ h.op.account \in Accounts /\ h.op.grant \in Grants /\ h.op.nonce \in Nat
      /\ (\A k \in relays : h.id = k.id => h = k) /\ ~h.known
    BY <1>1, RelayFacts DEF RelayOK
<1>3. PICK k : k = [h EXCEPT !.status = status]
    OBVIOUS
<1>4. k \in Relay /\ k.id = h.id /\ k.op = h.op /\ k.status = status /\ k.known = h.known
    BY <1>2, <1>3 DEF Relay
<1>5. relays' = (relays \ {h}) \cup {k}
    BY <1>1, <1>3
<1>6. relays' \subseteq Relay /\ IsFiniteSet(relays') /\ Cardinality(relays') = Cardinality(relays) /\ \A x, y \in relays' : x.id = y.id => x = y
    BY <1>4, <1>5, RelaysSwap
<1>7. chain \in Chain /\ Prefund \in Nat /\ OpCost \in Nat /\ OpCost <= Prefund
    BY Bounds DEF IInv, Types
<1>8. /\ chain.deposit \in [Accounts -> Nat] /\ chain.nonce \in [Accounts -> Nat] /\ chain.revoked \in SUBSET Grants /\ chain.deployed \in SUBSET Accounts
    BY <1>7 DEF Chain
<1>9. /\ chain' \in Chain /\ chain'.deployed = chain.deployed /\ chain.revoked \subseteq chain'.revoked
      /\ status = "executed" => h.op.grant \in chain'.revoked
      /\ \A a \in Accounts : a # h.op.account => chain'.nonce[a] = chain.nonce[a] /\ chain'.deposit[a] = chain.deposit[a]
      /\ chain' = chain \/ chain'.nonce[h.op.account] = chain.nonce[h.op.account] + 1
    <2>1. CASE status = "reverted"
        BY <1>1, <1>7, <2>1
    <2>2. CASE status # "reverted"
        <3>1. chain.deposit[h.op.account] >= Prefund
            BY <1>1, <2>2 DEF Accepted
        <3>2. PICK nonce, deposit, revoked : /\ nonce = [chain.nonce EXCEPT ![h.op.account] = @ + 1]
                                             /\ deposit = [chain.deposit EXCEPT ![h.op.account] = @ - OpCost]
                                             /\ revoked = (IF status = "executed" THEN chain.revoked \cup {h.op.grant} ELSE chain.revoked)
            OBVIOUS
        <3>3. nonce \in [Accounts -> Nat] /\ nonce[h.op.account] = chain.nonce[h.op.account] + 1 /\ \A a \in Accounts : a # h.op.account => nonce[a] = chain.nonce[a]
            BY <1>2, <1>8, <3>2
        <3>4. deposit \in [Accounts -> Nat] /\ \A a \in Accounts : a # h.op.account => deposit[a] = chain.deposit[a]
            <4>1. chain.deposit[h.op.account] - OpCost \in Nat
                BY <1>2, <1>7, <1>8, <3>1
            <4> QED
                BY <1>2, <1>8, <3>2, <4>1
        <3>5. revoked \in SUBSET Grants /\ chain.revoked \subseteq revoked /\ (status = "executed" => h.op.grant \in revoked)
            BY <1>2, <1>8, <3>2
        <3>6. chain' = [chain EXCEPT !.nonce = nonce, !.deposit = deposit, !.revoked = revoked]
            BY <1>1, <2>2, <3>2, <1>7 DEF Chain
        <3>7. chain' \in Chain /\ chain'.deployed = chain.deployed /\ chain'.nonce = nonce /\ chain'.deposit = deposit /\ chain'.revoked = revoked
            BY <1>7, <3>3, <3>4, <3>5, <3>6 DEF Chain
        <3> QED
            BY <3>3, <3>4, <3>5, <3>7
    <2> QED
        BY <2>1, <2>2
<1>10. Types'
    BY <1>0, <1>6, <1>9 DEF IInv, Types
<1>11. Working' = Working /\ OpenHolds' = OpenHolds /\ Sending' = Sending /\ Holds' = Holds /\ \A d : Admitted(d)' = Admitted(d)
    BY <1>0 DEF Working, OpenHolds, Sending, Holds, Admitted
<1>12. FlightInv'
    <2>1. ASSUME NEW q \in Requests PROVE ReqOK(req[q])'
        <3>1. ReqOK(req[q])
            BY DEF IInv, FlightInv
        <3>2. Told(req[q].op) => Told(req[q].op)'
            BY <1>0, <1>9 DEF Told
        <3>3. req[q].stage = "event" => \E x \in relays' : x.id = req[q].tx /\ x.op = req[q].op
            BY <1>4, <1>5, <3>1 DEF ReqOK
        <3> QED
            BY <1>0, <3>1, <3>2, <3>3 DEF ReqOK, Paying
    <2>2. \A t \in txs' : TxOK(t)'
        BY <1>0, <1>9 DEF IInv, FlightInv, TxOK, Paying
    <2>3. ASSUME NEW x \in relays' PROVE RelayOK(x)'
        <3>1. CASE x \in relays
            <4>1. RelayOK(x)
                BY <3>1, RelayFacts
            <4> QED
                BY <1>0, <1>6, <1>9, <4>1 DEF RelayOK
        <3>2. CASE x = k
            BY <1>0, <1>2, <1>4, <1>6, <1>9, <3>2 DEF RelayOK
        <3> QED
            BY <1>5, <3>1, <3>2
    <2>4. Alone' /\ Joined'
        BY <1>0, <1>11 DEF IInv, FlightInv, Alone, Joined, Paying, SameFlight
    <2>5. \A t, u \in txs' : t.id = u.id => t = u
        BY <1>0 DEF IInv, FlightInv
    <2> QED
        BY <1>6, <2>1, <2>2, <2>3, <2>4, <2>5 DEF FlightInv
<1>13. ASSUME NEW a, Lost(a) PROVE Lost(a)'
    <2>1. \A x \in relays : \E g \in relays' : g.id = x.id /\ g.op = x.op /\ (g.known => x.known \/ Tracked(x))
        BY <1>4, <1>5
    <2>2. \A q \in Requests : req'[q].stage = "event" =>
             (req[q].stage = "event" /\ req'[q].tx = req[q].tx) \/ \A x \in relays : x.id # req'[q].tx
        BY <1>0
    <2> QED
        BY <1>13, <2>1, <2>2, LostKept
<1>14. ASSUME NEW q \in Requests PROVE GiftOK(req[q])'
    <2>0. PICK w : w = req[q]
        OBVIOUS
    <2>1. GiftOK(w) /\ ReqOK(w)
        BY <2>0 DEF IInv, GiftInv, FlightInv
    <2>2. CASE Lost(w.op.account)
        BY <1>0, <1>13, <2>0, <2>2 DEF GiftOK
    <2>3. CASE ~Lost(w.op.account)
        <3>1. (service = "sponsored" => WayOK(w)) /\ (w.stage \in Giving => \A x \in txs : SameGift(x.op, w.op) => Over(x))
            BY <2>1, <2>3 DEF GiftOK
        <3>2. ASSUME service = "sponsored" PROVE WayOK(w)'
            <4>1. CASE w.stage \notin Ahead
                BY <4>1 DEF WayOK, Ahead, Giving
            <4>2. CASE w.stage \in Ahead
                <5>1. q \in Working /\ w.op.account \in Accounts /\ w.stage # "event"
                    BY <2>0, <4>2, ReqFacts DEF Ahead, Stages
                <5>2. w.op.account # h.op.account
                    BY <1>1, <2>0, <2>3, <3>2, <5>1, WaitedFor
                <5>3. chain'.nonce[w.op.account] = chain.nonce[w.op.account] /\ chain'.deposit[w.op.account] = chain.deposit[w.op.account]
                    BY <1>9, <5>1, <5>2
                <5> QED
                    BY <1>0, <3>1, <3>2, <5>3 DEF WayOK
            <4> QED
                BY <4>1, <4>2
        <3> QED
            BY <1>0, <2>0, <3>1, <3>2 DEF GiftOK
    <2> QED
        BY <2>2, <2>3
<1>15. ASSUME service = "sponsored", NEW t \in txs, ~Lost(t.op.account) PROVE PaidOK(t)'
    <2>1. PaidOK(t) /\ t.op.account \in Accounts /\ t.op.nonce \in Nat
        BY <1>15, TxFacts DEF IInv, GiftInv
    <2>2. chain.nonce[t.op.account] \in Nat
        BY <1>8, <2>1
    <2>3. CASE chain' = chain
        BY <2>1, <2>3 DEF PaidOK
    <2>4. CASE t.op.account # h.op.account
        <3>1. chain'.nonce[t.op.account] = chain.nonce[t.op.account] /\ chain'.deposit[t.op.account] = chain.deposit[t.op.account]
            BY <1>9, <2>1, <2>4
        <3> QED
            BY <2>1, <3>1 DEF PaidOK
    <2>5. CASE t.op.account = h.op.account /\ chain'.nonce[h.op.account] = chain.nonce[h.op.account] + 1
        <3>1. t.op.nonce < chain'.nonce[t.op.account]
            BY <2>1, <2>2, <2>5 DEF PaidOK
        <3>2. chain'.nonce[t.op.account] \in Nat
            BY <2>2, <2>5
        <3> QED
            BY <2>1, <3>1, <3>2 DEF PaidOK
    <2> QED
        BY <1>9, <2>3, <2>4, <2>5
<1>16. GiftInv'
    <2>1. \A t \in txs', u \in txs' : t.id < u.id /\ SameGift(t.op, u.op) => Over(t) \/ Lost(t.op.account)'
        BY <1>0, <1>13 DEF IInv, GiftInv
    <2>2. service' = "sponsored" => \A t \in txs' : Lost(t.op.account)' \/ PaidOK(t)'
        BY <1>0, <1>13, <1>15
    <2> QED
        BY <1>14, <2>1, <2>2 DEF GiftInv, SameGift, Over, Forgotten
<1>17. MoneyInv'
    BY <1>0, <1>11 DEF IInv, MoneyInv, Amounts, Opens, Loads
<1> QED
    BY <1>10, <1>12, <1>16, <1>17 DEF IInv

LEMMA CrashInv == ASSUME IInv, Crash PROVE IInv'
<1>0. Fault /\ UNCHANGED <<service, chain>> /\ disk' = disk /\ today' = today /\ relays' = relays /\ mem' = [day |-> today, spent |-> disk[today], reserved |-> 0]
    BY DEF Crash
<1>1. Types /\ txs \subseteq Tx /\ IsFiniteSet(txs) /\ today \in Days /\ disk \in [Days -> Nat] /\ req \in [Requests -> Req]
    BY DEF IInv, Types
<1>2. ASSUME NEW q \in Requests
      PROVE  /\ req'[q] \in Req /\ req'[q].op = req[q].op /\ req'[q].stage \in {"idle", "done"}
             /\ req'[q] = req[q] \/ (req[q].stage # "idle" /\ req'[q].answer = "lost")
    <2>1. PICK w : w = [req[q] EXCEPT !.stage = "done", !.answer = "lost"]
        OBVIOUS
    <2>2. w \in Req /\ w.stage = "done" /\ w.answer = "lost" /\ w.op = req[q].op
        BY <1>1, <2>1 DEF Req, StageSet, Answers
    <2>3. req'[q] = IF req[q].stage \in {"idle", "done"} THEN req[q] ELSE w
        BY <2>1 DEF Crash
    <2> QED
        BY <1>1, <2>2, <2>3
<1>3. req' \in [Requests -> Req]
    <2>1. req' = [q \in Requests |-> req'[q]]
        BY Zenon DEF Crash
    <2> QED
        BY <1>2, <2>1
<1>4. PICK f : f = [t \in txs |-> IF t.charge = "open" THEN [t EXCEPT !.charge = "lost"] ELSE t]
    OBVIOUS
<1>5. ASSUME NEW t \in txs
      PROVE  /\ Becomes(t, f[t]) /\ f[t].status = t.status /\ f[t].cost = t.cost /\ f[t].amount = t.amount /\ f[t].known = t.known
             /\ f[t].charge = IF t.charge = "open" THEN "lost" ELSE t.charge
    <2>1. PICK u : u = [t EXCEPT !.charge = "lost"]
        OBVIOUS
    <2>2. t \in Tx /\ "lost" \in Charges
        BY <1>1 DEF Charges
    <2>3. Becomes(t, u) /\ u.status = t.status /\ u.cost = t.cost /\ u.amount = t.amount /\ u.known = t.known /\ u.charge = "lost"
        BY <2>1, <2>2 DEF Becomes, Tx
    <2>4. f[t] = IF t.charge = "open" THEN u ELSE t
        BY <1>4, <2>1
    <2>5. CASE t.charge = "open"
        BY <2>3, <2>4, <2>5
    <2>6. CASE t.charge # "open"
        BY <2>2, <2>4, <2>6 DEF Becomes
    <2> QED
        BY <2>5, <2>6
<1>6. txs' = {f[t] : t \in txs}
    BY <1>4, Zenon DEF Crash
<1>7. \A t \in txs : f[t] \in Tx /\ f[t].id = t.id /\ f[t].op = t.op /\ f[t].day = t.day /\ f[t].hold = t.hold
    BY <1>5 DEF Becomes
<1>8. \A t, u \in txs : f[t].id = f[u].id => t = u
    BY <1>7 DEF IInv, FlightInv
<1>9. \A t, u \in txs : f[t] = f[u] => t = u
    BY <1>8
<1>10. txs' \subseteq Tx /\ IsFiniteSet(txs') /\ Cardinality(txs') = Cardinality(txs) /\ \A x, y \in txs' : x.id = y.id => x = y
    <2>1. IsFiniteSet({f[t] : t \in txs}) /\ Cardinality({f[t] : t \in txs}) = Cardinality(txs)
        BY <1>1, <1>9, CountImage
    <2> QED
        BY <1>6, <1>7, <1>8, <2>1
<1>11. mem' \in [day : Days, spent : Nat, reserved : Nat] /\ mem'.day = today /\ mem'.spent = disk[today] /\ mem'.reserved = 0
    BY <1>0, <1>1
<1>12. Types'
    BY <1>0, <1>1, <1>3, <1>10, <1>11, FaultIs DEF Types
<1>13. Working' = {} /\ OpenHolds' = {} /\ Sending' = {}
    BY <1>2 DEF Working, OpenHolds, Sending, Stages
<1>14. FlightInv'
    <2>1. ASSUME NEW q \in Requests PROVE ReqOK(req[q])'
        <3>1. ReqOK(req[q])
            BY DEF IInv, FlightInv
        <3>2. CASE req'[q] = req[q]
            BY <1>0, <1>2, <3>1, <3>2 DEF ReqOK, Told, Paying
        <3>3. CASE req[q].stage # "idle" /\ req'[q].answer = "lost"
            BY <1>0, <1>2, <3>1, <3>3 DEF ReqOK, Told, Paying
        <3> QED
            BY <1>2, <3>2, <3>3
    <2>2. ASSUME NEW x \in txs' PROVE TxOK(x)'
        <3>1. PICK t \in txs : x = f[t]
            BY <1>6
        <3>2. TxOK(t) /\ x.status = t.status /\ x.cost = t.cost /\ x.amount = t.amount /\ x.known = t.known /\ x.id = t.id /\ x.op = t.op /\ x.hold = t.hold
            BY <1>5, <1>7, <3>1, TxFacts
        <3>3. x.charge # "open" /\ (t.charge = "settled" <=> x.charge = "settled")
            BY <1>5, <3>1
        <3> QED
            BY <1>0, <1>10, <3>2, <3>3 DEF TxOK, Paying
    <2>3. \A h \in relays' : RelayOK(h)'
        BY <1>0 DEF IInv, FlightInv, RelayOK
    <2>4. Alone' /\ Joined'
        BY <1>2, <1>13 DEF Alone, Joined
    <2>5. \A h, k \in relays' : h.id = k.id => h = k
        BY <1>0 DEF IInv, FlightInv
    <2> QED
        BY <1>10, <2>1, <2>2, <2>3, <2>4, <2>5 DEF FlightInv
<1>15. ASSUME NEW a, Lost(a) PROVE Lost(a)'
    <2>1. \A x \in relays : \E g \in relays' : g.id = x.id /\ g.op = x.op /\ (g.known => x.known \/ Tracked(x))
        BY <1>0
    <2>2. \A q \in Requests : req'[q].stage = "event" =>
             (req[q].stage = "event" /\ req'[q].tx = req[q].tx) \/ \A x \in relays : x.id # req'[q].tx
        BY <1>2
    <2> QED
        BY <1>15, <2>1, <2>2, LostKept
<1>16. GiftInv'
    <2>1. ASSUME NEW q \in Requests PROVE GiftOK(req[q])'
        <3>1. PICK w : w = req'[q]
            OBVIOUS
        <3>2. GiftOK(w)'
            BY <1>2, <3>1, Standing
        <3> QED
            BY <3>1, <3>2 DEF GiftOK, WayOK
    <2>2. ASSUME service = "sponsored", NEW x \in txs' PROVE Lost(x.op.account)' \/ PaidOK(x)'
        <3>1. PICK t \in txs : x = f[t]
            BY <1>6
        <3>2. x.op = t.op /\ x.known = t.known /\ x.status = t.status
            BY <1>5, <1>7, <3>1
        <3>3. Lost(t.op.account) \/ PaidOK(t)
            BY <2>2 DEF IInv, GiftInv
        <3> QED
            BY <1>0, <1>15, <3>2, <3>3 DEF PaidOK
    <2>3. ASSUME NEW x \in txs', NEW y \in txs', x.id < y.id, SameGift(x.op, y.op) PROVE Over(x) \/ Lost(x.op.account)'
        <3>1. PICK t \in txs : x = f[t]
            BY <1>6
        <3>2. PICK u \in txs : y = f[u]
            BY <1>6
        <3>3. Over(t) \/ Lost(t.op.account)
            BY <1>7, <2>3, <3>1, <3>2 DEF IInv, GiftInv
        <3>4. Over(t) => Over(x)
            BY <1>5, <3>1 DEF Over, Forgotten
        <3> QED
            BY <1>7, <1>15, <3>1, <3>3, <3>4
    <2>4. \A x \in txs', y \in txs' : x.id < y.id /\ SameGift(x.op, y.op) => Over(x) \/ Lost(x.op.account)'
        BY <2>3
    <2>5. service' = "sponsored" => \A x \in txs' : Lost(x.op.account)' \/ PaidOK(x)'
        BY <1>0, <2>2
    <2> QED
        BY <2>1, <2>4, <2>5 DEF GiftInv, SameGift, Over, Forgotten
<1>17. MoneyInv'
    <2>1. SumFunctionOnSet(Opens, txs') = 0
        <3>1. \A x \in txs' : Opens[x] = 0
            <4>1. \A x \in txs' : x \in Tx /\ x.charge # "open"
                BY <1>5, <1>6, <1>7
            <4> QED
                BY <4>1, TxValues DEF Open
        <3> QED
            BY <1>10, <3>1, SumZero
    <2>2. ASSUME NEW d \in Days
          PROVE  /\ SumFunctionOnSet(Amounts, Admitted(d)') = disk[d]
                 /\ SumFunctionOnSet(Loads, Admitted(d)') <= DailyLimit
        <3>1. PICK D, E : D = Admitted(d) /\ E = Admitted(d)'
            OBVIOUS
        <3>2. D \subseteq txs /\ IsFiniteSet(D) /\ D \subseteq Tx
            BY <1>1, <3>1, Finite DEF Admitted
        <3>3. E = {f[t] : t \in D}
            <4>1. E = {x \in {f[t] : t \in txs} : x.day = d} /\ D = {t \in txs : t.day = d}
                BY <1>6, <3>1 DEF Admitted
            <4> QED
                BY <1>7, <4>1
        <3>4. \A t, u \in D : f[t] = f[u] => t = u
            BY <1>9, <3>2
        <3>5. \A t \in D : Amounts[t] = Amounts[f[t]] /\ Amounts[t] \in Nat
            BY <1>1, <1>5, <1>7, <3>2, TxValues
        <3>6. SumFunctionOnSet(Amounts, {f[t] : t \in D}) = SumFunctionOnSet(Amounts, D)
            BY <3>2, <3>4, <3>5, SumImage
        <3>7. PICK g : g = [t \in txs |-> Loads[f[t]]]
            OBVIOUS
        <3>8. \A t \in D : g[t] = Loads[f[t]] /\ g[t] \in Nat /\ Loads[t] \in Nat /\ g[t] <= Loads[t]
            <4> SUFFICES ASSUME NEW t \in D PROVE g[t] = Loads[f[t]] /\ g[t] \in Nat /\ Loads[t] \in Nat /\ g[t] <= Loads[t]
                OBVIOUS
            <4>1. /\ t \in txs /\ t \in Tx /\ f[t] \in Tx /\ g[t] = Loads[f[t]] /\ f[t].hold = t.hold /\ f[t].amount = t.amount
                  /\ f[t].charge = IF t.charge = "open" THEN "lost" ELSE t.charge
                BY <1>5, <1>7, <3>2, <3>7
            <4> QED
                BY <4>1, TxValues DEF Load
        <3>9. SumFunctionOnSet(Loads, {f[t] : t \in D}) = SumFunctionOnSet(g, D)
            BY <3>2, <3>4, <3>8, SumImage
        <3>10. SumFunctionOnSet(g, D) <= SumFunctionOnSet(Loads, D)
            BY <3>2, <3>8, SumMonotone
        <3>11. disk[d] = SumFunctionOnSet(Amounts, D)
            BY <3>1 DEF IInv, MoneyInv
        <3>12. SumFunctionOnSet(Loads, D) <= DailyLimit
            <4>1. PICK B : B = {q \in Sending : req[q].day = d}
                OBVIOUS
            <4>2. SumFunctionOnSet(Loads, D) + SumFunctionOnSet(Holds, B) <= DailyLimit
                BY <3>1, <4>1 DEF IInv, MoneyInv
            <4>3. IsFiniteSet(B) /\ \A q \in B : Holds[q] \in Nat
                BY <1>1, <4>1, Finite DEF Sending
            <4>4. SumFunctionOnSet(Holds, B) \in Nat
                BY <4>3, SumType
            <4>5. SumFunctionOnSet(Loads, D) \in Nat
                BY <3>2, <3>8, SumType
            <4> QED
                BY <4>2, <4>4, <4>5, Bounds
        <3>13. SumFunctionOnSet(Loads, D) \in Nat /\ SumFunctionOnSet(g, D) \in Nat
            BY <3>2, <3>8, SumType
        <3>14. SumFunctionOnSet(g, D) <= DailyLimit
            BY <3>10, <3>12, <3>13, Bounds
        <3> QED
            BY <3>1, <3>3, <3>6, <3>9, <3>11, <3>14
    <2>3. SumFunctionOnSet(Holds', {}) = 0
        BY SumEmpty
    <2>4. ASSUME NEW d \in Days
          PROVE  SumFunctionOnSet(Loads, Admitted(d)') + SumFunctionOnSet(Holds', {q \in Sending' : req'[q].day = d}) <= DailyLimit
        <3>1. {q \in Sending' : req'[q].day = d} = {}
            BY <1>13
        <3>2. SumFunctionOnSet(Loads, Admitted(d)') \in Nat
            <4>1. Admitted(d)' \subseteq txs' /\ IsFiniteSet(Admitted(d)')
                BY <1>10, FS_Subset DEF Admitted
            <4>2. \A x \in Admitted(d)' : Loads[x] \in Nat
                BY <1>10, <4>1, TxValues
            <4> QED
                BY <4>1, <4>2, SumType
        <3> QED
            BY <2>2, <2>3, <3>1, <3>2, Bounds
    <2>5. /\ mem'.spent = disk'[mem'.day] /\ mem'.reserved = SumFunctionOnSet(Holds', OpenHolds')
          /\ mem'.reserved = SumFunctionOnSet(Holds', Sending') + SumFunctionOnSet(Opens, txs')
        BY <1>0, <1>11, <1>13, <2>1, <2>3
    <2>6. \A d \in Days : disk'[d] = SumFunctionOnSet(Amounts, Admitted(d)')
        BY <1>0, <2>2
    <2> QED
        BY <2>4, <2>5, <2>6 DEF MoneyInv, Amounts, Opens, Loads
<1> QED
    BY <1>12, <1>14, <1>16, <1>17 DEF IInv

-----------------------------------------------------------------------------
(* The invariant and what it implies.                                      *)

LEMMA InitInv == ASSUME Init PROVE IInv
<1>1. /\ service \in Services /\ req = [r \in Requests |-> Idle] /\ mem = [day |-> 0, spent |-> 0, reserved |-> 0] /\ disk = [d \in Days |-> 0]
      /\ today = 0 /\ txs = {} /\ relays = {} /\ faults = 0
    BY DEF Init
<1>2. 0 \in Days /\ 0 \in 0 .. MaxFaults /\ Prefund \in Nat
    BY Bounds DEF Days
<1>3. /\ Idle \in Req /\ Idle.stage = "idle" /\ Idle.answer = "none"
    BY <1>2 DEF Idle, Req, StageSet, Answers
<1>4. \A r \in Requests : req[r] = Idle
    BY <1>1
<1>5. chain \in Chain
    <2>1. PICK deposit, nonce, deployed : /\ deposit = [a \in Accounts |-> IF service = "pinned" THEN Prefund ELSE 0]
                                          /\ nonce = [a \in Accounts |-> 0] /\ deployed = (IF service = "bootstrap" THEN {} ELSE Accounts)
        OBVIOUS
    <2>2. deposit \in [Accounts -> Nat] /\ nonce \in [Accounts -> Nat] /\ deployed \in SUBSET Accounts
        BY <1>2, <2>1
    <2>3. chain = [deposit |-> deposit, nonce |-> nonce, revoked |-> {}, deployed |-> deployed]
        BY <2>1 DEF Init
    <2> QED
        BY <2>2, <2>3 DEF Chain
<1>6. Types
    <2>1. req \in [Requests -> Req] /\ disk \in [Days -> Nat] /\ mem \in [day : Days, spent : Nat, reserved : Nat]
        BY <1>1, <1>2, <1>3
    <2>2. IsFiniteSet(txs) /\ IsFiniteSet(relays)
        BY <1>1, FS_EmptySet
    <2> QED
        BY <1>1, <1>2, <1>5, <2>1, <2>2 DEF Types
<1>7. Working = {} /\ OpenHolds = {} /\ Sending = {} /\ \A d : Admitted(d) = {}
    BY <1>1, <1>3, <1>4 DEF Working, OpenHolds, Sending, Admitted, Stages
<1>8. FlightInv
    <2>1. \A r \in Requests : ReqOK(req[r])
        BY <1>3, <1>4 DEF ReqOK
    <2>2. Alone /\ Joined
        BY <1>3, <1>4, <1>7 DEF Alone, Joined
    <2> QED
        BY <1>1, <2>1, <2>2 DEF FlightInv
<1>9. GiftInv
    <2>1. \A r \in Requests : GiftOK(req[r])
        BY <1>3, <1>4, Standing
    <2> QED
        BY <1>1, <2>1 DEF GiftInv
<1>10. MoneyInv
    <2>1. SumFunctionOnSet(Holds, {}) = 0 /\ SumFunctionOnSet(Opens, {}) = 0 /\ SumFunctionOnSet(Amounts, {}) = 0 /\ SumFunctionOnSet(Loads, {}) = 0
        BY SumEmpty
    <2>2. mem.spent = 0 /\ mem.reserved = 0 /\ mem.day = 0 /\ \A d \in Days : disk[d] = 0
        BY <1>1
    <2>3. ASSUME NEW d PROVE {r \in Sending : req[r].day = d} = {}
        BY <1>7
    <2>4. \A d \in Days : SumFunctionOnSet(Loads, Admitted(d)) + SumFunctionOnSet(Holds, {r \in Sending : req[r].day = d}) <= DailyLimit
        BY <1>7, <2>1, <2>3, Bounds
    <2> QED
        BY <1>1, <1>2, <1>7, <2>1, <2>2, <2>4 DEF MoneyInv
<1> QED
    BY <1>6, <1>8, <1>9, <1>10 DEF IInv

LEMMA NextInv == ASSUME IInv, [Next]_vars PROVE IInv'
<1>1. ASSUME NEW r \in Requests, Step(r) PROVE IInv'
    BY <1>1, RefuseInv, CheckInv, CheckNonceInv, CheckFundsInv, CheckSignatureInv, HoldInv, SendOkInv, SendFailsInv, ReceiptInv,
       ReceiptTimeoutInv, SimulateInv, RelayOkInv, RelayFailsInv, ReadEventInv, EventTimeoutInv DEF Step
<1>2. ASSUME NEW r \in Requests, NEW op \in Ops, Arrive(r, op) PROVE IInv'
    BY <1>2, ArriveInv
<1>3. CASE MineSponsor \/ MineRelay \/ Midnight \/ Crash
    BY <1>3, MineSponsorInv, MineRelayInv, MidnightInv, CrashInv
<1>4. CASE UNCHANGED vars
    <2>1. UNCHANGED <<service, req, mem, disk>> /\ UNCHANGED <<txs, relays, chain>> /\ today' = today /\ UNCHANGED faults
        BY <1>4 DEF vars
    <2>2. today \in Days
        BY DEF IInv, Types
    <2> QED
        BY <2>1, <2>2, RestInv
<1> QED
    BY <1>1, <1>2, <1>3, <1>4 DEF Next

\* In every reachable state the flights, the gifts and the money are as IInv says: every open
\* hold has a request or a transaction behind it, an account has one flight at a time, and a
\* deposit that was seen to arrive is there until its nonce is used.
THEOREM Invariance == Spec => []IInv
<1>1. Init => IInv
    BY InitInv
<1>2. IInv /\ [Next]_vars => IInv'
    BY NextInv
<1> QED
    BY <1>1, <1>2, PTL DEF Spec

LEMMA InvTypes == IInv => TypeOK
<1> SUFFICES ASSUME IInv PROVE TypeOK
    OBVIOUS
<1>1. /\ service \in Services /\ mem \in [day : Days, spent : Nat, reserved : Nat] /\ disk \in [Days -> Nat] /\ today \in Days
      /\ faults \in 0 .. MaxFaults /\ chain \in Chain
    BY DEF IInv, Types
<1>2. \A r \in Requests : req[r].stage \in StageSet /\ req[r].answer \in Answers
    BY ReqTypes DEF IInv
<1>3. \A r \in Requests : req[r].stage = "joined" => \E q \in Working : SameFlight(req[q].op, req[r].op)
    BY DEF IInv, FlightInv, Joined
<1> QED
    BY <1>1, <1>2, <1>3 DEF TypeOK, StageSet, Answers, Chain

LEMMA InvExact == IInv => BudgetExact
<1> SUFFICES ASSUME IInv PROVE BudgetExact
    OBVIOUS
<1>1. mem.spent = disk[mem.day] /\ mem.reserved = SumFunctionOnSet(Holds, OpenHolds)
    BY DEF IInv, MoneyInv
<1>2. ASSUME NEW d \in Days PROVE disk[d] = SumFunctionOnSet([t \in txs |-> t.amount], Admitted(d))
    <2>1. PICK f : f = [t \in txs |-> t.amount]
        OBVIOUS
    <2>2. PICK D : D = Admitted(d)
        OBVIOUS
    <2>3. D \subseteq txs /\ IsFiniteSet(D) /\ txs \subseteq Tx
        BY <2>2, Finite DEF IInv, Admitted
    <2>4. \A t \in D : Amounts[t] \in Nat /\ f[t] = Amounts[t]
        BY <2>1, <2>3, TxValues
    <2>5. SumFunctionOnSet(f, D) = SumFunctionOnSet(Amounts, D)
        BY <2>3, <2>4, SumAgree
    <2>6. disk[d] = SumFunctionOnSet(Amounts, D)
        BY <2>2 DEF IInv, MoneyInv
    <2> QED
        BY <2>1, <2>2, <2>5, <2>6
<1> QED
    BY <1>1, <1>2 DEF BudgetExact, Holds

LEMMA InvBounded == IInv => DayBounded
<1> SUFFICES ASSUME IInv, NEW d \in Days
             PROVE  SumFunctionOnSet([t \in txs |-> t.cost], Admitted(d)) <= DailyLimit + SumFunctionOnSet([t \in txs |-> Unseen(t)], Admitted(d))
    BY DEF DayBounded
<1>1. PICK costs, unseen, both : /\ costs = [t \in txs |-> t.cost] /\ unseen = [t \in txs |-> Unseen(t)]
                                 /\ both = [t \in txs |-> Loads[t] + Unseen(t)]
    OBVIOUS
<1>2. PICK D : D = Admitted(d)
    OBVIOUS
<1>3. D \subseteq txs /\ IsFiniteSet(D) /\ txs \subseteq Tx /\ Types
    BY <1>2, Finite DEF IInv, Admitted
<1>4. ASSUME NEW t \in D
      PROVE  /\ costs[t] \in Nat /\ unseen[t] \in Nat /\ both[t] \in Nat /\ Loads[t] \in Nat
             /\ both[t] = Loads[t] + unseen[t] /\ costs[t] <= both[t]
    <2>1. t \in txs /\ t \in Tx /\ TxOK(t) /\ t.cost \in Nat /\ t.hold \in Nat /\ t.amount \in Nat /\ t.charge \in Charges
        BY <1>3, TxFacts
    <2>2. costs[t] = t.cost /\ unseen[t] = Unseen(t) /\ both[t] = Loads[t] + Unseen(t) /\ Loads[t] = Load(t)
        BY <1>1, <2>1, TxValues
    <2>3. Unseen(t) \in Nat /\ Load(t) \in Nat
        BY <2>1 DEF Unseen, Load
    <2>4. t.cost <= Load(t) + Unseen(t)
        <3>1. t.charge = "settled" => t.amount = t.cost \/ t.amount = t.hold
            BY <2>1 DEF TxOK
        <3> QED
            BY <2>1, <3>1 DEF Load, Unseen, Charges
    <2> QED
        BY <2>1, <2>2, <2>3, <2>4
<1>5. SumFunctionOnSet(both, D) = SumFunctionOnSet(Loads, D) + SumFunctionOnSet(unseen, D)
    BY <1>3, <1>4, SumPlus
<1>6. SumFunctionOnSet(costs, D) <= SumFunctionOnSet(both, D)
    BY <1>3, <1>4, SumMonotone
<1>7. SumFunctionOnSet(both, D) \in Nat /\ SumFunctionOnSet(Loads, D) \in Nat /\ SumFunctionOnSet(unseen, D) \in Nat /\ SumFunctionOnSet(costs, D) \in Nat
    BY <1>3, <1>4, SumType
<1>8. SumFunctionOnSet(Loads, D) <= DailyLimit
    <2>1. PICK B : B = {q \in Sending : req[q].day = d}
        OBVIOUS
    <2>2. SumFunctionOnSet(Loads, D) + SumFunctionOnSet(Holds, B) <= DailyLimit
        BY <1>2, <2>1 DEF IInv, MoneyInv
    <2>3. IsFiniteSet(B) /\ \A q \in B : Holds[q] \in Nat
        BY <1>3, <2>1, Finite DEF Sending
    <2>4. SumFunctionOnSet(Holds, B) \in Nat
        BY <2>3, SumType
    <2> QED
        BY <1>7, <2>2, <2>4, Bounds
<1>9. SumFunctionOnSet(costs, D) <= DailyLimit + SumFunctionOnSet(unseen, D)
    BY <1>5, <1>6, <1>7, <1>8, Bounds
<1> QED
    BY <1>1, <1>2, <1>9

\* SpendBudget's books are exact and the daily ceiling bounds what the sponsor really spends,
\* whatever settles after midnight, fails, times out or is lost in a crash.
THEOREM BudgetAlwaysHolds == Spec => []BudgetHolds
<1>1. IInv => BudgetHolds
    BY InvTypes, InvExact, InvBounded DEF BudgetHolds
<1> QED
    BY <1>1, Invariance, PTL

\* One gift per account and operation nonce: the sponsor pays again only for a transaction
\* that reverted or that it lost sight of.
THEOREM GiftsMadeOnce == Spec => []OneGift
<1>1. IInv => OneGift
    <2> SUFFICES ASSUME IInv, NEW t \in txs, NEW u \in txs, t.id < u.id, t.op.account = u.op.account, t.op.nonce = u.op.nonce
                 PROVE  t.status = "reverted" \/ ~t.known \/ \E h \in relays : h.op.account = t.op.account /\ ~h.known
        BY DEF OneGift
    <2>1. Over(t) \/ Lost(t.op.account)
        BY DEF IInv, GiftInv, SameGift
    <2> QED
        BY <2>1 DEF Over, Forgotten, Lost
<1> QED
    BY <1>1, Invariance, PTL

\* "success" is told only of an account that is deployed or a grant that is revoked, to the
\* request that led the flight and to those coalesced on it.
THEOREM AnswersAlwaysTruthful == Spec => []AnswerTruthful
<1>1. IInv => AnswerTruthful
    BY DEF IInv, FlightInv, ReqOK, Told, AnswerTruthful
<1> QED
    BY <1>1, Invariance, PTL

=============================================================================
