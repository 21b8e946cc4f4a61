--------------------------- MODULE PaywallProofs ---------------------------
(***************************************************************************)
(* Proofs about the hosted shop's paywall for every set of payments,       *)
(* identifiers, items and requests, and every number of crashes.           *)
(***************************************************************************)
EXTENDS SellerPaywall, FiniteSetTheorems, TLAPS

-----------------------------------------------------------------------------
(***************************************************************************)
(* The inductive invariant.  FlowInv follows a payment through one         *)
(* exchange, with no word about the tables; RowInv ties the tables to the  *)
(* exchanges, and needs that a prune spares the rows of exchanges under    *)
(* way; SentInv ties them to what went to /settle.                         *)
(***************************************************************************)
ReqOK(v) == v \in Request /\ (v.pc # "idle" => v.header \in Headers) /\ (v.pc = "told" => v.word \in Words)

TypeInv == TypeOK /\ \A q \in Requests : ReqOK(req[q])

\* No transaction was claimed for the payment, and none is being prepared.
Untouched(i) == stage[i] = "unseen" /\ flight[i] = "none"

\* The chain's verdict comes with its execution; a payment nobody presented is untouched,
\* and one presented once was new to the facilitator.
PayOK(i) ==
    /\ stage[i] \in {"unseen", "committed"} <=> result[i] = "open"
    /\ seen[i] = 0 => Untouched(i)
    /\ seen[i] = 1 => flight[i] # "known"

HeardOK(v) == v.pc = "told" /\ v.word = "settled" => result[v.header.intent] = "settled"

\* The answers the buyer's client reads as "rejected" or "unavailable".
Clean == {"offer", "conflict", "broken", "unavailable"}

\* A payment presented once is untouched until its exchange reaches /settle, and after it
\* was turned away.
OnceOK(v) ==
    v.pc # "idle" =>
        /\ seen[v.header.intent] # 0
        /\ seen[v.header.intent] = 1 =>
              /\ v.pc \in {"kind", "verify", "simulate", "settle"} => Untouched(v.header.intent)
              /\ v.pc = "told" /\ v.word \in {"rejected", "not_ready"} => Untouched(v.header.intent)
              /\ v.pc = "answered" /\ v.answer \in Clean => Untouched(v.header.intent)

Alone == \A p, q \in Requests :
    p # q /\ req[p].pc # "idle" /\ req[q].pc # "idle" /\ req[p].header.intent = req[q].header.intent
        => seen[req[p].header.intent] # 1

FlowInv ==
    /\ \A i \in Intents : PayOK(i)
    /\ \A q \in Requests : HeardOK(req[q]) /\ OnceOK(req[q])
    /\ Alone

\* The exchanges that have passed bind(): their identifier's row names their payment.
Bound == {"verify", "simulate", "settle", "settling", "told"}
BoundOK(v) == v.pc \in Bound /\ v.header.id \in Ids =>
    v.header.id \in DOMAIN bindings /\ bindings[v.header.id].intent = v.header.intent

RowOK(b) == b.paid # NoIntent => b.paid = b.intent /\ result[b.paid] = "settled"

RowInv ==
    /\ \A d \in DOMAIN bindings : RowOK(bindings[d])
    /\ \A i \in DOMAIN orders : result[i] = "settled"
    /\ \A q \in Requests : BoundOK(req[q])

SentInv == \A s \in sent : s[1] \in DOMAIN bindings /\ bindings[s[1]].intent = s[2]

Flow == TypeInv /\ FlowInv

\* An exchange under the identifier has passed bind() and is not answered.
InUse(d) == \E q \in Requests : req[q].pc \in Bound /\ req[q].header.id = d

Keeps(d) == d \in DOMAIN bindings' /\ bindings'[d].intent = bindings[d].intent

\* A step whose prune() drops no row that an exchange relies on, and one that drops no row
\* under which a payment was sent either.
SparesExchanges == \A d \in DOMAIN bindings : InUse(d) => Keeps(d)
SparesSent == \A d \in DOMAIN bindings : InUse(d) \/ (\E i \in Intents : <<d, i>> \in sent) => Keeps(d)

-----------------------------------------------------------------------------
(* Records.                                                                *)

LEMMA HeaderTypes ==
    ASSUME NEW h \in Headers PROVE h.intent \in Intents /\ h.id \in Ids \cup {NoId} /\ h.item \in Items
BY PaywallAssumption DEF Header

LEMMA IdleType == ReqOK(Idle) /\ Idle.pc = "idle" /\ Idle \in Request
BY PaywallAssumption DEF ReqOK, Idle, Request, Stages

LEMMA ReqTypes ==
    ASSUME TypeInv, NEW q \in Requests
    PROVE  /\ req \in [Requests -> Request] /\ req[q] \in Request /\ req[q].pc \in Stages
           /\ req[q].since \in 0 .. MaxTime /\ req[q].word \in Words \cup {"none"}
           /\ req[q].pc # "idle" => /\ req[q].header \in Headers /\ req[q].header.intent \in Intents
                                    /\ req[q].header.id \in Ids \cup {NoId} /\ req[q].header.item \in Items
           /\ req[q].pc = "told" => req[q].word \in Words
<1>1. req \in [Requests -> Request] /\ req[q] \in Request /\ ReqOK(req[q])
    BY DEF TypeInv, TypeOK
<1> QED
    BY <1>1, HeaderTypes DEF ReqOK, Request

\* One request changes.
OnlyReq(q, v) == req' = [p \in Requests |-> IF p = q THEN v ELSE req[p]]

LEMMA GotoIs ==
    ASSUME TypeInv, NEW q \in Requests, NEW s \in Stages, s # "told", s # "idle", req[q].pc # "idle", Goto(q, s)
    PROVE  \E v : OnlyReq(q, v) /\ ReqOK(v) /\ v.pc = s /\ v.header = req[q].header /\ v.word = req[q].word
<1>1. PICK v : v = [req[q] EXCEPT !.pc = s]
    OBVIOUS
<1>2. req \in [Requests -> Request] /\ req[q] \in Request /\ req[q].header \in Headers
    BY ReqTypes
<1>3. v \in Request /\ v.pc = s /\ v.header = req[q].header /\ v.word = req[q].word
    BY <1>1, <1>2 DEF Request
<1>4. OnlyReq(q, v)
    BY <1>1, <1>2 DEF OnlyReq, Goto, Request
<1> QED
    BY <1>2, <1>3, <1>4 DEF ReqOK

LEMMA AnsweredIs ==
    ASSUME TypeInv, NEW q \in Requests, NEW a \in Answers, req[q].pc # "idle", Answered(q, a)
    PROVE  \E v : OnlyReq(q, v) /\ ReqOK(v) /\ v.pc = "answered" /\ v.answer = a /\ v.header = req[q].header
<1>1. PICK v : v = [req[q] EXCEPT !.pc = "answered", !.answer = a]
    OBVIOUS
<1>2. req \in [Requests -> Request] /\ req[q] \in Request /\ req[q].header \in Headers
    BY ReqTypes
<1>3. v \in Request /\ v.pc = "answered" /\ v.answer = a /\ v.header = req[q].header
    BY <1>1, <1>2 DEF Request, Stages
<1>4. OnlyReq(q, v)
    BY <1>1, <1>2 DEF OnlyReq, Answered, Request
<1> QED
    BY <1>2, <1>3, <1>4 DEF ReqOK

\* deliver(): an order for the header's payment, or none, and an answer under a receipt.
LEMMA DeliverIs ==
    ASSUME TypeInv, NEW q \in Requests, req[q].pc # "idle", Deliver(q)
    PROVE  /\ \E v : OnlyReq(q, v) /\ ReqOK(v) /\ v.pc = "answered" /\ v.answer \in {"served", "unrecorded"} /\ v.header = req[q].header
           /\ DOMAIN orders' \subseteq Intents /\ orders' \in [DOMAIN orders' -> Items]
           /\ DOMAIN orders' \subseteq DOMAIN orders \cup {req[q].header.intent}
<1>0. PICK h : h = req[q].header
    OBVIOUS
<1>1. /\ req \in [Requests -> Request] /\ req[q] \in Request /\ h \in Headers /\ h.intent \in Intents /\ h.item \in Items
      /\ DOMAIN orders \subseteq Intents /\ orders \in [DOMAIN orders -> Items]
    BY <1>0, ReqTypes DEF TypeInv, TypeOK
<1>2. CASE /\ orders' = IF h.intent \in DOMAIN orders THEN orders ELSE With(orders, h.intent, h.item)
           /\ req' = [req EXCEPT ![q].pc = "answered", ![q].answer = "served", ![q].got = Ticket(h)]
    <2>1. Ticket(h) \in Items
        BY <1>1 DEF Ticket
    <2>2. PICK v : v = [req[q] EXCEPT !.pc = "answered", !.answer = "served", !.got = Ticket(h)]
        OBVIOUS
    <2>3. v \in Request /\ v.pc = "answered" /\ v.answer = "served" /\ v.header = h
        BY <1>0, <1>1, <2>1, <2>2 DEF Request, Stages, Answers
    <2>4. OnlyReq(q, v)
        <3> HIDE DEF Ticket
        <3> QED
            BY <1>1, <1>2, <2>2 DEF OnlyReq, Request
    <2>5. DOMAIN orders' \subseteq DOMAIN orders \cup {h.intent} /\ orders' \in [DOMAIN orders' -> Items]
        <3>1. CASE h.intent \in DOMAIN orders
            BY <1>1, <1>2, <3>1
        <3>2. CASE h.intent \notin DOMAIN orders
            BY <1>1, <1>2, <3>2 DEF With
        <3> QED
            BY <3>1, <3>2
    <2> QED
        BY <1>0, <1>1, <2>3, <2>4, <2>5 DEF ReqOK
<1>3. CASE Answered(q, "unrecorded") /\ UNCHANGED orders
    <2>1. "unrecorded" \in Answers
        BY DEF Answers
    <2>2. \E v : OnlyReq(q, v) /\ ReqOK(v) /\ v.pc = "answered" /\ v.answer = "unrecorded" /\ v.header = req[q].header
        BY <1>3, <2>1, AnsweredIs
    <2> QED
        BY <1>1, <1>3, <2>2
<1> QED
    BY <1>0, <1>2, <1>3 DEF Deliver

-----------------------------------------------------------------------------
(* The tables.                                                             *)

\* prune() only drops rows, and never a settled one.
LEMMA PruneIs ==
    ASSUME TypeInv, NEW table \in {bindings} \cup Prunings
    PROVE  /\ DOMAIN table \subseteq DOMAIN bindings /\ DOMAIN table \subseteq Ids /\ table \in [DOMAIN table -> Binding]
           /\ \A d \in DOMAIN table : table[d] = bindings[d]
           /\ \A d \in DOMAIN bindings : bindings[d].paid # NoIntent => d \in DOMAIN table
<1>1. DOMAIN bindings \subseteq Ids /\ bindings \in [DOMAIN bindings -> Binding]
    BY DEF TypeInv, TypeOK
<1>2. CASE table = bindings
    BY <1>1, <1>2
<1>3. CASE table \in Prunings
    <2> DEFINE unsettled == {d \in DOMAIN bindings : bindings[d].paid = NoIntent}
    <2>1. \E kept \in SUBSET unsettled : table = [d \in (DOMAIN bindings \ unsettled) \cup kept |-> bindings[d]]
        BY <1>3 DEF Prunings
    <2>2. PICK kept \in SUBSET unsettled : table = [d \in (DOMAIN bindings \ unsettled) \cup kept |-> bindings[d]]
        BY <2>1
    <2>3. DOMAIN table = (DOMAIN bindings \ unsettled) \cup kept
        BY <2>2
    <2> QED
        BY <1>1, <2>2, <2>3
<1> QED
    BY <1>2, <1>3

\* bind(): the row is there or was added, and an exchange that goes on is the one it names.
LEMMA BindIs ==
    ASSUME TypeInv, NEW q \in Requests, req[q].pc = "kind", req[q].header.id \in Ids,
           NEW table \in {bindings} \cup Prunings, Bind(q, table)
    PROVE  LET h == req[q].header IN
           /\ DOMAIN bindings' \subseteq Ids /\ bindings' \in [DOMAIN bindings' -> Binding]
           /\ DOMAIN orders' \subseteq Intents /\ orders' \in [DOMAIN orders' -> Items]
           /\ \A d \in DOMAIN table : d \in DOMAIN bindings' /\ bindings'[d] = bindings[d]
           /\ \A d \in DOMAIN bindings' \ DOMAIN table : bindings'[d].paid = NoIntent
           /\ \E v : /\ OnlyReq(q, v) /\ ReqOK(v) /\ v.header = h
                     /\ \/ v.pc = "verify" /\ h.id \in DOMAIN bindings' /\ bindings'[h.id].intent = h.intent
                        \/ v.pc = "answered" /\ v.answer \in {"charged", "conflict", "served", "unrecorded"}
           /\ \A i \in DOMAIN orders' \ DOMAIN orders :
                 i = h.intent /\ h.id \in DOMAIN bindings /\ bindings[h.id].intent = i /\ bindings[h.id].paid # NoIntent
<1>0. PICK h : h = req[q].header
    OBVIOUS
<1>1. /\ DOMAIN table \subseteq DOMAIN bindings /\ DOMAIN table \subseteq Ids /\ table \in [DOMAIN table -> Binding]
      /\ \A d \in DOMAIN table : table[d] = bindings[d]
    BY PruneIs
<1>2. /\ h \in Headers /\ h.intent \in Intents /\ h.item \in Items /\ h.id \in Ids /\ now \in 0 .. MaxTime
      /\ DOMAIN orders \subseteq Intents /\ orders \in [DOMAIN orders -> Items]
    BY <1>0, ReqTypes DEF TypeInv, TypeOK
<1>3. "verify" \in Stages /\ {"charged", "conflict"} \subseteq Answers
    BY DEF Stages, Answers
<1>4. CASE h.id \notin DOMAIN table
    <2> DEFINE b == [item |-> h.item, intent |-> h.intent, at |-> now, paid |-> NoIntent]
    <2>1. bindings' = With(table, h.id, b) /\ Goto(q, "verify") /\ orders' = orders
        BY <1>0, <1>4 DEF Bind
    <2>2. b \in Binding /\ b.intent = h.intent /\ b.paid = NoIntent
        BY <1>2 DEF Binding
    <2> HIDE DEF b
    <2>3. /\ DOMAIN bindings' = DOMAIN table \cup {h.id} /\ bindings'[h.id] = b /\ bindings' \in [DOMAIN bindings' -> Binding]
          /\ \A d \in DOMAIN table : bindings'[d] = table[d]
        BY <1>1, <1>4, <2>1, <2>2 DEF With
    <2>4. \E v : OnlyReq(q, v) /\ ReqOK(v) /\ v.pc = "verify" /\ v.header = h
        BY <1>0, <1>3, <2>1, GotoIs
    <2> QED
        BY <1>0, <1>1, <1>2, <2>1, <2>2, <2>3, <2>4
<1>5. CASE h.id \in DOMAIN table
    <2>0. PICK b : b = table[h.id]
        OBVIOUS
    <2>1. /\ bindings' = table
          /\ \/ /\ Answered(q, IF b.item = h.item /\ b.paid # NoIntent THEN "charged" ELSE "conflict")
                /\ UNCHANGED orders
             \/ /\ ~Conflicts(h, b) /\ b.paid = NoIntent
                /\ Goto(q, "verify")
                /\ UNCHANGED orders
             \/ ~Conflicts(h, b) /\ b.paid # NoIntent /\ Deliver(q)
        BY <1>0, <1>5, <2>0 DEF Bind
    <2>2. b = bindings[h.id] /\ h.id \in DOMAIN bindings /\ h.id \in DOMAIN bindings' /\ bindings'[h.id] = b
        BY <1>1, <1>5, <2>0, <2>1
    <2>3. CASE Answered(q, IF b.item = h.item /\ b.paid # NoIntent THEN "charged" ELSE "conflict") /\ UNCHANGED orders
        <3>1. PICK a \in {"charged", "conflict"} : Answered(q, a)
            BY <2>3
        <3>2. \E v : OnlyReq(q, v) /\ ReqOK(v) /\ v.pc = "answered" /\ v.answer = a /\ v.header = h
            BY <1>0, <1>3, <3>1, AnsweredIs
        <3> QED
            BY <1>0, <1>1, <1>2, <2>1, <2>3, <3>2
    <2>4. CASE ~Conflicts(h, b) /\ b.paid = NoIntent /\ Goto(q, "verify") /\ UNCHANGED orders
        <3>1. b.intent = h.intent
            BY <2>4 DEF Conflicts
        <3>2. \E v : OnlyReq(q, v) /\ ReqOK(v) /\ v.pc = "verify" /\ v.header = h
            BY <1>0, <1>3, <2>4, GotoIs
        <3> QED
            BY <1>0, <1>1, <1>2, <2>1, <2>2, <2>4, <3>1, <3>2
    <2>5. CASE ~Conflicts(h, b) /\ b.paid # NoIntent /\ Deliver(q)
        <3>1. b.intent = h.intent
            BY <2>5 DEF Conflicts
        <3>2. /\ \E v : OnlyReq(q, v) /\ ReqOK(v) /\ v.pc = "answered" /\ v.answer \in {"served", "unrecorded"} /\ v.header = h
              /\ DOMAIN orders' \subseteq Intents /\ orders' \in [DOMAIN orders' -> Items]
              /\ DOMAIN orders' \subseteq DOMAIN orders \cup {h.intent}
            BY <1>0, <2>5, DeliverIs
        <3> QED
            BY <1>0, <1>1, <2>1, <2>2, <2>5, <3>1, <3>2
    <2> QED
        BY <2>1, <2>3, <2>4, <2>5
<1> QED
    BY <1>4, <1>5

\* record(): one unsettled row of the header's identifier is marked, or nothing is.
LEMMA RecordIs ==
    ASSUME TypeInv, NEW h \in Headers, Record(h)
    PROVE  /\ DOMAIN bindings' = DOMAIN bindings /\ bindings' \in [DOMAIN bindings -> Binding]
           /\ \A d \in DOMAIN bindings : bindings'[d].intent = bindings[d].intent
           /\ \A d \in DOMAIN bindings : \/ bindings'[d] = bindings[d]
                                         \/ d = h.id /\ bindings[d].paid = NoIntent /\ bindings'[d].paid = h.intent
<1>1. bindings \in [DOMAIN bindings -> Binding] /\ h.intent \in Intents
    BY HeaderTypes DEF TypeInv, TypeOK
<1>2. CASE UNCHANGED bindings
    BY <1>1, <1>2
<1>3. CASE h.id \in DOMAIN bindings /\ bindings[h.id].paid = NoIntent /\ bindings' = [bindings EXCEPT ![h.id].paid = h.intent]
    <2>1. PICK b : b = [bindings[h.id] EXCEPT !.paid = h.intent]
        OBVIOUS
    <2>2. b \in Binding /\ b.paid = h.intent /\ b.intent = bindings[h.id].intent
        BY <1>1, <1>3, <2>1 DEF Binding
    <2>3. bindings' = [d \in DOMAIN bindings |-> IF d = h.id THEN b ELSE bindings[d]]
        BY <1>1, <1>3, <2>1 DEF Binding
    <2> QED
        BY <1>1, <1>3, <2>2, <2>3
<1> QED
    BY <1>2, <1>3 DEF Record

-----------------------------------------------------------------------------
(* The seller's steps, seen from the exchange.                             *)

\* How an exchange may move.
Legal(u, v) ==
    /\ v.header = u.header /\ u.pc \notin {"idle", "answered"} /\ v.pc \notin {"idle", "told", "kind"}
    /\ v.pc \in {"verify", "simulate", "settle"} => u.pc \in {"kind", "verify", "simulate"}
    /\ v.pc \in Bound /\ u.pc = "kind" => v.pc = "verify"
    /\ v.pc = "answered" /\ v.answer \in Clean =>
          u.pc \in {"kind", "verify", "simulate", "settle"} \/ (u.pc = "told" /\ u.word \in {"rejected", "not_ready"})

\* What the turns of the seller change besides the exchange.
Tables == /\ DOMAIN bindings' \subseteq Ids /\ bindings' \in [DOMAIN bindings' -> Binding]
          /\ DOMAIN orders' \subseteq Intents /\ orders' \in [DOMAIN orders' -> Items]
          /\ kind' \in BOOLEAN

LEMMA TablesKept == ASSUME TypeInv, UNCHANGED storeVars, kind' \in {kind, TRUE} PROVE Tables
BY DEF TypeInv, TypeOK, Tables, storeVars

LEMMA SellerMoves ==
    ASSUME TypeInv, NEW q \in Requests, SellerStep(q)
    PROVE  (\E v : OnlyReq(q, v) /\ ReqOK(v) /\ Legal(req[q], v)) /\ Tables
<1>0. {"verify", "simulate", "settle", "settling"} \subseteq Stages /\ {"unavailable", "broken", "offer", "unknown"} \subseteq Answers
    BY DEF Stages, Answers
<1>a. ASSUME NEW a \in Answers, Answered(q, a), req[q].pc \notin {"idle", "answered"},
             a \in Clean => req[q].pc \in {"kind", "verify", "simulate", "settle"} \/ (req[q].pc = "told" /\ req[q].word \in {"rejected", "not_ready"})
      PROVE  \E v : OnlyReq(q, v) /\ ReqOK(v) /\ Legal(req[q], v)
    <2>1. PICK v : OnlyReq(q, v) /\ ReqOK(v) /\ v.pc = "answered" /\ v.answer = a /\ v.header = req[q].header
        BY <1>a, AnsweredIs
    <2> QED
        BY <1>a, <2>1 DEF Legal, Bound
<1>g. ASSUME NEW s \in {"verify", "simulate", "settle", "settling"}, Goto(q, s), req[q].pc \notin {"idle", "answered"},
             s \in {"verify", "simulate", "settle"} => req[q].pc \in {"kind", "verify", "simulate"},
             req[q].pc = "kind" => s = "verify"
      PROVE  \E v : OnlyReq(q, v) /\ ReqOK(v) /\ Legal(req[q], v)
    <2>1. PICK v : OnlyReq(q, v) /\ ReqOK(v) /\ v.pc = s /\ v.header = req[q].header
        BY <1>0, <1>g, GotoIs
    <2> QED
        BY <1>g, <2>1 DEF Legal, Bound
<1>1. CASE KindFails(q)
    <2>1. req[q].pc = "kind" /\ Answered(q, "unavailable") /\ UNCHANGED storeVars /\ kind' = kind
        BY <1>1 DEF KindFails
    <2>2. Tables
        BY <2>1, TablesKept
    <2> QED
        BY <1>0, <1>a, <2>1, <2>2
<1>2. CASE StoreFails(q)
    <2>1. req[q].pc = "kind" /\ Answered(q, "broken") /\ UNCHANGED storeVars /\ kind' = TRUE
        BY <1>2 DEF StoreFails
    <2>2. Tables
        BY <2>1, TablesKept
    <2> QED
        BY <1>0, <1>a, <2>1, <2>2
<1>3. CASE Admit(q)
    <2>0. req[q].pc = "kind" /\ kind' = TRUE
        BY <1>3 DEF Admit
    <2>1. CASE req[q].header.id = NoId
        <3>1. Goto(q, "verify") /\ UNCHANGED storeVars
            BY <1>3, <2>1 DEF Admit
        <3> QED
            BY <1>g, <2>0, <3>1, TablesKept
    <2>2. CASE req[q].header.id # NoId
        <3>1. PICK table \in {bindings} \cup Prunings : Bind(q, table)
            BY <1>3, <2>2 DEF Admit
        <3>2. req[q].header.id \in Ids
            BY <2>0, <2>2, ReqTypes
        <3>3. /\ DOMAIN bindings' \subseteq Ids /\ bindings' \in [DOMAIN bindings' -> Binding]
              /\ DOMAIN orders' \subseteq Intents /\ orders' \in [DOMAIN orders' -> Items]
              /\ \E v : /\ OnlyReq(q, v) /\ ReqOK(v) /\ v.header = req[q].header
                        /\ \/ v.pc = "verify"
                           \/ v.pc = "answered" /\ v.answer \in {"charged", "conflict", "served", "unrecorded"}
            BY <2>0, <3>1, <3>2, BindIs
        <3>4. PICK v : /\ OnlyReq(q, v) /\ ReqOK(v) /\ v.header = req[q].header
                       /\ \/ v.pc = "verify"
                          \/ v.pc = "answered" /\ v.answer \in {"charged", "conflict", "served", "unrecorded"}
            BY <3>3
        <3>5. Legal(req[q], v)
            BY <2>0, <3>4 DEF Legal, Bound, Clean
        <3> QED
            BY <2>0, <3>3, <3>4, <3>5 DEF Tables
    <2> QED
        BY <2>1, <2>2
<1>4. CASE LookUp(q)
    <2>1. req[q].pc = "verify" /\ UNCHANGED <<storeVars, kind>>
        BY <1>4 DEF LookUp
    <2>2. Goto(q, "simulate") \/ Answered(q, "offer") \/ Goto(q, "settle")
        BY <1>4 DEF LookUp
    <2>3. Tables
        BY <2>1, TablesKept
    <2>4. "offer" \in Answers
        BY <1>0
    <2> QED
        BY <1>a, <1>g, <2>1, <2>2, <2>3, <2>4
<1>5. CASE Simulated(q)
    <2>1. req[q].pc = "simulate" /\ UNCHANGED <<storeVars, kind>> /\ (Goto(q, "settle") \/ Answered(q, "offer"))
        BY <1>5 DEF Simulated
    <2>2. Tables
        BY <2>1, TablesKept
    <2>3. "offer" \in Answers
        BY <1>0
    <2> QED
        BY <1>a, <1>g, <2>1, <2>2, <2>3
<1>6. CASE TurnedAway(q)
    <2>1. req[q].pc \in {"verify", "simulate", "settle"} /\ Answered(q, "unavailable") /\ UNCHANGED storeVars /\ kind' = kind
        BY <1>6 DEF TurnedAway
    <2>2. Tables
        BY <2>1, TablesKept
    <2> QED
        BY <1>0, <1>a, <2>1, <2>2
<1>7. CASE TakeIn(q)
    BY <1>7, <1>g, TablesKept DEF TakeIn
<1>8. CASE SettleLost(q)
    BY <1>0, <1>8, <1>a, TablesKept DEF SettleLost, Clean
<1>9. CASE Hear(q)
    <2>0. req[q].pc = "told" /\ kind' = kind /\ req[q].word \in Words /\ req[q].header \in Headers
        BY <1>9, ReqTypes DEF Hear
    <2>1. CASE Sold(req[q].word) /\ Record(req[q].header) /\ Deliver(q)
        <3>1. DOMAIN bindings' = DOMAIN bindings /\ bindings' \in [DOMAIN bindings -> Binding]
            BY <2>0, <2>1, RecordIs
        <3>2. /\ \E v : OnlyReq(q, v) /\ ReqOK(v) /\ v.pc = "answered" /\ v.answer \in {"served", "unrecorded"} /\ v.header = req[q].header
              /\ DOMAIN orders' \subseteq Intents /\ orders' \in [DOMAIN orders' -> Items]
            BY <2>0, <2>1, DeliverIs
        <3>3. PICK v : OnlyReq(q, v) /\ ReqOK(v) /\ v.pc = "answered" /\ v.answer \in {"served", "unrecorded"} /\ v.header = req[q].header
            BY <3>2
        <3>4. Legal(req[q], v)
            BY <2>0, <3>3 DEF Legal, Bound, Clean
        <3> QED
            BY <2>0, <3>1, <3>2, <3>3, <3>4 DEF Tables, TypeInv, TypeOK
    <2>2. CASE ~(Sold(req[q].word) /\ Record(req[q].header) /\ Deliver(q))
        <3>0. PICK word : word = req[q].word
            OBVIOUS
        <3>1. PICK a : a = (CASE word = "not_ready" -> "unavailable"
                           [] word \in {"pending", "unexpected_settle_error"} -> "unknown"
                           [] word = "settlement_reverted" -> "offer_hash"
                           [] word = "vendor_not_credited" -> "misdirected"
                           [] OTHER -> "offer")
            OBVIOUS
        <3>2. ~Sold(word) /\ Answered(q, a) /\ UNCHANGED storeVars
            BY <1>9, <2>2, <3>0, <3>1 DEF Hear
        <3>3. a \in {"unavailable", "unknown", "offer_hash", "misdirected", "offer"}
            BY <3>1
        <3>4. a \in Clean => word \in {"rejected", "not_ready"}
            BY <2>0, <3>0, <3>1, <3>2 DEF Clean, Words, Sold
        <3>5. a \in Answers
            BY <3>3 DEF Answers
        <3> QED
            BY <1>a, <2>0, <3>0, <3>2, <3>4, <3>5, TablesKept
    <2> QED
        BY <2>1, <2>2
<1> QED
    BY <1>1, <1>2, <1>3, <1>4, <1>5, <1>6, <1>7, <1>8, <1>9 DEF SellerStep

-----------------------------------------------------------------------------
(* Flow is inductive.                                                      *)

LEMMA FlowInit == ASSUME Init PROVE Flow
<1>1. /\ stage = [i \in Intents |-> "unseen"] /\ result = [i \in Intents |-> "open"]
      /\ flight = [i \in Intents |-> "none"] /\ seen = [i \in Intents |-> 0]
      /\ req = [q \in Requests |-> Idle] /\ bindings = [d \in {} |-> 0] /\ orders = [i \in {} |-> 0]
      /\ kind = FALSE /\ sent = {} /\ now = 0 /\ crashes = 0
    BY DEF Init, Facilitator!Init
<1>2. \A q \in Requests : req[q] = Idle /\ req[q].pc = "idle" /\ ReqOK(req[q])
    BY <1>1, IdleType
<1>3. TypeOK
    <2>1. stage \in [Intents -> Facilitator!Stage] /\ result \in [Intents -> Facilitator!Result]
        BY <1>1 DEF Facilitator!Stage, Facilitator!Result
    <2>2. flight \in [Intents -> {"none", "new", "known"}] /\ seen \in [Intents -> 0 .. 2] /\ req \in [Requests -> Request]
        BY <1>1, IdleType
    <2>3. DOMAIN bindings = {} /\ bindings \in [DOMAIN bindings -> Binding]
        BY <1>1
    <2>4. DOMAIN orders = {} /\ orders \in [DOMAIN orders -> Items]
        BY <1>1
    <2>5. now \in 0 .. MaxTime /\ crashes \in 0 .. MaxCrashes
        BY <1>1, PaywallAssumption
    <2>6. kind \in BOOLEAN /\ sent \subseteq Ids \X Intents
        BY <1>1
    <2> QED
        BY <2>1, <2>2, <2>3, <2>4, <2>5, <2>6 DEF TypeOK
<1>4. FlowInv
    BY <1>1, <1>2 DEF FlowInv, PayOK, Untouched, HeardOK, OnceOK, Alone
<1> QED
    BY <1>2, <1>3, <1>4 DEF Flow, TypeInv

\* The types of the requests, after one of them changed.
LEMMA ReqKept ==
    ASSUME TypeInv, NEW q \in Requests, NEW v, OnlyReq(q, v), ReqOK(v)
    PROVE  /\ req' \in [Requests -> Request] /\ \A p \in Requests : ReqOK(req'[p])
           /\ req'[q] = v /\ \A p \in Requests : p # q => req'[p] = req[p]
<1>1. req \in [Requests -> Request] /\ \A p \in Requests : ReqOK(req[p])
    BY DEF TypeInv, TypeOK
<1> QED
    BY <1>1 DEF OnlyReq, ReqOK

\* What the invariant says of one exchange.
LEMMA FlowOf ==
    ASSUME Flow
    PROVE  /\ \A i \in Intents : PayOK(i)
           /\ \A q \in Requests : HeardOK(req[q]) /\ OnceOK(req[q]) /\ ReqOK(req[q])
           /\ Alone /\ TypeInv
BY DEF Flow, FlowInv, TypeInv

\* A legal move of one exchange that leaves the payments alone.
LEMMA FlowMove ==
    ASSUME Flow, NEW q \in Requests, NEW v, OnlyReq(q, v), ReqOK(v), Legal(req[q], v),
           UNCHANGED <<stage, result, flight, seen>>
    PROVE  FlowInv'
<1>1. /\ \A p \in Requests : req[p].pc # "idle" => req[p].header.intent \in Intents
      /\ req'[q] = v /\ \A p \in Requests : p # q => req'[p] = req[p]
    BY FlowOf, ReqTypes, ReqKept
<1>2. \A i \in Intents : PayOK(i)'
    BY FlowOf DEF PayOK, Untouched
<1>3. HeardOK(v)' /\ OnceOK(v)'
    BY FlowOf DEF HeardOK, OnceOK, Legal, Clean, Untouched
<1>4. \A p \in Requests : HeardOK(req[p])' /\ OnceOK(req[p])'
    BY <1>1, <1>3, FlowOf DEF HeardOK, OnceOK, Untouched
<1>5. Alone'
    BY <1>1, FlowOf DEF Alone, Legal
<1> QED
    BY <1>2, <1>4, <1>5 DEF FlowInv

\* /settle takes a payment in.
LEMMA FlowTakeIn ==
    ASSUME Flow, NEW q \in Requests, TakeIn(q) PROVE FlowInv'
<1>0. PICK i : i = req[q].header.intent
    OBVIOUS
<1>1. /\ req[q].pc = "settle" /\ Goto(q, "settling") /\ UNCHANGED <<stage, result, seen>>
      /\ flight' = [flight EXCEPT ![i] = CASE @ # "none" -> @
                                           [] stage[i] = "unseen" -> "new"
                                           [] OTHER -> "known"]
    BY <1>0 DEF TakeIn, sellerFrame, paymentVars
<1>2. "settling" \in Stages
    BY DEF Stages
<1>3. PICK v : OnlyReq(q, v) /\ ReqOK(v) /\ v.pc = "settling" /\ v.header = req[q].header
    BY <1>1, <1>2, GotoIs, FlowOf
<1>4. /\ \A p \in Requests : req[p].pc # "idle" => req[p].header.intent \in Intents
      /\ req'[q] = v /\ \A p \in Requests : p # q => req'[p] = req[p]
    BY <1>3, FlowOf, ReqTypes, ReqKept
<1>5. /\ i \in Intents /\ flight \in [Intents -> {"none", "new", "known"}]
      /\ seen[i] # 0 /\ (seen[i] = 1 => stage[i] = "unseen" /\ flight[i] = "none")
    BY <1>0, <1>1, <1>4, FlowOf DEF OnceOK, Untouched, TypeInv, TypeOK
<1>6. (\A j \in Intents : j # i => flight'[j] = flight[j]) /\ (seen[i] = 1 => flight'[i] = "new")
    BY <1>1, <1>5
<1>7. \A j \in Intents : PayOK(j)'
    BY <1>1, <1>5, <1>6, FlowOf DEF PayOK, Untouched
<1>8. \A p \in Requests : HeardOK(req[p])' /\ OnceOK(req[p])'
    <2>1. HeardOK(v)' /\ OnceOK(v)'
        BY <1>0, <1>1, <1>3, <1>5 DEF HeardOK, OnceOK
    <2> SUFFICES ASSUME NEW p \in Requests, p # q PROVE HeardOK(req[p])' /\ OnceOK(req[p])'
        BY <1>4, <2>1
    <2>2. req'[p] = req[p] /\ HeardOK(req[p]) /\ OnceOK(req[p])
        BY <1>4, FlowOf
    <2>3. HeardOK(req[p])'
        BY <1>1, <2>2 DEF HeardOK
    <2>4. CASE req[p].pc = "idle"
        BY <2>2, <2>3, <2>4 DEF OnceOK
    <2>5. CASE req[p].pc # "idle" /\ req[p].header.intent = i
        <3>1. seen[i] # 1
            BY <1>0, <1>1, <2>5, FlowOf DEF Alone
        <3> QED
            BY <1>1, <2>2, <2>3, <2>5, <3>1 DEF OnceOK
    <2>6. CASE req[p].pc # "idle" /\ req[p].header.intent # i
        BY <1>1, <1>4, <1>6, <2>2, <2>3, <2>6 DEF OnceOK, Untouched
    <2> QED
        BY <2>4, <2>5, <2>6
<1>9. Alone'
    BY <1>0, <1>1, <1>3, <1>4, FlowOf DEF Alone
<1> QED
    BY <1>7, <1>8, <1>9 DEF FlowInv

LEMMA FlowSeller ==
    ASSUME Flow, NEW q \in Requests, SellerStep(q) PROVE Flow'
<1>1. TypeInv
    BY FlowOf
<1>2. PICK v : OnlyReq(q, v) /\ ReqOK(v) /\ Legal(req[q], v)
    BY <1>1, SellerMoves
<1>3. Tables
    BY <1>1, SellerMoves
<1>4. req' \in [Requests -> Request] /\ \A p \in Requests : ReqOK(req'[p])
    BY <1>1, <1>2, ReqKept
<1>5. UNCHANGED <<stage, result, seen, now, crashes>>
    BY DEF SellerStep, KindFails, StoreFails, Admit, LookUp, Simulated, TurnedAway, TakeIn, SettleLost, Hear,
           sellerFrame, paymentVars
<1>6. TakeIn(q) \/ UNCHANGED <<flight, sent>>
    BY DEF SellerStep, KindFails, StoreFails, Admit, LookUp, Simulated, TurnedAway, SettleLost, Hear
<1>7. flight' \in [Intents -> {"none", "new", "known"}] /\ sent' \subseteq Ids \X Intents
    <2>1. flight \in [Intents -> {"none", "new", "known"}] /\ sent \subseteq Ids \X Intents
        BY <1>1 DEF TypeInv, TypeOK
    <2>2. CASE TakeIn(q)
        <3>1. req[q].pc # "idle" /\ req[q].header.intent \in Intents
            BY <1>1, <2>2, ReqTypes DEF TakeIn
        <3> QED
            BY <2>1, <2>2, <3>1 DEF TakeIn
    <2> QED
        BY <1>6, <2>1, <2>2
<1>8. TypeInv'
    BY <1>1, <1>3, <1>4, <1>5, <1>7 DEF TypeInv, TypeOK, Tables
<1>9. FlowInv'
    BY <1>2, <1>5, <1>6, FlowMove, FlowTakeIn
<1> QED
    BY <1>8, <1>9 DEF Flow

\* The steps that leave the payments and the tables' types alone.
LEMMA TypeFrame ==
    ASSUME TypeInv, req' \in [Requests -> Request], \A q \in Requests : ReqOK(req'[q]),
           stage' \in [Intents -> Facilitator!Stage], result' \in [Intents -> Facilitator!Result],
           flight' \in [Intents -> {"none", "new", "known"}], seen' \in [Intents -> 0 .. 2],
           kind' \in BOOLEAN, now' \in 0 .. MaxTime, crashes' \in 0 .. MaxCrashes, UNCHANGED <<storeVars, sent>>
    PROVE  TypeInv'
BY DEF TypeInv, TypeOK, storeVars

LEMMA TypeParts ==
    ASSUME TypeInv
    PROVE  /\ stage \in [Intents -> Facilitator!Stage] /\ result \in [Intents -> Facilitator!Result]
           /\ flight \in [Intents -> {"none", "new", "known"}] /\ seen \in [Intents -> 0 .. 2]
           /\ req \in [Requests -> Request] /\ \A q \in Requests : ReqOK(req[q])
           /\ kind \in BOOLEAN /\ now \in 0 .. MaxTime /\ crashes \in 0 .. MaxCrashes
BY DEF TypeInv, TypeOK

LEMMA FlowProgress ==
    ASSUME Flow, NEW i \in Intents, Progress(i) PROVE Flow'
<1>0. /\ UNCHANGED <<flight, req, storeVars, kind, seen, sent, now, crashes>>
      /\ \/ flight[i] # "none" /\ stage[i] = "unseen" /\ stage' = [stage EXCEPT ![i] = "committed"] /\ result' = result
         \/ /\ stage[i] = "committed" /\ stage' = [stage EXCEPT ![i] = "executed"]
            /\ \E o \in Facilitator!Outcome : result' = [result EXCEPT ![i] = o]
         \/ stage[i] = "executed" /\ stage' = [stage EXCEPT ![i] = "accounted"] /\ result' = result
    BY Zenon DEF Progress, facilitatorFrame, Facilitator!Commit, Facilitator!Execute, Facilitator!Account
<1>1. /\ stage \in [Intents -> Facilitator!Stage] /\ result \in [Intents -> Facilitator!Result]
      /\ TypeInv
    BY TypeParts, FlowOf
<1>2. /\ \A j \in Intents : j # i => stage'[j] = stage[j] /\ result'[j] = result[j]
      /\ ~Untouched(i) /\ (result[i] # "open" => result'[i] = result[i])
      /\ stage'[i] \in {"unseen", "committed"} <=> result'[i] = "open"
      /\ stage' \in [Intents -> Facilitator!Stage] /\ result' \in [Intents -> Facilitator!Result]
    <2>0. PayOK(i)
        BY FlowOf
    <2>1. CASE flight[i] # "none" /\ stage[i] = "unseen" /\ stage' = [stage EXCEPT ![i] = "committed"] /\ result' = result
        BY <1>1, <2>0, <2>1 DEF PayOK, Untouched, Facilitator!Stage
    <2>2. CASE stage[i] = "committed" /\ stage' = [stage EXCEPT ![i] = "executed"]
               /\ \E o \in Facilitator!Outcome : result' = [result EXCEPT ![i] = o]
        BY <1>1, <2>0, <2>2 DEF PayOK, Untouched, Facilitator!Stage, Facilitator!Result, Facilitator!Outcome
    <2>3. CASE stage[i] = "executed" /\ stage' = [stage EXCEPT ![i] = "accounted"] /\ result' = result
        BY <1>1, <2>0, <2>3 DEF PayOK, Untouched, Facilitator!Stage
    <2> QED
        BY <1>0, <2>1, <2>2, <2>3
<1>3. TypeInv'
    BY <1>0, <1>1, <1>2, TypeFrame, TypeParts
<1>4. UNCHANGED <<flight, req, seen>>
    BY <1>0
<1>5. seen[i] # 0
    BY <1>2, FlowOf DEF PayOK
<1>6. \A j \in Intents : PayOK(j)'
    BY <1>2, <1>4, <1>5, FlowOf DEF PayOK, Untouched
<1>7. \A q \in Requests : HeardOK(req[q])' /\ OnceOK(req[q])'
    <2> SUFFICES ASSUME NEW q \in Requests PROVE HeardOK(req[q])' /\ OnceOK(req[q])'
        OBVIOUS
    <2>1. HeardOK(req[q]) /\ OnceOK(req[q]) /\ (req[q].pc # "idle" => req[q].header.intent \in Intents)
        BY <1>1, FlowOf, ReqTypes
    <2>2. HeardOK(req[q])'
        BY <1>2, <1>4, <2>1 DEF HeardOK
    <2>3. OnceOK(req[q])'
        BY <1>2, <1>4, <2>1 DEF OnceOK, Untouched
    <2> QED
        BY <2>2, <2>3
<1>8. Alone'
    BY <1>4, FlowOf DEF Alone
<1> QED
    BY <1>3, <1>6, <1>7, <1>8 DEF Flow, FlowInv

\* An operation resolves; only a refusal or an early "not ready" leaves a payment presented
\* once untouched, and only the chain's verdict is told as one.
LEMMA FlowTell ==
    ASSUME Flow, NEW i \in Intents, NEW word \in Words, Tell(i, word),
           word = "settled" => result[i] = "settled",
           word \in {"rejected", "not_ready"} /\ seen[i] = 1 => stage[i] = "unseen"
    PROVE  Flow'
<1>0. /\ UNCHANGED <<stage, result, storeVars, kind, seen, sent, now, crashes>>
      /\ flight' = [flight EXCEPT ![i] = "none"]
      /\ req' = [q \in Requests |-> IF req[q].pc = "settling" /\ req[q].header.intent = i
                                    THEN [req[q] EXCEPT !.pc = "told", !.word = word] ELSE req[q]]
    BY Zenon DEF Tell, facilitatorFrame, paymentVars
<1>1. /\ flight \in [Intents -> {"none", "new", "known"}] /\ req \in [Requests -> Request] /\ TypeInv
    BY TypeParts, FlowOf
<1>2. ASSUME NEW q \in Requests
      PROVE  /\ ReqOK(req'[q]) /\ req'[q] \in Request
             /\ req'[q].pc = "idle" <=> req[q].pc = "idle"
             /\ req'[q].header = req[q].header
             /\ \/ req'[q] = req[q]
                \/ req[q].pc = "settling" /\ req[q].header.intent = i /\ req'[q].pc = "told" /\ req'[q].word = word
    <2>1. ReqOK(req[q]) /\ req[q] \in Request
        BY <1>1, FlowOf
    <2>2. CASE req[q].pc = "settling" /\ req[q].header.intent = i
        <3>1. PICK v : v = [req[q] EXCEPT !.pc = "told", !.word = word]
            OBVIOUS
        <3>2. req'[q] = v
            BY <1>0, <2>2, <3>1
        <3>3. v \in Request /\ v.pc = "told" /\ v.word = word /\ v.header = req[q].header
            BY <2>1, <3>1 DEF Request, Stages
        <3> QED
            BY <2>1, <2>2, <3>2, <3>3 DEF ReqOK
    <2>3. CASE ~(req[q].pc = "settling" /\ req[q].header.intent = i)
        BY <1>0, <2>1, <2>3
    <2> QED
        BY <2>2, <2>3
<1>3. req' \in [Requests -> Request]
    BY <1>0, <1>2
<1>4. /\ flight' \in [Intents -> {"none", "new", "known"}] /\ flight'[i] = "none"
      /\ \A j \in Intents : j # i => flight'[j] = flight[j]
      /\ UNCHANGED <<stage, result, seen>>
    BY <1>0, <1>1
<1>5. TypeInv'
    BY <1>0, <1>1, <1>2, <1>3, <1>4, TypeFrame, TypeParts
<1>6. \A j \in Intents : PayOK(j)'
    BY <1>4, FlowOf DEF PayOK, Untouched
<1>7. \A q \in Requests : HeardOK(req[q])' /\ OnceOK(req[q])'
    <2> SUFFICES ASSUME NEW q \in Requests PROVE HeardOK(req[q])' /\ OnceOK(req[q])'
        OBVIOUS
    <2>1. HeardOK(req[q]) /\ OnceOK(req[q]) /\ (req[q].pc # "idle" => req[q].header.intent \in Intents)
        BY <1>1, FlowOf, ReqTypes
    <2>2. CASE req'[q] = req[q]
        BY <1>4, <2>1, <2>2 DEF HeardOK, OnceOK, Untouched
    <2>3. CASE req[q].pc = "settling" /\ req[q].header.intent = i /\ req'[q].pc = "told" /\ req'[q].word = word
        <3>1. req'[q].header.intent = i /\ seen[i] # 0
            BY <1>2, <2>1, <2>3 DEF OnceOK
        <3> QED
            BY <1>4, <2>3, <3>1 DEF HeardOK, OnceOK, Untouched
    <2> QED
        BY <1>2, <2>2, <2>3
<1>8. Alone'
    BY <1>2, <1>4, FlowOf DEF Alone
<1> QED
    BY <1>5, <1>6, <1>7, <1>8 DEF Flow, FlowInv

LEMMA FlowFacilitator ==
    ASSUME Flow, NEW i \in Intents, FacilitatorStep(i) PROVE Flow'
<1>0. {"rejected", "unexpected_settle_error", "not_ready", "pending"} \subseteq Words
    BY DEF Words
<1>1. CASE Progress(i)
    BY <1>1, FlowProgress
<1>2. CASE Refuse(i)
    BY <1>0, <1>2, FlowTell DEF Refuse
<1>3. CASE NotReady(i)
    <2>1. seen[i] = 1 => stage[i] = "unseen"
        BY <1>3, FlowOf DEF NotReady, PayOK
    <2>2. Tell(i, "not_ready")
        BY <1>3 DEF NotReady
    <2> QED
        BY <1>0, <2>1, <2>2, FlowTell
<1>4. CASE GiveUp(i)
    BY <1>0, <1>4, FlowTell DEF GiveUp
<1>5. CASE Conclude(i)
    <2>1. Tell(i, result[i]) /\ stage[i] = "accounted" /\ result[i] \in Facilitator!Result
        BY <1>5, FlowOf, TypeParts DEF Conclude
    <2>2. result[i] # "open"
        BY <2>1, FlowOf DEF PayOK
    <2>3. result[i] \in Words /\ result[i] \notin {"rejected", "not_ready"}
        BY <2>1, <2>2 DEF Facilitator!Result, Facilitator!Outcome, Words
    <2> QED
        BY <2>1, <2>3, FlowTell
<1> QED
    BY <1>1, <1>2, <1>3, <1>4, <1>5 DEF FacilitatorStep

LEMMA PresentIs ==
    ASSUME TypeInv, NEW q \in Requests, NEW h \in Headers, Present(q, h)
    PROVE  \E v : OnlyReq(q, v) /\ ReqOK(v) /\ v.pc \in {"kind", "answered"} /\ v.header = h
                  /\ (v.pc = "answered" => v.answer = "served")
<1>1. /\ req \in [Requests -> Request] /\ now \in 0 .. MaxTime /\ Idle \in Request /\ h.intent \in Intents
      /\ DOMAIN orders \subseteq Intents /\ orders \in [DOMAIN orders -> Items]
    BY TypeParts, IdleType, HeaderTypes DEF TypeInv, TypeOK
<1>2. PICK v : v = IF h.intent \in DOMAIN orders
                   THEN [Idle EXCEPT !.pc = "answered", !.header = h, !.answer = "served", !.got = orders[h.intent]]
                   ELSE [Idle EXCEPT !.pc = "kind", !.header = h, !.since = now]
    OBVIOUS
<1>3. req' = [req EXCEPT ![q] = v]
    BY <1>2 DEF Present
<1>4. OnlyReq(q, v)
    BY <1>1, <1>3 DEF OnlyReq
<1>5. v \in Request /\ v.header = h /\ v.pc \in {"kind", "answered"} /\ (v.pc = "answered" => v.answer = "served")
    <2>1. CASE h.intent \in DOMAIN orders
        BY <1>1, <1>2, <2>1 DEF Request, Stages, Answers
    <2>2. CASE h.intent \notin DOMAIN orders
        BY <1>1, <1>2, <2>2 DEF Request, Stages
    <2> QED
        BY <2>1, <2>2
<1> QED
    BY <1>4, <1>5 DEF ReqOK

LEMMA FlowPresent ==
    ASSUME Flow, NEW q \in Requests, NEW h \in Headers, Present(q, h) PROVE Flow'
<1>0. PICK i \in Intents : i = h.intent
    BY HeaderTypes
<1>1. PICK v : /\ OnlyReq(q, v) /\ ReqOK(v) /\ v.pc \in {"kind", "answered"} /\ v.header = h
               /\ (v.pc = "answered" => v.answer = "served")
    BY FlowOf, PresentIs
<1>2. /\ UNCHANGED <<stage, result, flight, storeVars, kind, sent, now, crashes>> /\ req[q].pc = "idle"
      /\ seen' = [seen EXCEPT ![i] = IF seen[i] = 2 THEN 2 ELSE seen[i] + 1]
    BY <1>0, Zenon DEF Present, paymentVars
<1>3. /\ seen \in [Intents -> 0 .. 2] /\ TypeInv
      /\ \A p \in Requests : req[p].pc # "idle" => req[p].header.intent \in Intents
      /\ req'[q] = v /\ \A p \in Requests : p # q => req'[p] = req[p]
    BY <1>1, FlowOf, TypeParts, ReqTypes, ReqKept
<1>4. /\ seen' \in [Intents -> 0 .. 2] /\ seen'[i] # 0 /\ (seen'[i] = 1 => seen[i] = 0)
      /\ \A j \in Intents : j # i => seen'[j] = seen[j]
    <2>1. seen[i] \in 0 .. 2
        BY <1>3
    <2> QED
        BY <1>2, <1>3, <2>1
<1>5. req' \in [Requests -> Request] /\ \A p \in Requests : ReqOK(req'[p])
    BY <1>1, <1>3, ReqKept
<1>6. TypeInv'
    <2>1. UNCHANGED <<stage, result, flight, kind, now, crashes>> /\ UNCHANGED <<storeVars, sent>>
        BY <1>2
    <2> QED
        BY <1>3, <1>4, <1>5, <2>1, TypeFrame, TypeParts
<1>7. UNCHANGED <<stage, result, flight>>
    BY <1>2
<1>8. seen'[i] = 1 => Untouched(i) /\ \A p \in Requests : req[p].pc # "idle" => req[p].header.intent # i
    BY <1>4, FlowOf DEF PayOK, OnceOK
<1>9. \A j \in Intents : PayOK(j)'
    BY <1>4, <1>7, <1>8, FlowOf DEF PayOK, Untouched
<1>10. \A p \in Requests : HeardOK(req[p])' /\ OnceOK(req[p])'
    <2>1. HeardOK(v)' /\ OnceOK(v)'
        BY <1>0, <1>1, <1>4, <1>7, <1>8 DEF HeardOK, OnceOK, Untouched
    <2> SUFFICES ASSUME NEW p \in Requests, p # q PROVE HeardOK(req[p])' /\ OnceOK(req[p])'
        BY <1>3, <2>1
    <2>2. req'[p] = req[p] /\ HeardOK(req[p]) /\ OnceOK(req[p])
        BY <1>3, FlowOf
    <2> QED
        BY <1>3, <1>4, <1>7, <1>8, <2>2 DEF HeardOK, OnceOK, Untouched
<1>11. Alone'
    <2> SUFFICES ASSUME NEW p \in Requests, NEW r \in Requests, p # r, req'[p].pc # "idle", req'[r].pc # "idle",
                        req'[p].header.intent = req'[r].header.intent
                 PROVE  seen'[req'[p].header.intent] # 1
        BY DEF Alone
    <2>1. CASE p = q \/ r = q
        BY <1>0, <1>1, <1>3, <1>8, <2>1
    <2>2. CASE p # q /\ r # q
        <3>1. req[p].header.intent \in Intents /\ seen[req[p].header.intent] # 1 /\ req'[p] = req[p] /\ req[p].pc # "idle"
            BY <1>3, <2>2, FlowOf DEF Alone
        <3> QED
            BY <1>4, <1>8, <3>1
    <2> QED
        BY <2>1, <2>2
<1> QED
    BY <1>6, <1>9, <1>10, <1>11 DEF Flow, FlowInv

\* The buyer reads its answer, and the slot is free.
LEMMA FlowCollect ==
    ASSUME Flow, NEW q \in Requests, Collect(q) PROVE Flow'
<1>1. /\ UNCHANGED <<stage, result, flight, seen, kind, now, crashes>> /\ UNCHANGED <<storeVars, sent>>
      /\ req' = [req EXCEPT ![q] = Idle]
    BY Zenon DEF Collect, paymentVars
<1>2. OnlyReq(q, Idle) /\ ReqOK(Idle) /\ Idle.pc = "idle"
    BY <1>1, FlowOf, TypeParts, IdleType DEF OnlyReq
<1>3. /\ req' \in [Requests -> Request] /\ \A p \in Requests : ReqOK(req'[p])
      /\ req'[q] = Idle /\ \A p \in Requests : p # q => req'[p] = req[p]
    BY <1>2, FlowOf, ReqKept
<1>4. TypeInv'
    BY <1>1, <1>3, FlowOf, TypeFrame, TypeParts
<1>5. \A j \in Intents : PayOK(j)'
    BY <1>1, FlowOf DEF PayOK, Untouched
<1>6. \A p \in Requests : HeardOK(req[p])' /\ OnceOK(req[p])'
    BY <1>1, <1>2, <1>3, FlowOf DEF HeardOK, OnceOK, Untouched
<1>7. Alone'
    BY <1>1, <1>2, <1>3, FlowOf DEF Alone
<1> QED
    BY <1>4, <1>5, <1>6, <1>7 DEF Flow, FlowInv

\* The seller dies with its exchanges, each of which the buyer sees cut.
LEMMA CrashIs ==
    ASSUME TypeInv, SellerCrash, NEW q \in Requests
    PROVE  /\ req'[q] \in Request /\ ReqOK(req'[q]) /\ req'[q].header = req[q].header
           /\ req'[q].pc = "idle" <=> req[q].pc = "idle"
           /\ req'[q] = req[q] \/ (req'[q].pc = "answered" /\ req'[q].answer = "lost")
<1>1. ReqOK(req[q]) /\ req[q] \in Request
    BY TypeParts
<1>2. req'[q] = IF req[q].pc \in {"idle", "answered"} THEN req[q] ELSE [req[q] EXCEPT !.pc = "answered", !.answer = "lost"]
    BY DEF SellerCrash
<1>3. CASE req[q].pc \in {"idle", "answered"}
    BY <1>1, <1>2, <1>3
<1>4. CASE req[q].pc \notin {"idle", "answered"}
    <2>1. PICK v : v = [req[q] EXCEPT !.pc = "answered", !.answer = "lost"]
        OBVIOUS
    <2>2. v \in Request /\ v.pc = "answered" /\ v.answer = "lost" /\ v.header = req[q].header
        BY <1>1, <2>1 DEF Request, Stages, Answers
    <2> QED
        BY <1>1, <1>2, <1>4, <2>1, <2>2 DEF ReqOK
<1> QED
    BY <1>3, <1>4

LEMMA FlowSellerCrash == ASSUME Flow, SellerCrash PROVE Flow'
<1>1. /\ UNCHANGED <<stage, result, flight, seen, now>> /\ UNCHANGED <<storeVars, sent>>
      /\ kind' = FALSE /\ crashes < MaxCrashes /\ crashes' = crashes + 1
    BY Zenon DEF SellerCrash, paymentVars
<1>2. \A q \in Requests :
           /\ req'[q] \in Request /\ ReqOK(req'[q]) /\ req'[q].header = req[q].header
           /\ req'[q].pc = "idle" <=> req[q].pc = "idle"
           /\ req'[q] = req[q] \/ (req'[q].pc = "answered" /\ req'[q].answer = "lost")
    BY FlowOf, CrashIs
<1>3. req' \in [Requests -> Request]
    BY <1>2 DEF SellerCrash
<1>4. crashes' \in 0 .. MaxCrashes
    <2>1. crashes \in 0 .. MaxCrashes
        BY FlowOf, TypeParts
    <2> QED
        BY <1>1, <2>1, PaywallAssumption
<1>5. kind' \in BOOLEAN
    BY <1>1
<1>6. TypeInv'
    BY <1>1, <1>2, <1>3, <1>4, <1>5, FlowOf, TypeFrame, TypeParts
<1>7. \A j \in Intents : PayOK(j)'
    BY <1>1, FlowOf DEF PayOK, Untouched
<1>8. \A p \in Requests : HeardOK(req[p])' /\ OnceOK(req[p])'
    BY <1>1, <1>2, FlowOf DEF HeardOK, OnceOK, Untouched, Clean
<1>9. Alone'
    BY <1>1, <1>2, FlowOf DEF Alone
<1> QED
    BY <1>6, <1>7, <1>8, <1>9 DEF Flow, FlowInv

\* The facilitator dies, or time passes.
LEMMA FlowQuiet == ASSUME Flow, FacilitatorCrash \/ Tick PROVE Flow'
<1>1. UNCHANGED <<stage, result, seen, req, kind>> /\ UNCHANGED <<storeVars, sent>>
    BY Zenon DEF FacilitatorCrash, Tick, paymentVars
<1>2. /\ flight \in [Intents -> {"none", "new", "known"}] /\ now \in 0 .. MaxTime /\ crashes \in 0 .. MaxCrashes
    BY FlowOf, TypeParts
<1>3. flight' = flight \/ flight' = [i \in Intents |-> "none"]
    BY DEF FacilitatorCrash, Tick
<1>4. flight' \in [Intents -> {"none", "new", "known"}] /\ \A i \in Intents : flight'[i] \in {"none", flight[i]}
    BY <1>2, <1>3
<1>5. now' \in 0 .. MaxTime /\ crashes' \in 0 .. MaxCrashes
    BY <1>2, PaywallAssumption DEF FacilitatorCrash, Tick
<1>6. TypeInv'
    BY <1>1, <1>4, <1>5, FlowOf, TypeFrame, TypeParts
<1>7. \A j \in Intents : PayOK(j)'
    BY <1>1, <1>4, FlowOf DEF PayOK, Untouched
<1>8. \A p \in Requests : HeardOK(req[p])' /\ OnceOK(req[p])'
    <2>1. \A p \in Requests : req[p].pc # "idle" => req[p].header.intent \in Intents
        BY FlowOf, ReqTypes
    <2> QED
        BY <1>1, <1>4, <2>1, FlowOf DEF HeardOK, OnceOK, Untouched
<1>9. Alone'
    BY <1>1, FlowOf DEF Alone
<1> QED
    BY <1>6, <1>7, <1>8, <1>9 DEF Flow, FlowInv

LEMMA FlowNext == ASSUME Flow, [Next]_vars PROVE Flow'
<1>1. CASE UNCHANGED vars
    <2>1. UNCHANGED <<stage, result, flight, seen, req, kind, now, crashes>> /\ UNCHANGED <<storeVars, sent>>
        BY <1>1 DEF vars, storeVars
    <2>2. TypeInv'
        BY <2>1, FlowOf, TypeFrame, TypeParts
    <2>3. FlowInv'
        BY <2>1, FlowOf DEF FlowInv, PayOK, Untouched, HeardOK, OnceOK, Alone
    <2> QED
        BY <2>2, <2>3 DEF Flow
<1>2. CASE Next
    BY <1>2, FlowSeller, FlowCollect, FlowPresent, FlowFacilitator, FlowSellerCrash, FlowQuiet DEF Next
<1> QED
    BY <1>1, <1>2

\* In every behaviour of the shop its types hold and a payment presented once stays
\* untouched until its exchange reaches /settle and after it was turned away.
THEOREM Invariance == Spec => []Flow
<1>1. Init => Flow
    BY FlowInit
<1>2. Flow /\ [Next]_vars => Flow'
    BY FlowNext
<1> QED
    BY <1>1, <1>2, PTL DEF Spec

\* What the buyer's client reads as "rejected" or "unavailable" was never charged: the
\* refusals of bind(), /verify and a /settle that was not ready, for any number of
\* payments, exchanges, deaths and prunings.
THEOREM ReadingsUncharged == Spec => []UnchargedReading
<1>1. Flow => UnchargedReading
    <2> SUFFICES ASSUME Flow, NEW q \in Requests, req[q].pc = "answered", seen[req[q].header.intent] = 1,
                        Reading(req[q].answer) \in {"PAYMENT_REJECTED", "SELLER_UNAVAILABLE"}
                 PROVE  stage[req[q].header.intent] = "unseen" /\ flight[req[q].header.intent] = "none"
        BY DEF UnchargedReading
    <2>1. req[q].answer \in Clean
        <3>1. PICK a : a = req[q].answer
            OBVIOUS
        <3>2. Reading(a) \in {"PAYMENT_REJECTED", "SELLER_UNAVAILABLE"}
            BY <3>1
        <3>3. CASE a \notin Clean
            BY <3>2, <3>3 DEF Reading, Clean
        <3> QED
            BY <3>1, <3>3
    <2> QED
        BY <2>1, FlowOf DEF OnceOK, Untouched
<1> QED
    BY <1>1, Invariance, PTL

-----------------------------------------------------------------------------
(* The rows.                                                               *)

\* Two turns change the tables: bind() and the hearing of a sale.
LEMMA TablesChange ==
    ASSUME Next
    PROVE  \/ UNCHANGED storeVars
           \/ \E q \in Requests : /\ Admit(q) /\ req[q].pc = "kind" /\ req[q].header.id # NoId
                                  /\ \E table \in {bindings} \cup Prunings : Bind(q, table)
           \/ \E q \in Requests : /\ Hear(q) /\ req[q].pc = "told" /\ req[q].word = "settled"
                                  /\ Record(req[q].header) /\ Deliver(q)
<1>1. CASE SellerCrash \/ FacilitatorCrash \/ Tick
    BY <1>1 DEF SellerCrash, FacilitatorCrash, Tick
<1>2. ASSUME NEW i \in Intents, FacilitatorStep(i) PROVE UNCHANGED storeVars
    BY <1>2 DEF FacilitatorStep, Progress, Refuse, NotReady, GiveUp, Conclude, Tell, facilitatorFrame
<1>3. ASSUME NEW q \in Requests, Collect(q) \/ \E h \in Headers : Present(q, h) PROVE UNCHANGED storeVars
    BY <1>3 DEF Collect, Present
<1>4. ASSUME NEW q \in Requests, SellerStep(q)
      PROVE  \/ UNCHANGED storeVars
             \/ /\ Admit(q) /\ req[q].pc = "kind" /\ req[q].header.id # NoId
                /\ \E table \in {bindings} \cup Prunings : Bind(q, table)
             \/ /\ Hear(q) /\ req[q].pc = "told" /\ req[q].word = "settled"
                /\ Record(req[q].header) /\ Deliver(q)
    <2>1. CASE Admit(q)
        BY <2>1 DEF Admit
    <2>2. CASE Hear(q)
        BY <2>2 DEF Hear, Sold
    <2>3. CASE ~Admit(q) /\ ~Hear(q)
        BY <1>4, <2>3 DEF SellerStep, KindFails, StoreFails, LookUp, Simulated, TurnedAway, TakeIn, SettleLost
    <2> QED
        BY <2>1, <2>2, <2>3
<1> QED
    BY <1>1, <1>2, <1>3, <1>4 DEF Next

\* The chain's verdicts are final.
LEMMA ResultKept ==
    ASSUME Flow, [Next]_vars, NEW i \in Intents, result[i] = "settled" PROVE result'[i] = "settled"
<1>0. result \in [Intents -> Facilitator!Result]
    BY FlowOf, TypeParts
<1>1. CASE UNCHANGED vars
    BY <1>1 DEF vars
<1>2. CASE SellerCrash \/ FacilitatorCrash \/ Tick
    BY <1>2 DEF SellerCrash, FacilitatorCrash, Tick, paymentVars
<1>3. ASSUME NEW q \in Requests, SellerStep(q) \/ Collect(q) \/ \E h \in Headers : Present(q, h) PROVE result' = result
    BY <1>3 DEF SellerStep, KindFails, StoreFails, Admit, LookUp, Simulated, TurnedAway, TakeIn, SettleLost, Hear,
                Collect, Present, sellerFrame, paymentVars
<1>4. ASSUME NEW j \in Intents, FacilitatorStep(j) PROVE result'[i] = "settled"
    <2>1. CASE Progress(j)
        <3>1. \/ result' = result
              \/ stage[j] = "committed" /\ \E o \in Facilitator!Outcome : result' = [result EXCEPT ![j] = o]
            BY <2>1, Zenon DEF Progress, Facilitator!Commit, Facilitator!Execute, Facilitator!Account
        <3>2. stage[i] # "committed"
            BY FlowOf DEF PayOK
        <3> QED
            BY <1>0, <3>1, <3>2
    <2>2. CASE ~Progress(j)
        BY <1>4, <2>2 DEF FacilitatorStep, Refuse, NotReady, GiveUp, Conclude, Tell, paymentVars
    <2> QED
        BY <2>1, <2>2
<1> QED
    BY <1>1, <1>2, <1>3, <1>4 DEF Next

\* An exchange comes to be bound by bind() alone.
LEMMA Entering ==
    ASSUME Flow, [Next]_vars, NEW p \in Requests, req'[p].pc \in Bound
    PROVE  \/ req[p].pc \in Bound /\ req'[p].header = req[p].header
           \/ Admit(p) /\ req'[p].header = req[p].header
<1>0. TypeInv
    BY FlowOf
<1>1. CASE UNCHANGED vars
    BY <1>1 DEF vars
<1>2. CASE SellerCrash
    BY <1>0, <1>2, CrashIs DEF Bound
<1>3. CASE FacilitatorCrash \/ Tick
    BY <1>3 DEF FacilitatorCrash, Tick
<1>4. ASSUME NEW i \in Intents, FacilitatorStep(i)
      PROVE  req[p].pc \in Bound /\ req'[p].header = req[p].header
    <2>1. CASE Progress(i)
        BY <2>1 DEF Progress
    <2>2. CASE \E w : Tell(i, w)
        <3>1. PICK w : Tell(i, w)
            BY <2>2
        <3>2. req'[p] = IF req[p].pc = "settling" /\ req[p].header.intent = i
                        THEN [req[p] EXCEPT !.pc = "told", !.word = w] ELSE req[p]
            BY <3>1 DEF Tell
        <3>3. req[p] \in Request
            BY <1>0, ReqTypes
        <3> QED
            BY <3>2, <3>3 DEF Bound, Request
    <2> QED
        BY <1>4, <2>1, <2>2 DEF FacilitatorStep, Refuse, NotReady, GiveUp, Conclude
<1>5. ASSUME NEW q \in Requests, NEW h \in Headers, Present(q, h)
      PROVE  req[p].pc \in Bound /\ req'[p].header = req[p].header
    <2>1. PICK v : OnlyReq(q, v) /\ ReqOK(v) /\ v.pc \in {"kind", "answered"}
        BY <1>0, <1>5, PresentIs
    <2> QED
        BY <2>1 DEF OnlyReq, Bound
<1>6. ASSUME NEW q \in Requests, Collect(q)
      PROVE  req[p].pc \in Bound /\ req'[p].header = req[p].header
    <2>1. req' = [req EXCEPT ![q] = Idle] /\ req \in [Requests -> Request]
        BY <1>0, <1>6, TypeParts DEF Collect
    <2> QED
        BY <2>1, IdleType DEF Bound
<1>7. ASSUME NEW q \in Requests, SellerStep(q)
      PROVE  \/ req[p].pc \in Bound /\ req'[p].header = req[p].header
             \/ Admit(p) /\ req'[p].header = req[p].header
    <2>1. PICK v : OnlyReq(q, v) /\ ReqOK(v) /\ Legal(req[q], v)
        BY <1>0, <1>7, SellerMoves
    <2>2. CASE p # q
        BY <2>1, <2>2 DEF OnlyReq
    <2>3. CASE p = q /\ req[q].pc # "kind"
        <3>1. req'[p] = v /\ req[q].pc \in Stages
            BY <1>0, <2>1, <2>3, ReqTypes DEF OnlyReq
        <3> QED
            BY <2>1, <2>3, <3>1 DEF Legal, Bound, Stages
    <2>4. CASE p = q /\ req[q].pc = "kind"
        <3>1. req'[p] = v /\ v.header = req[p].header /\ v.pc = "verify"
            BY <2>1, <2>4 DEF OnlyReq, Legal
        <3>2. CASE KindFails(q) \/ StoreFails(q)
            <4>1. PICK a \in Answers : Answered(q, a)
                BY <3>2 DEF KindFails, StoreFails, Answers
            <4>2. req'[q].pc = "answered"
                <5>1. PICK u : OnlyReq(q, u) /\ u.pc = "answered"
                    BY <1>0, <2>4, <4>1, AnsweredIs
                <5> QED
                    BY <5>1 DEF OnlyReq
            <4> QED
                BY <2>4, <3>1, <4>2
        <3>3. CASE ~KindFails(q) /\ ~StoreFails(q)
            BY <1>7, <2>4, <3>1, <3>3 DEF SellerStep, LookUp, Simulated, TurnedAway, TakeIn, SettleLost, Hear
        <3> QED
            BY <3>2, <3>3
    <2> QED
        BY <2>2, <2>3, <2>4
<1> QED
    BY <1>1, <1>2, <1>3, <1>4, <1>5, <1>6, <1>7 DEF Next

\* An exchange that has passed bind() finds its row, as long as prunings spare it.
LEMMA BoundNext ==
    ASSUME Flow, RowInv, [Next]_vars, SparesExchanges, NEW p \in Requests PROVE BoundOK(req[p])'
<1> SUFFICES ASSUME req'[p].pc \in Bound, req'[p].header.id \in Ids
             PROVE  req'[p].header.id \in DOMAIN bindings' /\ bindings'[req'[p].header.id].intent = req'[p].header.intent
    BY DEF BoundOK
<1>0. TypeInv
    BY FlowOf
<1>1. CASE req[p].pc \in Bound /\ req'[p].header = req[p].header
    <2>1. PICK d : d = req[p].header.id
        OBVIOUS
    <2>2. d \in DOMAIN bindings /\ bindings[d].intent = req[p].header.intent
        BY <1>1, <2>1 DEF RowInv, BoundOK
    <2>3. Keeps(d)
        BY <1>1, <2>1, <2>2 DEF SparesExchanges, InUse
    <2> QED
        BY <1>1, <2>1, <2>2, <2>3 DEF Keeps
<1>2. CASE Admit(p) /\ req'[p].header = req[p].header
    <2>1. req[p].pc = "kind" /\ req[p].header.id \in Ids
        BY <1>2 DEF Admit
    <2>2. PICK table \in {bindings} \cup Prunings : Bind(p, table)
        BY <1>2, <2>1, PaywallAssumption DEF Admit
    <2>3. PICK v : /\ OnlyReq(p, v)
                   /\ \/ /\ v.pc = "verify" /\ req[p].header.id \in DOMAIN bindings'
                         /\ bindings'[req[p].header.id].intent = req[p].header.intent
                      \/ v.pc = "answered"
        BY <1>0, <2>1, <2>2, BindIs
    <2>4. req'[p] = v
        BY <2>3 DEF OnlyReq
    <2> QED
        BY <1>2, <2>3, <2>4 DEF Bound
<1> QED
    BY <1>1, <1>2, Entering

LEMMA RowNext == ASSUME Flow, RowInv, [Next]_vars, SparesExchanges PROVE RowInv'
<1>0. /\ TypeInv /\ bindings \in [DOMAIN bindings -> Binding] /\ DOMAIN bindings \subseteq Ids /\ DOMAIN orders \subseteq Intents
    BY FlowOf DEF TypeInv, TypeOK
<1>1. \A p \in Requests : BoundOK(req[p])'
    BY BoundNext
<1>2. ASSUME NEW b \in Binding, RowOK(b) PROVE RowOK(b)'
    <2>1. b.paid # NoIntent => b.paid \in Intents
        BY DEF Binding
    <2> QED
        BY <1>2, <2>1, ResultKept DEF RowOK
<1>3. \A i \in DOMAIN orders : result'[i] = "settled"
    BY <1>0, ResultKept DEF RowInv
<1>4. CASE UNCHANGED storeVars
    <2>1. \A d \in DOMAIN bindings' : RowOK(bindings[d])'
        <3> SUFFICES ASSUME NEW d \in DOMAIN bindings PROVE RowOK(bindings[d])'
            BY <1>4 DEF storeVars
        <3>1. PICK b \in Binding : b = bindings[d] /\ RowOK(b)
            BY <1>0 DEF RowInv
        <3>2. RowOK(b)' /\ bindings'[d] = b
            BY <1>2, <1>4, <3>1 DEF storeVars
        <3> QED
            BY <3>2 DEF RowOK
    <2> QED
        BY <1>1, <1>3, <1>4, <2>1 DEF RowInv, storeVars
<1>5. ASSUME NEW q \in Requests, req[q].pc = "kind", req[q].header.id # NoId,
             NEW table \in {bindings} \cup Prunings, Bind(q, table)
      PROVE  RowInv'
    <2>0. PICK h : h = req[q].header
        OBVIOUS
    <2>1. h.id \in Ids
        BY <1>0, <1>5, <2>0, ReqTypes
    <2>2. /\ \A d \in DOMAIN table : d \in DOMAIN bindings' /\ bindings'[d] = bindings[d]
          /\ \A d \in DOMAIN bindings' \ DOMAIN table : bindings'[d].paid = NoIntent
          /\ \A i \in DOMAIN orders' \ DOMAIN orders :
                 i = h.intent /\ h.id \in DOMAIN bindings /\ bindings[h.id].intent = i /\ bindings[h.id].paid # NoIntent
        BY <1>0, <1>5, <2>0, <2>1, BindIs
    <2>3. DOMAIN table \subseteq DOMAIN bindings
        BY <1>0, PruneIs
    <2>4. \A d \in DOMAIN bindings' : RowOK(bindings[d])'
        <3> SUFFICES ASSUME NEW d \in DOMAIN bindings' PROVE RowOK(bindings[d])'
            OBVIOUS
        <3>1. CASE d \in DOMAIN table
            <4>1. PICK b \in Binding : b = bindings[d] /\ RowOK(b)
                BY <1>0, <2>3, <3>1 DEF RowInv
            <4>2. RowOK(b)' /\ bindings'[d] = b
                BY <1>2, <2>2, <3>1, <4>1
            <4> QED
                BY <4>2 DEF RowOK
        <3>2. CASE d \notin DOMAIN table
            BY <2>2, <3>2 DEF RowOK
        <3> QED
            BY <3>1, <3>2
    <2>5. ASSUME NEW i \in DOMAIN orders', i \notin DOMAIN orders PROVE result'[i] = "settled"
        <3>1. h.id \in DOMAIN bindings /\ bindings[h.id].intent = i /\ bindings[h.id].paid # NoIntent
            BY <2>2, <2>5
        <3>2. result[i] = "settled"
            BY <3>1 DEF RowInv, RowOK
        <3>3. i \in Intents
            BY <1>0, <3>1 DEF Binding
        <3> QED
            BY <3>2, <3>3, ResultKept
    <2> QED
        BY <1>1, <1>3, <2>4, <2>5 DEF RowInv
<1>6. ASSUME NEW q \in Requests, req[q].pc = "told", req[q].word = "settled", Record(req[q].header), Deliver(q)
      PROVE  RowInv'
    <2>0. PICK h \in Headers : h = req[q].header
        BY <1>0, <1>6, ReqTypes
    <2>1. h.intent \in Intents /\ result[h.intent] = "settled" /\ result'[h.intent] = "settled"
        BY <1>6, <2>0, HeaderTypes, FlowOf, ResultKept DEF HeardOK
    <2>2. /\ DOMAIN bindings' = DOMAIN bindings
          /\ \A d \in DOMAIN bindings : bindings'[d].intent = bindings[d].intent
          /\ \A d \in DOMAIN bindings : \/ bindings'[d] = bindings[d]
                                        \/ d = h.id /\ bindings[d].paid = NoIntent /\ bindings'[d].paid = h.intent
        BY <1>0, <1>6, <2>0, RecordIs
    <2>3. \A d \in DOMAIN bindings' : RowOK(bindings[d])'
        <3> SUFFICES ASSUME NEW d \in DOMAIN bindings PROVE RowOK(bindings[d])'
            BY <2>2
        <3>1. CASE bindings'[d] = bindings[d]
            <4>1. PICK b \in Binding : b = bindings[d] /\ RowOK(b)
                BY <1>0 DEF RowInv
            <4>2. RowOK(b)'
                BY <1>2, <4>1
            <4> QED
                BY <3>1, <4>1, <4>2 DEF RowOK
        <3>2. CASE d = h.id /\ bindings'[d].paid = h.intent
            <4>1. bindings[d].intent = h.intent
                BY <1>0, <1>6, <2>0, <3>2 DEF RowInv, BoundOK, Bound
            <4> QED
                BY <2>1, <2>2, <3>2, <4>1 DEF RowOK
        <3> QED
            BY <2>2, <3>1, <3>2
    <2>4. DOMAIN orders' \subseteq DOMAIN orders \cup {h.intent}
        BY <1>0, <1>6, <2>0, DeliverIs
    <2> QED
        BY <1>1, <1>3, <2>1, <2>3, <2>4 DEF RowInv
<1>7. CASE UNCHANGED vars
    BY <1>4, <1>7 DEF vars, storeVars
<1> QED
    BY <1>4, <1>5, <1>6, <1>7, TablesChange

LEMMA SentNext == ASSUME Flow, RowInv, SentInv, [Next]_vars, SparesSent PROVE SentInv'
<1>0. TypeInv /\ sent \subseteq Ids \X Intents
    BY FlowOf DEF TypeInv, TypeOK
<1>1. ASSUME NEW s \in sent PROVE s[1] \in DOMAIN bindings' /\ bindings'[s[1]].intent = s[2]
    <2>1. s[1] \in DOMAIN bindings /\ bindings[s[1]].intent = s[2]
        BY DEF SentInv
    <2>2. s[2] \in Intents /\ <<s[1], s[2]>> \in sent
        BY <1>0
    <2>3. Keeps(s[1])
        BY <2>1, <2>2 DEF SparesSent
    <2> QED
        BY <2>1, <2>3 DEF Keeps
<1>2. CASE UNCHANGED sent
    BY <1>1, <1>2 DEF SentInv
<1>3. ASSUME NEW q \in Requests, TakeIn(q) PROVE SentInv'
    <2>1. req[q].pc = "settle" /\ UNCHANGED storeVars /\ sent' = sent \cup ({req[q].header.id} \cap Ids) \X {req[q].header.intent}
        BY <1>3 DEF TakeIn
    <2>2. req[q].header.id \in Ids => /\ req[q].header.id \in DOMAIN bindings
                                      /\ bindings[req[q].header.id].intent = req[q].header.intent
        BY <2>1 DEF RowInv, BoundOK, Bound
    <2> SUFFICES ASSUME NEW s \in sent' PROVE s[1] \in DOMAIN bindings' /\ bindings'[s[1]].intent = s[2]
        BY DEF SentInv
    <2>3. CASE s \notin sent
        <3>1. s[1] = req[q].header.id /\ s[1] \in Ids /\ s[2] = req[q].header.intent
            BY <2>1, <2>3
        <3> QED
            BY <2>1, <2>2, <3>1 DEF storeVars
    <2> QED
        BY <1>1, <2>3
<1>4. UNCHANGED sent \/ \E q \in Requests : TakeIn(q)
    <2>1. CASE UNCHANGED vars
        BY <2>1 DEF vars
    <2>2. CASE SellerCrash \/ FacilitatorCrash \/ Tick
        BY <2>2 DEF SellerCrash, FacilitatorCrash, Tick
    <2>3. ASSUME NEW i \in Intents, FacilitatorStep(i) PROVE UNCHANGED sent
        BY <2>3 DEF FacilitatorStep, Progress, Refuse, NotReady, GiveUp, Conclude, Tell, facilitatorFrame
    <2>4. ASSUME NEW q \in Requests, SellerStep(q) \/ Collect(q) \/ \E h \in Headers : Present(q, h)
          PROVE  UNCHANGED sent \/ TakeIn(q)
        BY <2>4 DEF SellerStep, KindFails, StoreFails, Admit, LookUp, Simulated, TurnedAway, SettleLost, Hear,
                    Collect, Present
    <2> QED
        BY <2>1, <2>2, <2>3, <2>4 DEF Next
<1> QED
    BY <1>2, <1>3, <1>4

-----------------------------------------------------------------------------
(* The theorems about the rows.                                            *)

\* A settled row outlives every prune(), conflict and re-presentation.
THEOREM SettledBindingsKept == Spec => SettledBindingKept
<1>1. Flow /\ [Next]_vars =>
        [\A d \in DOMAIN bindings : bindings[d].paid # NoIntent => d \in DOMAIN bindings' /\ bindings'[d] = bindings[d]]_vars
    <2> SUFFICES ASSUME Flow, Next, NEW d \in DOMAIN bindings, bindings[d].paid # NoIntent
                 PROVE  d \in DOMAIN bindings' /\ bindings'[d] = bindings[d]
        OBVIOUS
    <2>0. TypeInv
        BY FlowOf
    <2>1. CASE UNCHANGED storeVars
        BY <2>1 DEF storeVars
    <2>2. ASSUME NEW q \in Requests, req[q].pc = "kind", req[q].header.id # NoId,
                 NEW table \in {bindings} \cup Prunings, Bind(q, table)
          PROVE  d \in DOMAIN bindings' /\ bindings'[d] = bindings[d]
        <3>1. d \in DOMAIN table
            BY <2>0, PruneIs
        <3>2. req[q].header.id \in Ids
            BY <2>0, <2>2, ReqTypes
        <3> QED
            BY <2>0, <2>2, <3>1, <3>2, BindIs
    <2>3. ASSUME NEW q \in Requests, req[q].pc = "told", Record(req[q].header)
          PROVE  d \in DOMAIN bindings' /\ bindings'[d] = bindings[d]
        <3>1. req[q].header \in Headers
            BY <2>0, <2>3, ReqTypes
        <3> QED
            BY <2>0, <2>3, <3>1, RecordIs
    <2> QED
        BY <2>1, <2>2, <2>3, TablesChange
<1> QED
    BY <1>1, Invariance, PTL DEF Spec, SettledBindingKept

\* As long as no prune() drops the row of an exchange under way, the shop hands out orders
\* only for payments the chain settled: directly, or on the word of a settled row.
THEOREM OrdersPaid == Spec /\ [][SparesExchanges]_vars => []ServedPaid
<1>1. Init => RowInv
    <2> SUFFICES ASSUME Init PROVE RowInv
        OBVIOUS
    <2>1. DOMAIN bindings = {} /\ DOMAIN orders = {} /\ \A q \in Requests : req[q].pc = "idle"
        BY IdleType DEF Init
    <2> QED
        BY <2>1 DEF RowInv, BoundOK, Bound
<1>2. Flow /\ RowInv /\ [Next]_vars /\ [SparesExchanges]_vars => RowInv'
    <2>1. ASSUME Flow, UNCHANGED vars PROVE SparesExchanges
        BY <2>1 DEF SparesExchanges, Keeps, vars
    <2> QED
        BY <2>1, RowNext
<1>3. RowInv => ServedPaid
    BY DEF RowInv, ServedPaid
<1> QED
    BY <1>1, <1>2, <1>3, Invariance, PTL DEF Spec

\* As long as no prune() drops the row of an exchange under way or of a payment that was
\* sent, an identifier sends one payment to /settle, and its row is settled by that one.
THEOREM IdentifiersChargeOnce == Spec /\ [][SparesSent]_vars => []OneLeafPerIdentifier
<1>1. Init => RowInv /\ SentInv
    <2> SUFFICES ASSUME Init PROVE RowInv /\ SentInv
        OBVIOUS
    <2>1. DOMAIN bindings = {} /\ DOMAIN orders = {} /\ sent = {} /\ \A q \in Requests : req[q].pc = "idle"
        BY IdleType DEF Init
    <2> QED
        BY <2>1 DEF RowInv, BoundOK, Bound, SentInv
<1>2. Flow /\ RowInv /\ SentInv /\ [Next]_vars /\ [SparesSent]_vars => RowInv' /\ SentInv'
    <2>1. ASSUME Flow, UNCHANGED vars PROVE SparesSent
        BY <2>1 DEF SparesSent, Keeps, vars
    <2>2. SparesSent => SparesExchanges
        BY DEF SparesSent, SparesExchanges
    <2> QED
        BY <2>1, <2>2, RowNext, SentNext
<1>3. Flow /\ RowInv /\ SentInv => OneLeafPerIdentifier
    <2> SUFFICES ASSUME Flow, RowInv, SentInv PROVE OneLeafPerIdentifier
        OBVIOUS
    <2>1. TypeOK
        BY DEF Flow, TypeInv
    <2>2. BindingTruthful
        BY DEF RowInv, RowOK, BindingTruthful
    <2>3. IdentifierChargesOnce
        BY DEF SentInv, IdentifierChargesOnce
    <2> QED
        BY <2>1, <2>2, <2>3 DEF OneLeafPerIdentifier
<1> QED
    BY <1>1, <1>2, <1>3, Invariance, PTL DEF Spec

=============================================================================
