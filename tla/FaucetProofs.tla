--------------------------- MODULE FaucetProofs ----------------------------
(***************************************************************************)
(* Proofs about the faucet for every finite set of requests, every asked   *)
(* kind and owner, every window and fee, and every number of faults.       *)
(***************************************************************************)
EXTENDS Faucet, SumTheorems

-----------------------------------------------------------------------------
(***************************************************************************)
(* The inductive invariant.  ClaimOK and PooledOK: what a row's state says *)
(* of its transaction, and why bytes the node holds belong to a signed row *)
(* that is past its own broadcast.  TodoOK and RecInv: what the reconciler *)
(* remembers of a row across its awaits.  RecentInv: the claims a          *)
(* reservation looked past never pay, but for those the node refused after *)
(* it had mined them.                                                      *)
(***************************************************************************)
AskSet == (UNION {Asks[r] : r \in Requests}) \cup {NoAsk}
Row == [state : States, ask : AskSet, nonce : Nat \cup {-1}, age : 0 .. Retention, quiet : BOOLEAN]
StageSet == {"idle", "planning", "queued", "signing", "sending", "waiting", "done"}
Landing == {"no", "success", "reverted"}
Points == {"idle", "next", "nonce", "again", "send", "late", "queued", "count", "fill"}
Entry == [claim : Requests, due : BOOLEAN]
Rec == [at : Points, todo : SUBSET Entry, mined : Nat \cup {-1}, next : Nat, taken : SUBSET Nat]

Types ==
    /\ row \in [Requests -> Row] /\ stage \in [Requests -> StageSet]
    /\ queue \in Seq(Requests \cup {Reconciler})
    /\ rec \in Rec /\ IsFiniteSet(rec.taken)
    /\ pool \subseteq Requests /\ fills \subseteq Nat /\ IsFiniteSet(fills) /\ mined \in Nat
    /\ landed \in [Requests -> Landing] /\ recent \in [Requests -> SUBSET Requests] /\ misread \subseteq Requests

Live == Signed \cup {"confirmed"}
Gone == {"failed", "skipped", "pruned"}
After == {"waiting", "done"}

\* Of a row v whose request stands at s and whose transaction is l on chain; m: it was
\* failed by the refusal of bytes already mined.
ClaimOK(v, s, l, m) ==
    /\ v.state \in {"none", "reserved", "skipped"} => l = "no"
    /\ v.state = "failed" => l # "success" \/ m
    /\ v.state = "confirmed" => l = "success"
    /\ v.state \in Live => v.nonce \in Nat /\ s \in After \cup {"sending"}
    /\ l # "no" => v.nonce < mined /\ s \in After
    /\ s = "sending" => \/ v.state = "signed"
                        \/ v.state \in {"failed", "pruned"} /\ v.nonce < mined
    /\ v.quiet => s \in After
    /\ v.state = "pruned" => v.age = Retention
    /\ v.state = "none" => v.ask = NoAsk
    /\ s = "idle" => v.state = "none"

PooledOK(v, s, l) == v.state \in Signed /\ s \in After /\ l = "no" /\ v.nonce >= mined /\ v.nonce \notin fills

ClaimsInv ==
    /\ \A r \in Requests : ClaimOK(row[r], stage[r], landed[r], r \in misread)
    /\ \A r \in pool : PooledOK(row[r], stage[r], landed[r])
    /\ NonceExclusive

RecentInv == \A r \in Requests : \A q \in recent[r] : row[q].state \in Gone /\ (landed[q] # "success" \/ q \in misread)

\* A row the reconciler will send again is past its own broadcast, and nobody but the
\* reconciler ends it short of a receipt.
TodoOK(t) ==
    /\ stage[t.claim] \in After \cup {"sending"} /\ row[t.claim].nonce \in Nat
    /\ t.due => stage[t.claim] \in After /\ (row[t.claim].state \in Signed \/ landed[t.claim] # "no")

RecInv ==
    /\ \A t \in rec.todo : TodoOK(t)
    /\ \A t, u \in rec.todo : t.claim = u.claim => t = u
    /\ rec.at \in {"idle", "queued", "count", "fill"} => rec.todo = {}
    /\ rec.at \in {"nonce", "again", "send", "late"} => rec.todo # {}
    /\ rec.at \in {"send", "late"} => Current.due
    /\ rec.at = "late" => Claim \notin pool
    /\ rec.at = "again" => row[Claim].nonce < mined
    /\ rec.mined <= mined

\* While it fills gaps, the reconciler holds the mutex.
Holding(q) == rec.at \in {"count", "fill"} => q # <<>> /\ Head(q) = Reconciler

IInv == Types /\ ClaimsInv /\ RecentInv /\ RecInv /\ Holding(queue)

-----------------------------------------------------------------------------
(* Choices.                                                                *)

LEMMA ParamTypes == Window \in Nat /\ Day \in Nat /\ Retention \in Nat /\ Retention # 0 /\ Window <= Retention
BY TimeAssumption

LEMMA CurrentIs ==
    ASSUME Types, \A t \in rec.todo : TodoOK(t), rec.todo # {}
    PROVE  Current \in rec.todo /\ Current \in Entry /\ Claim \in Requests
<1>1. rec.todo \subseteq Entry
    BY DEF Types, Rec
<1> DEFINE N == {NonceOf(t) : t \in rec.todo}
<1>2. N \in SUBSET Nat /\ N # {}
    BY DEF TodoOK, NonceOf
<1>3. PICK m \in N : \A n \in N : m <= n
    BY <1>2, LeastNatural
<1>4. \E t \in rec.todo : \A u \in rec.todo : NonceOf(t) <= NonceOf(u)
    BY <1>3
<1>5. Current \in rec.todo
    BY <1>4 DEF Current
<1> QED
    BY <1>1, <1>5 DEF Claim, Entry

LEMMA CurrentKept ==
    ASSUME rec'.todo = rec.todo, \A t \in rec.todo : row'[t.claim].nonce = row[t.claim].nonce
    PROVE  Current' = Current /\ Claim' = Claim
<1>1. \A t : (t \in rec.todo' /\ \A u \in rec.todo' : NonceOf(t)' <= NonceOf(u)') <=> (t \in rec.todo /\ \A u \in rec.todo : NonceOf(t) <= NonceOf(u))
    BY DEF NonceOf
<1>2. Current' = Current
    BY <1>1, Zenon DEF Current
<1> QED
    BY <1>2 DEF Claim

LEMMA RecMined == ASSUME IInv PROVE rec.mined \in Int /\ rec.mined \in Nat \cup {-1} /\ rec.mined <= mined /\ mined \in Nat
BY DEF IInv, Types, Rec, RecInv

LEMMA NoncesFinite ==
    ASSUME IInv PROVE IsFiniteSet(Nonces) /\ PendingCount \in Nat
<1>1. pool \subseteq Requests /\ IsFiniteSet(fills) /\ mined \in Nat
    BY DEF IInv, Types
<1>2. IsFiniteSet(pool)
    BY <1>1, RequestAssumption, FS_Subset
<1>3. IsFiniteSet({row[r].nonce : r \in pool})
    <2> DEFINE f == [r \in pool |-> row[r].nonce]
    <2>1. {f[r] : r \in pool} = {row[r].nonce : r \in pool}
        OBVIOUS
    <2> HIDE DEF f
    <2>2. IsFiniteSet({f[r] : r \in pool})
        BY <1>2, FiniteImage
    <2> QED
        BY <2>1, <2>2
<1>4. IsFiniteSet(Nonces)
    BY <1>1, <1>3, FS_Union DEF Nonces
<1>5. /\ Cardinality(Nonces) \in Nat
      /\ \E g \in mined .. mined + Cardinality(Nonces) : g \notin Nonces /\ \A k \in mined .. g - 1 : k \in Nonces
    BY <1>1, <1>4, FirstOutside
<1>6. PendingCount \in mined .. mined + Cardinality(Nonces)
    BY <1>5 DEF PendingCount
<1> QED
    BY <1>1, <1>4, <1>5, <1>6

LEMMA GapIs ==
    ASSUME IInv, NEW n \in Nat PROVE NextGap(n) \in Nat
<1>1. IsFiniteSet(rec.taken)
    BY DEF IInv, Types
<1>2. /\ Cardinality(rec.taken) \in Nat
      /\ \E g \in n .. n + Cardinality(rec.taken) : g \notin rec.taken /\ \A k \in n .. g - 1 : k \in rec.taken
    BY <1>1, FirstOutside
<1>3. NextGap(n) \in n .. n + Cardinality(rec.taken)
    BY <1>2 DEF NextGap
<1> QED
    BY <1>2, <1>3

\* The nonces of the live rows are naturals and finitely many.
LEMMA HeldIs ==
    ASSUME IInv PROVE Held \subseteq Nat /\ IsFiniteSet(Held)
<1> DEFINE S == {q \in Requests : row[q].state \in Signed}
<1>1. IsFiniteSet(S)
    BY RequestAssumption, FS_Subset
<1>2. \A q \in S : row[q].nonce \in Nat
    BY DEF IInv, ClaimsInv, ClaimOK, Live
<1>3. IsFiniteSet({row[q].nonce : q \in S})
    <2> DEFINE f == [r \in S |-> row[r].nonce]
    <2>1. {f[r] : r \in S} = {row[r].nonce : r \in S}
        OBVIOUS
    <2> HIDE DEF f
    <2>2. IsFiniteSet({f[r] : r \in S})
        BY <1>1, FiniteImage
    <2> QED
        BY <2>1, <2>2
<1> QED
    BY <1>2, <1>3 DEF Held

LEMMA NextNonceIs ==
    ASSUME IInv
    PROVE  NextNonce \in Nat /\ \A q \in Requests : row[q].state \in Live => row[q].nonce < NextNonce
<1> DEFINE S == {q \in Requests : row[q].state \in Signed \cup {"confirmed"}}
           T == {row[q].nonce + 1 : q \in S}
<1>1. IsFiniteSet(S)
    BY RequestAssumption, FS_Subset
<1>2. \A q \in S : row[q].nonce \in Nat
    BY DEF IInv, ClaimsInv, ClaimOK, Live
<1>3. IsFiniteSet(T)
    <2> DEFINE f == [r \in S |-> row[r].nonce + 1]
    <2>1. {f[r] : r \in S} = T
        OBVIOUS
    <2> HIDE DEF f
    <2>2. IsFiniteSet({f[r] : r \in S})
        BY <1>1, FiniteImage
    <2> HIDE DEF T
    <2> QED
        BY <2>1, <2>2
<1>4. IsFiniteSet({0} \cup T)
    <2> HIDE DEF T
    <2>1. IsFiniteSet({0})
        BY FS_Singleton
    <2> QED
        BY <1>3, <2>1, FS_Union
<1>5. {0} \cup T \in SUBSET Nat /\ {0} \cup T # {}
    BY <1>2
<1>6. Max({0} \cup T) \in {0} \cup T /\ \A x \in {0} \cup T : x <= Max({0} \cup T)
    <2> HIDE DEF T
    <2> QED
        BY <1>4, <1>5, MaxOfFinite
<1>7. NextNonce = Max({0} \cup T)
    BY DEF NextNonce
<1> QED
    BY <1>2, <1>5, <1>6, <1>7 DEF Live

-----------------------------------------------------------------------------
(* One row changes.                                                        *)

OnlyRow(r, v) == row' = [q \in Requests |-> IF q = r THEN v ELSE row[q]]
OnlyStage(r, s) == stage' = [q \in Requests |-> IF q = r THEN s ELSE stage[q]]

LEMMA RowTypes ==
    ASSUME Types, NEW r \in Requests
    PROVE  /\ row \in [Requests -> Row] /\ row[r] \in Row /\ row[r].state \in States /\ row[r].ask \in AskSet
           /\ row[r].nonce \in Nat \cup {-1} /\ row[r].age \in 0 .. Retention
           /\ stage \in [Requests -> StageSet] /\ stage[r] \in StageSet
           /\ landed \in [Requests -> Landing] /\ landed[r] \in Landing
<1>1. row \in [Requests -> Row] /\ stage \in [Requests -> StageSet] /\ landed \in [Requests -> Landing]
    BY DEF Types
<1> QED
    BY <1>1 DEF Row

LEMMA GoIs == ASSUME Types, NEW r \in Requests, NEW s \in StageSet, Go(r, s) PROVE OnlyStage(r, s)
BY DEF Types, Go, OnlyStage

\* An UPDATE of the state: it moves the row, or finds it elsewhere and leaves it.
LEMMA MoveIs ==
    ASSUME Types, NEW r \in Requests, NEW from, NEW to \in States, Move(r, from, to)
    PROVE  \E v \in Row :
              /\ OnlyRow(r, v)
              /\ v.ask = row[r].ask /\ v.nonce = row[r].nonce /\ v.age = row[r].age
              /\ \/ row[r].state \in from /\ v.state = to /\ ~v.quiet
                 \/ row[r].state \notin from /\ v = row[r]
<1>1. row \in [Requests -> Row] /\ row[r] \in Row
    BY RowTypes
<1>2. CASE row[r].state \in from
    <2>1. PICK v : v = [row[r] EXCEPT !.state = to, !.quiet = FALSE]
        OBVIOUS
    <2>2. v \in Row /\ v.state = to /\ v.quiet = FALSE /\ v.ask = row[r].ask /\ v.nonce = row[r].nonce /\ v.age = row[r].age
        BY <1>1, <2>1 DEF Row
    <2>3. OnlyRow(r, v)
        BY <1>1, <1>2, <2>1 DEF OnlyRow, Move, Row
    <2> QED
        BY <1>2, <2>2, <2>3
<1>3. CASE row[r].state \notin from
    <2>1. row' = row
        BY <1>3 DEF Move
    <2>2. OnlyRow(r, row[r])
        BY <1>1, <2>1 DEF OnlyRow
    <2> QED
        BY <1>1, <1>3, <2>2
<1> QED
    BY <1>2, <1>3

\* What one row, its request and its bytes may become without upsetting the others.
Sound(r, v, s) ==
    /\ ClaimOK(v, s, landed[r], r \in misread)
    /\ r \in pool' => PooledOK(v, s, landed[r])
    /\ v.state \in Live => \/ row[r].state \in Live /\ v.nonce = row[r].nonce
                           \/ \A q \in Requests : row[q].state \in Live => row[q].nonce # v.nonce
    /\ row[r].state \in Gone => v.state \in Gone

LEMMA ClaimChanges ==
    ASSUME IInv, NEW r \in Requests, NEW v \in Row, NEW s \in StageSet, OnlyRow(r, v), OnlyStage(r, s), Sound(r, v, s),
           pool' \in {pool, pool \cup {r}}, UNCHANGED <<landed, mined, fills, misread>>
    PROVE  /\ ClaimsInv' /\ row' \in [Requests -> Row] /\ stage' \in [Requests -> StageSet] /\ pool' \subseteq Requests
           /\ row'[r] = v /\ stage'[r] = s /\ \A q \in Requests : q # r => row'[q] = row[q] /\ stage'[q] = stage[q]
           /\ UNCHANGED recent => RecentInv'
<1>0. /\ row \in [Requests -> Row] /\ stage \in [Requests -> StageSet] /\ pool \subseteq Requests
      /\ recent \in [Requests -> SUBSET Requests]
    BY DEF IInv, Types
<1>1. /\ row' \in [Requests -> Row] /\ stage' \in [Requests -> StageSet] /\ pool' \subseteq Requests
      /\ row'[r] = v /\ stage'[r] = s /\ \A q \in Requests : q # r => row'[q] = row[q] /\ stage'[q] = stage[q]
    BY <1>0 DEF OnlyRow, OnlyStage
<1>2. ASSUME NEW q \in Requests PROVE ClaimOK(row[q], stage[q], landed[q], q \in misread)'
    <2>1. CASE q = r
        <3>1. ClaimOK(v, s, landed[r], r \in misread)'
            BY DEF Sound, ClaimOK
        <3> QED
            BY <1>1, <2>1, <3>1 DEF ClaimOK
    <2>2. CASE q # r
        <3>1. ClaimOK(row[q], stage[q], landed[q], q \in misread) /\ row'[q] = row[q] /\ stage'[q] = stage[q]
            BY <1>1, <2>2 DEF IInv, ClaimsInv
        <3> QED
            BY <3>1 DEF ClaimOK
    <2> QED
        BY <2>1, <2>2
<1>3. ASSUME NEW q \in pool' PROVE PooledOK(row[q], stage[q], landed[q])'
    <2>1. CASE q = r
        <3>1. PooledOK(v, s, landed[r])'
            BY <1>3, <2>1 DEF Sound, PooledOK
        <3> QED
            BY <1>1, <2>1, <3>1 DEF PooledOK
    <2>2. CASE q # r
        <3>1. q \in pool /\ PooledOK(row[q], stage[q], landed[q])
            BY <2>2 DEF IInv, ClaimsInv
        <3>2. row'[q] = row[q] /\ stage'[q] = stage[q]
            BY <1>0, <1>1, <2>2, <3>1
        <3> QED
            BY <3>1, <3>2 DEF PooledOK
    <2> QED
        BY <2>1, <2>2
<1>4. NonceExclusive'
    <2> SUFFICES ASSUME NEW p \in Requests, NEW q \in Requests, p # q, row'[p].state \in Live, row'[q].state \in Live
                 PROVE  row'[p].nonce # row'[q].nonce
        BY DEF NonceExclusive, Live
    <2>1. \A x, y \in Requests : x # y /\ row[x].state \in Live /\ row[y].state \in Live => row[x].nonce # row[y].nonce
        BY DEF IInv, ClaimsInv, NonceExclusive, Live
    <2>2. CASE p # r /\ q # r
        BY <1>1, <2>1, <2>2
    <2>3. CASE p = r
        BY <1>1, <2>1, <2>3 DEF Sound
    <2>4. CASE q = r
        BY <1>1, <2>1, <2>4 DEF Sound
    <2> QED
        BY <2>2, <2>3, <2>4
<1>5. ASSUME UNCHANGED recent, NEW p \in Requests, NEW q \in recent[p] PROVE row'[q].state \in Gone /\ (landed'[q] # "success" \/ q \in misread')
    <2>1. q \in Requests /\ row[q].state \in Gone /\ (landed[q] # "success" \/ q \in misread)
        BY <1>0 DEF IInv, RecentInv
    <2> QED
        BY <1>1, <2>1 DEF Sound
<1>6. UNCHANGED recent => RecentInv'
    BY <1>5 DEF RecentInv
<1> QED
    BY <1>1, <1>2, <1>3, <1>4, <1>6 DEF ClaimsInv

\* The reconciler's memory survives the steps of the claims.
LEMMA RecFrame ==
    ASSUME IInv, UNCHANGED <<rec, landed, mined>>,
           \A q \in Requests : stage[q] \in After \cup {"sending"} => row'[q].nonce = row[q].nonce /\ stage'[q] \in After \cup {"sending"},
           \A q \in Requests : stage[q] \in After =>
               /\ stage'[q] \in After /\ (q \in pool' => q \in pool)
               /\ row[q].state \in Signed => row'[q].state \in Signed \/ landed[q] # "no"
    PROVE  RecInv'
<1>0. rec.todo \subseteq Entry /\ \A t \in rec.todo : t.claim \in Requests /\ TodoOK(t)
    BY DEF IInv, Types, Rec, Entry, RecInv
<1>1. Current' = Current /\ Claim' = Claim
    BY <1>0, CurrentKept DEF TodoOK
<1>2. \A t \in rec.todo : TodoOK(t)'
    BY <1>0 DEF TodoOK
<1>3. CASE rec.todo = {}
    BY <1>1, <1>2, <1>3 DEF IInv, RecInv
<1>4. CASE rec.todo # {}
    <2>1. Current \in rec.todo /\ Claim \in Requests /\ Current.claim = Claim
        BY <1>0, <1>4, CurrentIs DEF IInv, Claim
    <2>2. TodoOK(Current)
        BY <1>0, <2>1
    <2>3. row'[Claim].nonce = row[Claim].nonce
        BY <2>1, <2>2 DEF TodoOK
    <2>4. rec.at = "late" => Claim \notin pool'
        BY <2>1, <2>2 DEF IInv, RecInv, TodoOK
    <2> QED
        BY <1>1, <1>2, <2>3, <2>4 DEF IInv, RecInv
<1> QED
    BY <1>3, <1>4

\* The turn of a request leaves the reconciler the mutex it holds.
QueueStep == queue' \in Seq(Requests \cup {Reconciler}) /\ Holding(queue')

LEMMA QueueKept ==
    ASSUME IInv, NEW r \in Requests,
           queue' = queue \/ queue' = Append(queue, r) \/ (queue # <<>> /\ Head(queue) = r /\ queue' = Tail(queue))
    PROVE  QueueStep
<1>1. queue \in Seq(Requests \cup {Reconciler}) /\ Holding(queue) /\ r # Reconciler
    BY RequestAssumption DEF IInv, Types, Reconciler
<1>2. CASE queue' = queue
    BY <1>1, <1>2 DEF QueueStep
<1>3. CASE queue' = Append(queue, r)
    <2>1. queue' \in Seq(Requests \cup {Reconciler}) /\ queue' # <<>> /\ (queue # <<>> => Head(queue') = Head(queue))
        BY <1>1, <1>3
    <2> QED
        BY <1>1, <2>1 DEF QueueStep, Holding
<1>4. CASE queue # <<>> /\ Head(queue) = r /\ queue' = Tail(queue)
    BY <1>1, <1>4 DEF QueueStep, Holding
<1> QED
    BY <1>2, <1>3, <1>4

LEMMA ClaimStep ==
    ASSUME IInv, NEW r \in Requests, NEW v \in Row, NEW s \in StageSet, OnlyRow(r, v), OnlyStage(r, s), Sound(r, v, s),
           pool' \in {pool, pool \cup {r}}, UNCHANGED <<landed, mined, fills, rec, misread>>,
           QueueStep,
           UNCHANGED recent \/ (recent' \in [Requests -> SUBSET Requests] /\ RecentInv'),
           stage[r] \in After \cup {"sending"} => v.nonce = row[r].nonce /\ s \in After \cup {"sending"},
           stage[r] \in After => /\ s \in After /\ (r \in pool' => r \in pool)
                                 /\ row[r].state \in Signed => v.state \in Signed \/ landed[r] # "no"
    PROVE  IInv'
<1>1. /\ ClaimsInv' /\ row' \in [Requests -> Row] /\ stage' \in [Requests -> StageSet] /\ pool' \subseteq Requests
      /\ row'[r] = v /\ stage'[r] = s /\ \A q \in Requests : q # r => row'[q] = row[q] /\ stage'[q] = stage[q]
      /\ UNCHANGED recent => RecentInv'
    BY ClaimChanges
<1>2. Types' /\ Holding(queue)'
    BY <1>1 DEF IInv, Types, QueueStep, Holding
<1>3. RecInv'
    <2>1. ASSUME NEW q \in Requests, stage[q] \in After \cup {"sending"}
          PROVE  row'[q].nonce = row[q].nonce /\ stage'[q] \in After \cup {"sending"}
        BY <1>1, <2>1
    <2>2. ASSUME NEW q \in Requests, stage[q] \in After
          PROVE  /\ stage'[q] \in After /\ (q \in pool' => q \in pool)
                 /\ row[q].state \in Signed => row'[q].state \in Signed \/ landed[q] # "no"
        BY <1>1, <2>2
    <2> QED
        BY <2>1, <2>2, RecFrame
<1> QED
    BY <1>1, <1>2, <1>3 DEF IInv

LEMMA ClaimFacts ==
    ASSUME IInv, NEW r \in Requests
    PROVE  /\ ClaimOK(row[r], stage[r], landed[r], r \in misread) /\ Types /\ (r \in pool => PooledOK(row[r], stage[r], landed[r]))
           /\ stage[r] \notin After => landed[r] = "no" /\ r \notin pool /\ ~row[r].quiet
           /\ queue \in Seq(Requests \cup {Reconciler}) /\ (queue # <<>> => Tail(queue) \in Seq(Requests \cup {Reconciler}))
           /\ Append(queue, r) \in Seq(Requests \cup {Reconciler})
<1>1. ClaimOK(row[r], stage[r], landed[r], r \in misread) /\ Types /\ (r \in pool => PooledOK(row[r], stage[r], landed[r]))
    BY DEF IInv, ClaimsInv
<1>2. stage[r] \notin After => landed[r] = "no" /\ r \notin pool /\ ~row[r].quiet
    BY <1>1 DEF ClaimOK, PooledOK
<1>3. queue \in Seq(Requests \cup {Reconciler})
    BY <1>1 DEF Types
<1> QED
    BY <1>1, <1>2, <1>3

\* A row that ends short of paying, or stays as it is.
LEMMA EndSound ==
    ASSUME IInv, NEW r \in Requests, NEW v \in Row, NEW s \in StageSet, pool' = pool,
           v.ask = row[r].ask, v.nonce = row[r].nonce, v.age = row[r].age,
           \/ v = row[r]
           \/ /\ ~v.quiet /\ r \notin pool
              /\ \/ row[r].state \in Inflight /\ v.state = "failed" /\ landed[r] # "success"
                 \/ row[r].state = "reserved" /\ v.state = "skipped",
           s \in After \/ (s = stage[r] /\ (s = "sending" => v = row[r] \/ v.nonce < mined))
    PROVE  Sound(r, v, s)
<1>1. /\ ClaimOK(row[r], stage[r], landed[r], r \in misread) /\ (r \in pool => PooledOK(row[r], stage[r], landed[r]))
    BY ClaimFacts
<1>2. CASE v = row[r]
    <2>1. ClaimOK(v, s, landed[r], r \in misread)
        BY <1>1, <1>2 DEF ClaimOK, After
    <2>2. r \in pool' => PooledOK(v, s, landed[r])
        BY <1>1, <1>2 DEF PooledOK
    <2> QED
        BY <1>2, <2>1, <2>2 DEF Sound
<1>3. CASE v # row[r]
    <2>1. /\ ~v.quiet /\ r \notin pool' /\ v.state \in {"failed", "skipped"} /\ row[r].state \in Inflight
          /\ v.state = "failed" => landed[r] # "success"
          /\ v.state = "skipped" => landed[r] = "no"
        BY <1>1, <1>3 DEF Inflight, ClaimOK
    <2>2. stage[r] # "idle"
        BY <1>1, <2>1 DEF ClaimOK, Inflight
    <2>3. ClaimOK(v, s, landed[r], r \in misread)
        BY <1>1, <1>3, <2>1, <2>2 DEF ClaimOK, After, Live, Signed
    <2> QED
        BY <2>1, <2>3 DEF Sound, Live, Signed, Gone, Inflight
<1> QED
    BY <1>2, <1>3

\* A receipt ends a signed row the way the chain did.
LEMMA ReceiptSound ==
    ASSUME IInv, NEW r \in Requests, landed[r] # "no", MarkReceipt(r), pool' = pool, NEW s \in After
    PROVE  \E v \in Row : OnlyRow(r, v) /\ Sound(r, v, s) /\ v.nonce = row[r].nonce
<1>1. ClaimOK(row[r], stage[r], landed[r], r \in misread) /\ Types /\ r \notin pool /\ landed[r] \in Landing
    BY ClaimFacts, RowTypes DEF PooledOK
<1>2. {"confirmed", "failed"} \subseteq States /\ s \in StageSet
    BY DEF States, Finished, StageSet, After
<1>3. CASE landed[r] = "success"
    <2>1. PICK v \in Row :
              /\ OnlyRow(r, v)
              /\ v.ask = row[r].ask /\ v.nonce = row[r].nonce /\ v.age = row[r].age
              /\ \/ row[r].state \in Signed /\ v.state = "confirmed" /\ ~v.quiet
                 \/ row[r].state \notin Signed /\ v = row[r]
        BY <1>1, <1>2, <1>3, MoveIs DEF MarkReceipt, MarkConfirmed
    <2>2. CASE v = row[r]
        BY <1>2, <2>1, <2>2, EndSound
    <2>3. CASE row[r].state \in Signed /\ v.state = "confirmed" /\ ~v.quiet
        <3>1. ClaimOK(v, s, landed[r], r \in misread)
            BY <1>1, <1>3, <2>1, <2>3 DEF ClaimOK, After, Live
        <3> QED
            BY <1>1, <2>1, <2>3, <3>1 DEF Sound, Live, Signed, Gone
    <2> QED
        BY <2>1, <2>2, <2>3
<1>4. CASE landed[r] # "success"
    <2>1. PICK v \in Row :
              /\ OnlyRow(r, v)
              /\ v.ask = row[r].ask /\ v.nonce = row[r].nonce /\ v.age = row[r].age
              /\ \/ row[r].state \in Inflight /\ v.state = "failed" /\ ~v.quiet
                 \/ row[r].state \notin Inflight /\ v = row[r]
        BY <1>1, <1>2, <1>4, MoveIs DEF MarkReceipt, MarkFailed
    <2> QED
        BY <1>1, <1>2, <1>4, <2>1, EndSound
<1> QED
    BY <1>3, <1>4

\* A request that ends before it signs, or is refused: its row fails, or is left as it was.
LEMMA Quits ==
    ASSUME IInv, NEW r \in Requests, stage[r] \notin After, MarkFailed(r) \/ MarkSkipped(r) \/ UNCHANGED row, Go(r, "done"),
           QueueStep, UNCHANGED <<pool, landed, mined, fills, rec, recent, misread>>
    PROVE  IInv'
<1>1. /\ ClaimOK(row[r], stage[r], landed[r], r \in misread) /\ Types /\ landed[r] = "no" /\ r \notin pool /\ row[r] \in Row
      /\ row \in [Requests -> Row]
    BY ClaimFacts, RowTypes
<1>2. {"failed", "skipped"} \subseteq States /\ "done" \in StageSet /\ "done" \in After
    BY DEF States, Finished, StageSet, After
<1>3. OnlyStage(r, "done")
    BY <1>1, <1>2, GoIs
<1>4. PICK v \in Row :
          /\ OnlyRow(r, v) /\ v.ask = row[r].ask /\ v.nonce = row[r].nonce /\ v.age = row[r].age
          /\ \/ v = row[r]
             \/ ~v.quiet /\ row[r].state \in Inflight /\ v.state = "failed"
             \/ ~v.quiet /\ row[r].state = "reserved" /\ v.state = "skipped"
    <2>1. CASE MarkFailed(r)
        BY <1>1, <1>2, <2>1, MoveIs DEF MarkFailed
    <2>2. CASE MarkSkipped(r)
        BY <1>1, <1>2, <2>2, MoveIs DEF MarkSkipped
    <2>3. CASE UNCHANGED row
        <3>1. OnlyRow(r, row[r])
            BY <1>1, <2>3 DEF OnlyRow
        <3> QED
            BY <1>1, <3>1
    <2> QED
        BY <2>1, <2>2, <2>3
<1>5. Sound(r, v, "done")
    BY <1>1, <1>2, <1>4, EndSound
<1>6. UNCHANGED <<landed, mined, fills, rec, misread>> /\ pool' \in {pool, pool \cup {r}}
    OBVIOUS
<1> QED
    BY <1>2, <1>3, <1>4, <1>5, <1>6, ClaimStep

\* A request moves on and its row stays.
LEMMA Moves ==
    ASSUME IInv, NEW r \in Requests, NEW s \in {"queued", "signing", "done"}, UNCHANGED row, Go(r, s),
           s # "done" => stage[r] \in {"planning", "queued"},
           QueueStep, UNCHANGED <<pool, landed, mined, fills, rec, recent, misread>>
    PROVE  IInv'
<1>1. /\ ClaimOK(row[r], stage[r], landed[r], r \in misread) /\ Types /\ row[r] \in Row /\ row \in [Requests -> Row]
      /\ (r \in pool => PooledOK(row[r], stage[r], landed[r])) /\ s \in StageSet
      /\ s # "done" => landed[r] = "no" /\ r \notin pool /\ ~row[r].quiet /\ row[r].state \notin Live
    BY ClaimFacts, RowTypes DEF StageSet, ClaimOK, PooledOK, After
<1>2. OnlyStage(r, s) /\ OnlyRow(r, row[r])
    BY <1>1, GoIs DEF OnlyRow
<1>3. ClaimOK(row[r], s, landed[r], r \in misread)
    BY <1>1 DEF ClaimOK, After
<1>4. Sound(r, row[r], s)
    BY <1>1, <1>3 DEF Sound, PooledOK, After
<1>5. /\ stage[r] \in After \cup {"sending"} => s = "done"
      /\ s = "done" => s \in After
      /\ UNCHANGED <<landed, mined, fills, rec, misread>> /\ pool' \in {pool, pool \cup {r}}
    BY DEF After
<1> QED
    BY <1>1, <1>2, <1>4, <1>5, ClaimStep

LEMMA PlanInv == ASSUME IInv, NEW r \in Requests, Plan(r) PROVE IInv'
<1>1. stage[r] = "planning" /\ stage[r] \notin After /\ UNCHANGED <<pool, landed, mined, fills, rec, recent, misread>>
    BY DEF Plan, After, chain
<1>2. CASE (MarkSkipped(r) \/ MarkFailed(r)) /\ Go(r, "done") /\ UNCHANGED queue
    BY <1>1, <1>2, QueueKept, Quits
<1>3. CASE Go(r, "queued") /\ queue' = Append(queue, r) /\ UNCHANGED row
    BY <1>1, <1>3, QueueKept, Moves
<1> QED
    BY <1>2, <1>3 DEF Plan

LEMMA CheckFundsInv == ASSUME IInv, NEW r \in Requests, CheckFunds(r) PROVE IInv'
<1>1. stage[r] = "queued" /\ stage[r] \notin After /\ UNCHANGED <<pool, landed, mined, fills, rec, recent, misread>> /\ queue # <<>> /\ Head(queue) = r
    BY DEF CheckFunds, After, chain, Holds
<1>2. CASE Go(r, "signing") /\ UNCHANGED <<row, queue>>
    BY <1>1, <1>2, QueueKept, Moves
<1>3. CASE MarkFailed(r) /\ Go(r, "done") /\ queue' = Tail(queue)
    BY <1>1, <1>3, QueueKept, Quits
<1> QED
    BY <1>2, <1>3 DEF CheckFunds

\* The nonce a claim is signed with is above that of every live row.
LEMMA SignNonceIs ==
    ASSUME IInv, NEW n, n = Max({PendingCount, NextNonce})
    PROVE  n \in Nat /\ \A q \in Requests : row[q].state \in Live => row[q].nonce \in Nat /\ row[q].nonce < n
<1>1. /\ PendingCount \in Nat /\ NextNonce \in Nat
      /\ \A q \in Requests : row[q].state \in Live => row[q].nonce < NextNonce
    BY NoncesFinite, NextNonceIs
<1>2. {PendingCount, NextNonce} \in SUBSET Nat /\ {PendingCount, NextNonce} # {}
    BY <1>1
<1>3. PICK b \in Nat : \A x \in {PendingCount, NextNonce} : x <= b
    <2>1. \A x \in {PendingCount, NextNonce} : x <= PendingCount + NextNonce
        BY <1>1
    <2> QED
        BY <1>1, <2>1
<1>4. n \in {PendingCount, NextNonce} /\ \A x \in {PendingCount, NextNonce} : x <= n
    BY <1>2, <1>3, MaxOfBounded
<1>5. n \in Nat /\ NextNonce <= n
    BY <1>1, <1>4
<1>6. ASSUME NEW q \in Requests, row[q].state \in Live PROVE row[q].nonce \in Nat /\ row[q].nonce < n
    <2>1. row[q].nonce \in Nat
        BY <1>6, ClaimFacts DEF ClaimOK
    <2> QED
        BY <1>1, <1>5, <1>6, <2>1
<1> QED
    BY <1>5, <1>6

LEMMA SignInv == ASSUME IInv, NEW r \in Requests, Sign(r) PROVE IInv'
<1>1. stage[r] = "signing" /\ stage[r] \notin After /\ UNCHANGED <<pool, landed, mined, fills, rec, recent, misread>> /\ queue # <<>> /\ Head(queue) = r
    BY DEF Sign, After, chain, Holds
<1>2. CASE MarkFailed(r) /\ Go(r, "done") /\ queue' = Tail(queue)
    BY <1>1, <1>2, QueueKept, Quits
<1>3. CASE /\ row[r].state = "reserved" /\ Go(r, "sending") /\ UNCHANGED queue
           /\ row' = [row EXCEPT ![r].state = "signed", ![r].quiet = FALSE, ![r].nonce = Max({PendingCount, NextNonce})]
    <2>1. PICK n : n = Max({PendingCount, NextNonce})
        OBVIOUS
    <2>3. n \in Nat /\ \A q \in Requests : row[q].state \in Live => row[q].nonce \in Nat /\ row[q].nonce < n
        BY <2>1, SignNonceIs
    <2>4. \A q \in Requests : row[q].state \in Live => row[q].nonce \in Nat /\ row[q].nonce # n
        BY <2>3
    <2>5. row \in [Requests -> Row] /\ row[r] \in Row /\ Types /\ ClaimOK(row[r], stage[r], landed[r], r \in misread) /\ landed[r] = "no" /\ r \notin pool
        BY <1>1, ClaimFacts, RowTypes
    <2>6. PICK v : v = [row[r] EXCEPT !.state = "signed", !.quiet = FALSE, !.nonce = n]
        OBVIOUS
    <2>7. v \in Row /\ v.state = "signed" /\ v.quiet = FALSE /\ v.nonce = n
        BY <2>3, <2>5, <2>6 DEF Row, States, Inflight
    <2>8. OnlyRow(r, v)
        BY <1>3, <2>1, <2>5, <2>6 DEF OnlyRow, Row
    <2>9. OnlyStage(r, "sending") /\ "sending" \in StageSet
        BY <1>3, <2>5, GoIs DEF StageSet
    <2>10. ClaimOK(v, "sending", landed[r], r \in misread)
        BY <2>3, <2>5, <2>7 DEF ClaimOK, After
    <2>11. Sound(r, v, "sending")
        BY <1>1, <1>3, <2>4, <2>5, <2>7, <2>10 DEF Sound, Gone
    <2>12. stage[r] \notin After \cup {"sending"}
        BY <1>1
    <2>13. UNCHANGED <<landed, mined, fills, rec, misread>> /\ pool' \in {pool, pool \cup {r}} /\ UNCHANGED recent
        BY <1>1
    <2>14. QueueStep
        BY <1>3, QueueKept
    <2> QED
        BY <2>7, <2>8, <2>9, <2>11, <2>12, <2>13, <2>14, ClaimStep
<1> QED
    BY <1>2, <1>3 DEF Sign

\* Bytes the node took fit: their nonce is free and not mined.
LEMMA DeliverIs ==
    ASSUME IInv, NEW r \in Requests, Deliver(r)
    PROVE  pool' = pool \cup {r} /\ row[r].nonce >= mined /\ row[r].nonce \notin fills
<1>1. pool' = pool \cup {r} /\ (r \in pool \/ Fits(row[r].nonce))
    BY DEF Deliver
<1>2. CASE r \in pool
    BY <1>1, <1>2, ClaimFacts DEF PooledOK
<1>3. CASE Fits(row[r].nonce)
    BY <1>1, <1>3 DEF Fits, Nonces
<1> QED
    BY <1>1, <1>2, <1>3

LEMMA SendInv ==
    ASSUME IInv, NEW r \in Requests, SendAccepted(r) \/ SendRejected(r) \/ SendLost(r) PROVE IInv'
<1>1. /\ stage[r] = "sending" /\ stage[r] \notin After /\ UNCHANGED <<landed, mined, fills, rec, recent, misread>>
      /\ queue # <<>> /\ Head(queue) = r /\ queue' = Tail(queue)
    BY DEF SendAccepted, SendRejected, SendLost, Holds, After, chain
<1>2. /\ row \in [Requests -> Row] /\ row[r] \in Row /\ Types /\ ClaimOK(row[r], stage[r], landed[r], r \in misread) /\ landed[r] = "no" /\ r \notin pool
      /\ QueueStep /\ mined \in Nat /\ row[r].nonce \in Int
    <2>1. mined \in Nat
        BY DEF IInv, Types
    <2>2. row[r].nonce \in Int
        BY ClaimFacts, RowTypes
    <2> QED
        BY <1>1, <2>1, <2>2, ClaimFacts, RowTypes, QueueKept
<1>3. CASE SendRejected(r)
    <2>1. MarkFailed(r) /\ Go(r, "done") /\ UNCHANGED pool
        BY <1>3 DEF SendRejected, chain
    <2> QED
        BY <1>1, <1>2, <2>1, Quits
<1>4. CASE (SendAccepted(r) \/ SendLost(r)) /\ Deliver(r)
    <2>1. pool' = pool \cup {r} /\ row[r].nonce >= mined /\ row[r].nonce \notin fills
        BY <1>4, DeliverIs
    <2>2. row[r].state = "signed"
        BY <1>1, <1>2, <2>1 DEF ClaimOK
    <2>3. Go(r, "waiting") /\ "waiting" \in StageSet /\ "sent" \in States
        BY <1>4 DEF SendAccepted, SendLost, StageSet, States, Inflight
    <2>4. PICK v \in Row : OnlyRow(r, v) /\ v.nonce = row[r].nonce /\ v.age = row[r].age /\ v.state \in Signed
        <3>1. CASE MarkSent(r)
            BY <1>2, <2>2, <2>3, <3>1, MoveIs DEF MarkSent, Signed
        <3>2. CASE UNCHANGED row
            <4>1. OnlyRow(r, row[r])
                BY <1>2, <3>2 DEF OnlyRow
            <4> QED
                BY <1>2, <2>2, <4>1 DEF Signed
        <3> QED
            BY <1>4, <3>1, <3>2 DEF SendAccepted, SendLost
    <2>5. ClaimOK(v, "waiting", landed[r], r \in misread)
        BY <1>2, <2>1, <2>2, <2>4 DEF ClaimOK, After, Live, Signed
    <2>6. Sound(r, v, "waiting")
        BY <1>2, <2>1, <2>2, <2>4, <2>5 DEF Sound, PooledOK, After, Live, Signed, Gone
    <2>7. OnlyStage(r, "waiting") /\ "waiting" \in After
        BY <1>2, <2>3, GoIs DEF After
    <2> QED
        BY <1>1, <1>2, <2>1, <2>3, <2>4, <2>6, <2>7, ClaimStep
<1>5. CASE SendLost(r) /\ UNCHANGED pool
    <2>1. Go(r, "waiting") /\ "waiting" \in StageSet /\ UNCHANGED row /\ "waiting" \in After
        BY <1>5 DEF SendLost, StageSet, After
    <2>2. OnlyRow(r, row[r]) /\ OnlyStage(r, "waiting")
        BY <1>2, <2>1, GoIs DEF OnlyRow
    <2>3. Sound(r, row[r], "waiting")
        BY <1>2, <1>5, <2>1, EndSound
    <2> QED
        BY <1>1, <1>2, <1>5, <2>1, <2>2, <2>3, ClaimStep
<1> QED
    BY <1>3, <1>4, <1>5 DEF SendAccepted, SendLost

\* The node mined the bytes, which had the next nonce, and the claim fails: it was nobody
\* else's turn, and the reconciler leaves a claim alone that is still being sent.
LEMMA SendRepeatedInv == ASSUME IInv, NEW r \in Requests, SendRepeated(r) PROVE IInv'
<1>1. /\ stage[r] = "sending" /\ stage[r] \notin After /\ queue # <<>> /\ Head(queue) = r /\ queue' = Tail(queue)
      /\ Fits(mined) /\ row[r].nonce = mined /\ mined' = mined + 1 /\ MarkFailed(r) /\ Go(r, "done")
      /\ misread' = misread \cup {r} /\ UNCHANGED <<rec, recent, pool, fills>>
    BY DEF SendRepeated, Holds, After
<1>2. /\ Types /\ ClaimOK(row[r], stage[r], landed[r], r \in misread) /\ row[r] \in Row /\ r \notin pool /\ mined \in Nat
      /\ landed \in [Requests -> Landing] /\ row \in [Requests -> Row] /\ stage \in [Requests -> StageSet]
      /\ pool \subseteq Requests /\ recent \in [Requests -> SUBSET Requests]
    BY <1>1, ClaimFacts, RowTypes DEF Types
<1>3. row[r].state = "signed" /\ "failed" \in States /\ "done" \in StageSet
    BY <1>1, <1>2 DEF ClaimOK, States, Finished, StageSet
<1>4. PICK v \in Row : OnlyRow(r, v) /\ v.nonce = mined /\ v.age = row[r].age /\ v.state = "failed" /\ ~v.quiet
    BY <1>1, <1>2, <1>3, MoveIs DEF MarkFailed, Inflight
<1>5. OnlyStage(r, "done")
    BY <1>1, <1>2, <1>3, GoIs
<1>6. /\ row' \in [Requests -> Row] /\ stage' \in [Requests -> StageSet] /\ row'[r] = v /\ stage'[r] = "done"
      /\ \A q \in Requests \ {r} : row'[q] = row[q] /\ stage'[q] = stage[q]
    BY <1>2, <1>3, <1>4, <1>5 DEF OnlyRow, OnlyStage
<1>7. landed' \in [Requests -> Landing] /\ landed'[r] # "no" /\ \A q \in Requests \ {r} : landed'[q] = landed[q]
    BY <1>2 DEF SendRepeated, Landing
<1>8. ASSUME NEW q \in Requests PROVE ClaimOK(row[q], stage[q], landed[q], q \in misread)'
    <2>1. CASE q = r
        <3>1. v.nonce < mined' /\ r \in misread'
            BY <1>1, <1>2, <1>4
        <3> QED
            BY <1>4, <1>6, <2>1, <3>1 DEF ClaimOK, Live, Signed, After
    <2>2. CASE q # r
        <3>1. ClaimOK(row[q], stage[q], landed[q], q \in misread) /\ row[q].nonce \in Int
            BY ClaimFacts, RowTypes
        <3>2. row[q].nonce < mined => row[q].nonce < mined'
            BY <1>1, <1>2, <3>1
        <3>3. /\ row'[q] = row[q] /\ stage'[q] = stage[q] /\ landed'[q] = landed[q]
              /\ (q \in misread') = (q \in misread)
            BY <1>1, <1>6, <1>7, <2>2
        <3> QED
            BY <3>1, <3>2, <3>3 DEF ClaimOK
    <2> QED
        BY <2>1, <2>2
<1>9. ASSUME NEW q \in pool' PROVE PooledOK(row[q], stage[q], landed[q])'
    <2>1. q \in pool /\ q \in Requests /\ q # r
        BY <1>1, <1>2
    <2>2. PooledOK(row[q], stage[q], landed[q]) /\ row[q].nonce \in Int
        BY <2>1, ClaimFacts, RowTypes
    <2>3. row[q].nonce # mined
        BY <1>1, <2>1 DEF Fits, Nonces
    <2>4. row[q].nonce >= mined'
        BY <1>1, <1>2, <2>2, <2>3 DEF PooledOK
    <2> QED
        BY <1>1, <1>6, <1>7, <2>1, <2>2, <2>4 DEF PooledOK
<1>10. NonceExclusive'
    BY <1>4, <1>6 DEF IInv, ClaimsInv, NonceExclusive, Signed
<1>11. RecentInv'
    <2> SUFFICES ASSUME NEW p \in Requests, NEW q \in recent[p]
                 PROVE  row'[q].state \in Gone /\ (landed'[q] # "success" \/ q \in misread')
        BY <1>1 DEF RecentInv
    <2>1. q \in Requests /\ row[q].state \in Gone /\ (landed[q] # "success" \/ q \in misread)
        BY <1>2 DEF IInv, RecentInv
    <2>2. q # r
        BY <1>3, <2>1 DEF Gone
    <2> QED
        BY <1>1, <1>6, <1>7, <2>1, <2>2
<1>12. RecInv'
    <2>1. rec.todo \subseteq Entry /\ \A t \in rec.todo : t.claim \in Requests /\ TodoOK(t)
        BY DEF IInv, Types, Rec, Entry, RecInv
    <2>2. \A q \in Requests : row'[q].nonce = row[q].nonce
        BY <1>1, <1>4, <1>6
    <2>3. rec' = rec
        BY <1>1
    <2>4. Current' = Current /\ Claim' = Claim
        BY <2>1, <2>2, <2>3, CurrentKept
    <2>5. ASSUME NEW t \in rec.todo PROVE TodoOK(t)'
        <3>1. CASE t.claim = r
            BY <1>1, <1>2, <1>4, <1>6, <2>1, <3>1 DEF TodoOK, After
        <3>2. CASE t.claim # r
            BY <1>6, <1>7, <2>1, <3>2 DEF TodoOK
        <3> QED
            BY <3>1, <3>2
    <2>6. rec.at = "again" => row'[Claim].nonce < mined'
        <3>1. SUFFICES ASSUME rec.at = "again" PROVE row'[Claim].nonce < mined'
            OBVIOUS
        <3>2. row[Claim].nonce < mined /\ Claim \in Requests
            BY <1>2, <2>1, <3>1, CurrentIs DEF IInv, RecInv
        <3>3. row[Claim].nonce \in Int
            BY <1>2, <3>2, RowTypes
        <3> QED
            BY <1>1, <1>2, <2>2, <3>2, <3>3
    <2>7. rec.mined <= mined'
        BY <1>1, RecMined
    <2> QED
        BY <1>1, <2>3, <2>4, <2>5, <2>6, <2>7 DEF IInv, RecInv
<1>13. Types' /\ Holding(queue)'
    <2>1. QueueStep
        BY <1>1, QueueKept
    <2>2. misread' \subseteq Requests
        BY <1>1 DEF IInv, Types
    <2> QED
        BY <1>1, <1>2, <1>6, <1>7, <2>1, <2>2 DEF Types, QueueStep, Holding
<1> QED
    BY <1>8, <1>9, <1>10, <1>11, <1>12, <1>13 DEF IInv, ClaimsInv

LEMMA AwaitInv == ASSUME IInv, NEW r \in Requests, Await(r) PROVE IInv'
<1>1. stage[r] = "waiting" /\ Go(r, "done") /\ UNCHANGED <<pool, landed, mined, fills, rec, recent, misread>> /\ UNCHANGED queue
    BY DEF Await, chain
<1>2. Types /\ QueueStep /\ "done" \in StageSet /\ "done" \in After
    BY <1>1, QueueKept, ClaimFacts DEF StageSet, After
<1>3. CASE UNCHANGED row
    BY <1>1, <1>2, <1>3, Moves
<1>4. CASE landed[r] # "no" /\ MarkReceipt(r)
    <2>1. PICK v \in Row : OnlyRow(r, v) /\ Sound(r, v, "done") /\ v.nonce = row[r].nonce
        BY <1>1, <1>2, <1>4, ReceiptSound
    <2>2. OnlyStage(r, "done")
        BY <1>1, <1>2, GoIs
    <2> QED
        BY <1>1, <1>2, <1>4, <2>1, <2>2, ClaimStep
<1> QED
    BY <1>3, <1>4 DEF Await

\* The claims a reservation looks past have failed, were skipped, or are out of the window.
LEMMA ReserveInv == ASSUME IInv, NEW r \in Requests, Reserve(r) PROVE IInv'
<1>1. /\ stage[r] = "idle" /\ Go(r, "planning") /\ UNCHANGED <<pool, landed, mined, fills, rec, misread>> /\ UNCHANGED queue
    BY DEF Reserve, chain
<1>2. PICK a \in Asks[r] :
         /\ Admitted(a)
         /\ row' = [row EXCEPT ![r].state = "reserved", ![r].ask = a]
         /\ recent' = [recent EXCEPT ![r] = {q \in SameOwner(a) : row[q].age < Window}]
    BY DEF Reserve
<1>3. /\ row \in [Requests -> Row] /\ row[r] \in Row /\ Types /\ ClaimOK(row[r], stage[r], landed[r], r \in misread) /\ landed[r] = "no" /\ r \notin pool
      /\ queue \in Seq(Requests \cup {Reconciler}) /\ row[r].state = "none" /\ ~row[r].quiet
      /\ recent \in [Requests -> SUBSET Requests]
    <2>1. stage[r] \notin After
        BY <1>1 DEF After
    <2> QED
        BY <1>1, <2>1, ClaimFacts, RowTypes DEF ClaimOK, Types
<1>4. PICK v : v = [row[r] EXCEPT !.state = "reserved", !.ask = a]
    OBVIOUS
<1>5. v \in Row /\ v.state = "reserved" /\ v.quiet = row[r].quiet /\ v.nonce = row[r].nonce
    <2>1. a \in AskSet
        BY DEF AskSet
    <2> QED
        BY <1>3, <1>4, <2>1 DEF Row, States, Inflight
<1>6. OnlyRow(r, v)
    BY <1>2, <1>3, <1>4 DEF OnlyRow, Row
<1>7. OnlyStage(r, "planning") /\ "planning" \in StageSet
    BY <1>1, <1>3, GoIs DEF StageSet
<1>8. Sound(r, v, "planning")
    <2>1. ClaimOK(v, "planning", landed[r], r \in misread)
        BY <1>3, <1>5 DEF ClaimOK, Live, Signed
    <2> QED
        BY <1>1, <1>3, <1>5, <2>1 DEF Sound, Live, Signed, Gone
<1>9. recent' \in [Requests -> SUBSET Requests]
    BY <1>2, <1>3 DEF SameOwner
<1>10. RecentInv'
    <2> SUFFICES ASSUME NEW p \in Requests, NEW q \in recent'[p] PROVE row'[q].state \in Gone /\ (landed'[q] # "success" \/ q \in misread')
        BY DEF RecentInv
    <2>1. q \in Requests
        BY <1>9
    <2>2. SUFFICES row[q].state \in Gone /\ (landed[q] # "success" \/ q \in misread)
        <3>1. "none" \notin Gone
            BY DEF Gone
        <3> QED
            BY <1>1, <1>3, <1>6, <2>1, <2>2, <3>1 DEF OnlyRow
    <2>3. CASE p # r
        BY <1>2, <1>3, <2>3 DEF IInv, RecentInv
    <2>4. CASE p = r
        <3>1. Kind(q) = a.kind /\ q \in SameOwner(a) /\ row[q].age < Window
            BY <1>2, <1>3, <2>4 DEF SameOwner
        <3>2. row[q].state \notin Inflight /\ (row[q].state \in Active => row[q].age >= Window)
            BY <1>2, <3>1 DEF Admitted
        <3>3. row[q].age \in 0 .. Retention /\ row[q].state \in States /\ ClaimOK(row[q], stage[q], landed[q], q \in misread)
            BY <1>3, <2>1, ClaimFacts, RowTypes
        <3>4. row[q].state # "none"
            BY <2>1, <3>1, <3>3, RequestAssumption DEF ClaimOK, Kind, NoAsk
        <3>5. row[q].state # "pruned"
            BY <3>1, <3>3, ParamTypes DEF ClaimOK
        <3>6. row[q].state \notin Active
            BY <3>1, <3>2, <3>3, ParamTypes
        <3>7. row[q].state \in {"failed", "skipped"}
            BY <3>3, <3>4, <3>5, <3>6 DEF States, Active, Finished
        <3> QED
            BY <3>3, <3>7 DEF ClaimOK, Gone
    <2> QED
        BY <2>3, <2>4
<1>11. stage[r] \notin After \cup {"sending"}
    BY <1>1 DEF After
<1>12. pool' \in {pool, pool \cup {r}} /\ QueueStep
    BY <1>1, QueueKept
<1> QED
    BY <1>1, <1>5, <1>6, <1>7, <1>8, <1>9, <1>10, <1>11, <1>12, ClaimStep

-----------------------------------------------------------------------------
(* The node, time and deaths.                                              *)

\* What the chain and the node do to the claims: the nonce moves on, pools lose bytes and
\* at most the claim whose nonce was next is mined.
LEMMA NodeInv ==
    ASSUME IInv, UNCHANGED <<row, stage, queue, rec, recent, misread>>, mined' \in {mined, mined + 1}, pool' \subseteq pool, fills' \subseteq fills,
           NEW done \in SUBSET pool, \A r \in done : row[r].nonce = mined /\ mined' = mined + 1 /\ r \notin pool',
           \A r \in pool' : mined' # mined => row[r].nonce # mined,
           landed' \in [Requests -> Landing], \A q \in Requests \ done : landed'[q] = landed[q]
    PROVE  IInv'
<1>1. Types /\ mined \in Nat /\ mined' \in Nat /\ mined <= mined' /\ pool \subseteq Requests /\ recent \in [Requests -> SUBSET Requests]
    BY DEF IInv, Types
<1>2. Types' /\ Holding(queue)'
    <2>1. fills' \subseteq Nat /\ IsFiniteSet(fills') /\ pool' \subseteq Requests
        BY <1>1, FS_Subset DEF Types
    <2> QED
        BY <1>1, <2>1 DEF Types, IInv, Holding
<1>3. ASSUME NEW q \in Requests PROVE ClaimOK(row[q], stage[q], landed[q], q \in misread)'
    <2>1. ClaimOK(row[q], stage[q], landed[q], q \in misread) /\ row[q].nonce \in Int /\ (q \in pool => PooledOK(row[q], stage[q], landed[q]))
        BY <1>1, ClaimFacts, RowTypes
    <2>2. CASE q \in done
        <3>1. row[q].state \in Signed /\ stage[q] \in After /\ row[q].nonce < mined'
            BY <1>1, <2>1, <2>2 DEF PooledOK
        <3> QED
            BY <2>1, <3>1 DEF ClaimOK, Signed, After
    <2>3. CASE q \notin done
        <3>1. row[q].nonce < mined => row[q].nonce < mined'
            BY <1>1, <2>1
        <3> QED
            BY <2>1, <2>3, <3>1 DEF ClaimOK
    <2> QED
        BY <2>2, <2>3
<1>4. ASSUME NEW q \in pool' PROVE PooledOK(row[q], stage[q], landed[q])'
    <2>1. q \in Requests /\ PooledOK(row[q], stage[q], landed[q]) /\ row[q].nonce \in Int /\ q \notin done
        BY <1>1, ClaimFacts, RowTypes
    <2>2. row[q].nonce >= mined'
        BY <1>1, <2>1 DEF PooledOK
    <2> QED
        BY <2>1, <2>2 DEF PooledOK
<1>5. ClaimsInv'
    BY <1>3, <1>4 DEF IInv, ClaimsInv, NonceExclusive
<1>6. RecentInv'
    <2> SUFFICES ASSUME NEW p \in Requests, NEW q \in recent[p] PROVE row[q].state \in Gone /\ (landed'[q] # "success" \/ q \in misread')
        BY DEF RecentInv
    <2>1. q \in Requests /\ row[q].state \in Gone /\ (landed[q] # "success" \/ q \in misread)
        BY <1>1 DEF IInv, RecentInv
    <2>2. q \notin pool
        BY <2>1, ClaimFacts DEF PooledOK, Gone, Signed
    <2> QED
        BY <2>1, <2>2
<1>7. RecInv'
    <2>0. rec.todo \subseteq Entry /\ \A t \in rec.todo : t.claim \in Requests /\ TodoOK(t)
        BY DEF IInv, Types, Rec, Entry, RecInv
    <2>1. Current' = Current /\ Claim' = Claim
        BY CurrentKept
    <2>2. ASSUME NEW t \in rec.todo PROVE TodoOK(t)'
        <3>1. landed[t.claim] # "no" => landed'[t.claim] # "no"
            BY <2>0, ClaimFacts DEF PooledOK
        <3> QED
            BY <2>0, <3>1 DEF TodoOK
    <2>3. rec.at = "again" => row[Claim].nonce < mined'
        <3>1. SUFFICES ASSUME rec.at = "again" PROVE row[Claim].nonce < mined'
            OBVIOUS
        <3>2. row[Claim].nonce < mined /\ Claim \in Requests
            BY <2>0, <3>1, <1>1, CurrentIs DEF IInv, RecInv
        <3>3. row[Claim].nonce \in Int
            BY <1>1, <3>2, RowTypes
        <3> QED
            BY <1>1, <3>2, <3>3
    <2>4. rec.mined <= mined'
        <3>1. rec.mined \in Int /\ rec.mined <= mined
            BY DEF IInv, Types, Rec, RecInv
        <3> QED
            BY <1>1, <3>1
    <2> QED
        BY <2>1, <2>2, <2>3, <2>4 DEF IInv, RecInv
<1> QED
    BY <1>2, <1>5, <1>6, <1>7 DEF IInv

LEMMA MineInv == ASSUME IInv, Mine PROVE IInv'
<1>0. pool \subseteq Requests /\ landed \in [Requests -> Landing]
    BY DEF IInv, Types
<1>1. ASSUME NEW r \in pool, NEW outcome \in {"success", "reverted"}, row[r].nonce = mined, pool' = pool \ {r},
             mined' = mined + 1, landed' = [landed EXCEPT ![r] = outcome],
             UNCHANGED <<row, stage, queue, rec, booted, fills, recent, misread, faults>>
      PROVE  IInv'
    <2>1. \A q \in pool \ {r} : row[q].nonce # mined
        <3> SUFFICES ASSUME NEW q \in pool \ {r} PROVE row[q].nonce # row[r].nonce
            BY <1>1
        <3>1. row[q].state \in Signed /\ row[r].state \in Signed
            BY <1>0, ClaimFacts DEF PooledOK
        <3> QED
            BY <1>0, <3>1 DEF IInv, ClaimsInv, NonceExclusive
    <2>2. landed' \in [Requests -> Landing] /\ \A q \in Requests \ {r} : landed'[q] = landed[q]
        BY <1>0, <1>1 DEF Landing
    <2>3. {r} \in SUBSET pool /\ pool' \subseteq pool /\ fills' \subseteq fills
        BY <1>1
    <2> QED
        BY <1>1, <2>1, <2>2, <2>3, NodeInv
<1>2. CASE /\ mined \in fills /\ fills' = fills \ {mined} /\ mined' = mined + 1
           /\ UNCHANGED <<row, stage, queue, rec, booted, pool, landed, recent, misread, faults>>
    <2>1. \A q \in pool : row[q].nonce # mined
        BY <1>0, <1>2, ClaimFacts DEF PooledOK
    <2>2. {} \in SUBSET pool /\ pool' \subseteq pool /\ fills' \subseteq fills /\ landed' \in [Requests -> Landing]
        BY <1>0, <1>2
    <2> QED
        BY <1>2, <2>1, <2>2, NodeInv
<1> QED
    BY <1>1, <1>2 DEF Mine

LEMMA EvictInv == ASSUME IInv, Evict PROVE IInv'
<1>1. landed \in [Requests -> Landing]
    BY DEF IInv, Types
<1>2. pool' \subseteq pool /\ fills' \subseteq fills /\ UNCHANGED <<row, stage, queue, rec, mined, landed, recent, misread>>
    BY DEF Evict
<1>3. {} \in SUBSET pool
    OBVIOUS
<1> QED
    BY <1>1, <1>2, <1>3, NodeInv

\* A row as it may be left: none comes alive, none that is gone comes back.
Kept(q, v, s) ==
    /\ ClaimOK(v, s, landed[q], q \in misread) /\ (q \in pool => PooledOK(v, s, landed[q]))
    /\ v.state \in Live => row[q].state \in Live /\ v.nonce = row[q].nonce
    /\ row[q].state \in Gone => v.state \in Gone

LEMMA RowsChange ==
    ASSUME IInv, row' \in [Requests -> Row], stage' \in [Requests -> StageSet],
           UNCHANGED <<pool, fills, mined, landed, recent, misread>>,
           \A q \in Requests : Kept(q, row'[q], stage'[q])
    PROVE  ClaimsInv' /\ RecentInv'
<1>0. pool \subseteq Requests /\ recent \in [Requests -> SUBSET Requests]
    BY DEF IInv, Types
<1>1. ASSUME NEW q \in Requests PROVE ClaimOK(row[q], stage[q], landed[q], q \in misread)'
    BY <1>1 DEF Kept, ClaimOK
<1>2. ASSUME NEW q \in pool PROVE PooledOK(row[q], stage[q], landed[q])'
    BY <1>0, <1>2 DEF Kept, PooledOK
<1>3. NonceExclusive'
    BY DEF IInv, ClaimsInv, NonceExclusive, Live, Kept
<1>4. RecentInv'
    BY <1>0 DEF IInv, RecentInv, Kept
<1> QED
    BY <1>1, <1>2, <1>3, <1>4 DEF ClaimsInv

LEMMA TickInv == ASSUME IInv, Tick PROVE IInv'
<1>1. /\ \A r \in Requests : stage[r] # "sending"
      /\ UNCHANGED <<stage, queue, rec, recent, misread, pool, fills, mined, landed>>
    BY Zenon DEF Tick, chain
<1>2. row \in [Requests -> Row]
    BY DEF IInv, Types
<1>3. ASSUME NEW q \in Requests
      PROVE  /\ row'[q] \in Row /\ row'[q].state = row[q].state /\ row'[q].nonce = row[q].nonce /\ row'[q].ask = row[q].ask
             /\ row[q].state \in {"none", "pruned"} => row'[q] = row[q]
             /\ row'[q] # row[q] => row'[q].quiet = (row[q].state \in Signed)
    <2>1. row[q] \in Row /\ Retention \in Nat
        BY <1>2, ParamTypes
    <2>2. CASE row[q].state \in {"none", "pruned"}
        <3>1. row'[q] = row[q]
            BY <2>2, Zenon DEF Tick
        <3> QED
            BY <2>1, <3>1
    <2>3. CASE row[q].state \notin {"none", "pruned"}
        <3>1. PICK a : a = IF row[q].age < Retention THEN row[q].age + 1 ELSE row[q].age
            OBVIOUS
        <3>2. PICK b : b = (row[q].state \in Signed)
            OBVIOUS
        <3>3. a \in 0 .. Retention /\ b \in BOOLEAN
            <4>1. row[q].age \in 0 .. Retention
                BY <2>1 DEF Row
            <4> QED
                BY <2>1, <3>1, <3>2, <4>1
        <3>4. row'[q] = [row[q] EXCEPT !.age = a, !.quiet = b]
            BY <2>3, <3>1, <3>2, Zenon DEF Tick
        <3>5. row'[q] \in Row /\ row'[q].state = row[q].state /\ row'[q].nonce = row[q].nonce /\ row'[q].ask = row[q].ask /\ row'[q].quiet = b
            BY <2>1, <3>3, <3>4 DEF Row
        <3> QED
            BY <2>3, <3>2, <3>5
    <2> QED
        BY <2>2, <2>3
<1>4. row' \in [Requests -> Row] /\ stage' \in [Requests -> StageSet]
    <2>1. row' = [q \in Requests |-> row'[q]]
        BY Zenon DEF Tick
    <2> QED
        BY <1>1, <1>3, <2>1 DEF IInv, Types
<1>5. ASSUME NEW q \in Requests
      PROVE  Kept(q, row'[q], stage'[q])
    <2>1. ClaimOK(row[q], stage[q], landed[q], q \in misread) /\ (q \in pool => PooledOK(row[q], stage[q], landed[q]))
        BY ClaimFacts
    <2>2. row'[q].quiet => stage[q] \in After
        BY <1>1, <1>3, <2>1 DEF ClaimOK, Live
    <2> QED
        BY <1>1, <1>3, <2>1, <2>2 DEF Kept, ClaimOK, PooledOK
<1>6. ClaimsInv' /\ RecentInv'
    BY <1>1, <1>4, <1>5, RowsChange
<1>7. RecInv'
    <2>1. ASSUME NEW q \in Requests, stage[q] \in After \cup {"sending"}
          PROVE  row'[q].nonce = row[q].nonce /\ stage'[q] \in After \cup {"sending"}
        BY <1>1, <1>3, <2>1
    <2>2. ASSUME NEW q \in Requests, stage[q] \in After
          PROVE  /\ stage'[q] \in After /\ (q \in pool' => q \in pool)
                 /\ row[q].state \in Signed => row'[q].state \in Signed \/ landed[q] # "no"
        BY <1>1, <1>3, <2>2
    <2>3. UNCHANGED <<rec, landed, mined>>
        BY <1>1
    <2> QED
        BY <2>1, <2>2, <2>3, RecFrame
<1>8. Types' /\ Holding(queue)'
    BY <1>1, <1>4 DEF IInv, Types, Holding
<1> QED
    BY <1>6, <1>7, <1>8 DEF IInv

LEMMA CrashInv == ASSUME IInv, Crash PROVE IInv'
<1>1. /\ stage' = [r \in Requests |-> IF stage[r] = "idle" THEN "idle" ELSE "done"]
      /\ queue' = <<>> /\ rec' = IdleRec /\ UNCHANGED <<row, recent, misread, pool, fills, mined, landed>>
    BY DEF Crash, chain
<1>2. row \in [Requests -> Row] /\ row' \in [Requests -> Row] /\ stage' \in [Requests -> StageSet] /\ mined \in Nat
    BY <1>1 DEF IInv, Types, StageSet
<1>3. ASSUME NEW q \in Requests
      PROVE  Kept(q, row'[q], stage'[q])
    <2>1. ClaimOK(row[q], stage[q], landed[q], q \in misread) /\ (q \in pool => PooledOK(row[q], stage[q], landed[q]))
        BY ClaimFacts
    <2>2. stage'[q] = IF stage[q] = "idle" THEN "idle" ELSE "done"
        BY <1>1
    <2> QED
        BY <1>1, <2>1, <2>2 DEF Kept, ClaimOK, PooledOK, After
<1>4. ClaimsInv' /\ RecentInv'
    BY <1>1, <1>2, <1>3, RowsChange
<1>5. rec' \in Rec /\ rec'.taken = {} /\ rec'.todo = {} /\ rec'.at = "idle" /\ rec'.mined = -1
    BY <1>1 DEF IdleRec, Rec, Points
<1>6. RecInv'
    BY <1>1, <1>2, <1>5 DEF RecInv
<1>7. Types' /\ Holding(queue)'
    <2>1. IsFiniteSet(rec'.taken)
        BY <1>5, FS_EmptySet
    <2>2. queue' \in Seq(Requests \cup {Reconciler})
        BY <1>1
    <2> QED
        BY <1>1, <1>2, <1>5, <2>1, <2>2 DEF IInv, Types, Holding
<1> QED
    BY <1>4, <1>6, <1>7 DEF IInv

-----------------------------------------------------------------------------
(* The reconciler.                                                         *)

LEMMA SweepIs ==
    ASSUME IInv, row' = Sweep, NEW q \in Requests
    PROVE  /\ row'[q] \in Row /\ row'[q].nonce = row[q].nonce /\ row'[q].ask = row[q].ask /\ row'[q].age = row[q].age
           /\ row'[q].quiet => row[q].quiet
           /\ \/ row'[q] = row[q]
              \/ row[q].state \in Finished /\ row[q].age = Retention /\ row'[q].state = "pruned"
              \/ row[q].state = "reserved" /\ row'[q].state = "failed" /\ ~row'[q].quiet
<1>1. row[q] \in Row /\ row[q].age \in 0 .. Retention /\ Retention \in Nat
    BY RowTypes, ParamTypes DEF IInv
<1>2. row'[q] = CASE Pruned(q) -> [row[q] EXCEPT !.state = "pruned"]
              [] Stale(q) -> [row[q] EXCEPT !.state = "failed", !.quiet = FALSE]
              [] OTHER -> row[q]
    BY Zenon DEF Sweep
<1>3. {"pruned", "failed"} \subseteq States /\ "reserved" \notin Finished
    BY DEF States, Finished
<1>4. CASE Pruned(q)
    <2>1. row'[q] = [row[q] EXCEPT !.state = "pruned"]
        BY <1>2, <1>3, <1>4 DEF Pruned, Stale
    <2>2. /\ row'[q] \in Row /\ row'[q].nonce = row[q].nonce /\ row'[q].ask = row[q].ask /\ row'[q].age = row[q].age
          /\ row'[q].quiet = row[q].quiet /\ row'[q].state = "pruned"
        BY <1>1, <1>3, <2>1 DEF Row
    <2>3. row[q].age = Retention /\ row[q].state \in Finished
        BY <1>1, <1>4 DEF Pruned
    <2> QED
        BY <2>2, <2>3
<1>5. CASE Stale(q)
    <2>1. row'[q] = [row[q] EXCEPT !.state = "failed", !.quiet = FALSE]
        BY <1>2, <1>3, <1>5 DEF Pruned, Stale
    <2>2. /\ row'[q] \in Row /\ row'[q].nonce = row[q].nonce /\ row'[q].ask = row[q].ask /\ row'[q].age = row[q].age
          /\ row'[q].quiet = FALSE /\ row'[q].state = "failed"
        BY <1>1, <1>3, <2>1 DEF Row
    <2> QED
        BY <1>5, <2>2 DEF Stale
<1>6. CASE ~Pruned(q) /\ ~Stale(q)
    <2>1. row'[q] = row[q]
        BY <1>2, <1>6
    <2> QED
        BY <1>1, <2>1
<1> QED
    BY <1>4, <1>5, <1>6

LEMMA StartReconcileInv == ASSUME IInv, StartReconcile PROVE IInv'
<1>1. rec.at = "idle" /\ row' = Sweep /\ UNCHANGED <<stage, queue, recent, misread, pool, fills, mined, landed>>
    BY DEF StartReconcile, chain
<1>2. row' \in [Requests -> Row] /\ stage' \in [Requests -> StageSet]
    <2>1. row' = [q \in Requests |-> row'[q]]
        <3> DEFINE Swept(r) == CASE Pruned(r) -> [row[r] EXCEPT !.state = "pruned"]
                                 [] Stale(r) -> [row[r] EXCEPT !.state = "failed", !.quiet = FALSE]
                                 [] OTHER -> row[r]
        <3>1. Sweep = [r \in Requests |-> Swept(r)]
            BY Zenon DEF Sweep
        <3> HIDE DEF Swept
        <3> QED
            BY <1>1, <3>1
    <2> QED
        BY <1>1, <2>1, SweepIs DEF IInv, Types
<1>3. ASSUME NEW q \in Requests
      PROVE  Kept(q, row'[q], stage'[q]) /\ (row[q].state \in Signed => row'[q] = row[q])
    <2>1. ClaimOK(row[q], stage[q], landed[q], q \in misread) /\ (q \in pool => PooledOK(row[q], stage[q], landed[q]))
        BY ClaimFacts
    <2>2. /\ row'[q].nonce = row[q].nonce /\ row'[q].age = row[q].age
          /\ row'[q].quiet => row[q].quiet
          /\ \/ row'[q] = row[q]
             \/ row[q].state \in Finished /\ row[q].age = Retention /\ row'[q].state = "pruned"
             \/ row[q].state = "reserved" /\ row'[q].state = "failed" /\ ~row'[q].quiet
        BY <1>1, SweepIs
    <2>3. CASE row'[q] = row[q]
        BY <1>1, <2>1, <2>3 DEF Kept
    <2>4. CASE row[q].state \in Finished /\ row[q].age = Retention /\ row'[q].state = "pruned"
        BY <1>1, <2>1, <2>2, <2>4 DEF Kept, ClaimOK, PooledOK, Finished, Signed, Live, Gone
    <2>5. CASE row[q].state = "reserved" /\ row'[q].state = "failed" /\ ~row'[q].quiet
        BY <1>1, <2>1, <2>2, <2>5 DEF Kept, ClaimOK, PooledOK, Signed, Live, Gone
    <2> QED
        BY <2>2, <2>3, <2>4, <2>5
<1>4. ClaimsInv' /\ RecentInv'
    BY <1>1, <1>2, <1>3, RowsChange
<1>5. CASE UNCHANGED rec
    <2>1. RecInv' /\ Types' /\ Holding(queue)'
        BY <1>1, <1>2, <1>5 DEF IInv, RecInv, Types, Holding
    <2> QED
        BY <1>4, <2>1 DEF IInv
<1>6. CASE rec' = [IdleRec EXCEPT !.at = "next", !.todo = Todo]
    <2>1. ASSUME NEW t \in Todo PROVE t \in Entry /\ TodoOK(t)'
        <3>1. PICK r \in Requests : row[r].state \in Signed /\ t = [claim |-> r, due |-> row[r].quiet]
            BY <2>1 DEF Todo
        <3>2. ClaimOK(row[r], stage[r], landed[r], r \in misread) /\ row'[r] = row[r] /\ row[r].quiet \in BOOLEAN
            BY <1>3, <3>1, ClaimFacts, RowTypes DEF Row
        <3>3. t.claim = r /\ t.due = row[r].quiet /\ t \in Entry
            BY <3>1, <3>2 DEF Entry
        <3> QED
            BY <1>1, <3>1, <3>2, <3>3 DEF TodoOK, ClaimOK, Live
    <2>2. \A t, u \in Todo : t.claim = u.claim => t = u
        BY DEF Todo
    <2> HIDE DEF Todo
    <2>3. rec' \in Rec /\ rec'.at = "next" /\ rec'.todo = Todo /\ rec'.mined = -1 /\ rec'.taken = {}
        BY <1>6, <2>1 DEF IdleRec, Rec, Points
    <2>4. mined \in Nat /\ IsFiniteSet({})
        BY FS_EmptySet DEF IInv, Types
    <2>5. RecInv'
        BY <1>1, <2>1, <2>2, <2>3, <2>4 DEF RecInv
    <2>6. Types' /\ Holding(queue)'
        BY <1>1, <1>2, <2>3, <2>4 DEF IInv, Types, Holding
    <2> QED
        BY <1>4, <2>5, <2>6 DEF IInv
<1> QED
    BY <1>5, <1>6 DEF StartReconcile

\* The row the reconciler is at: what it remembers of it still holds.
LEMMA ClaimIs ==
    ASSUME IInv, rec.todo # {}
    PROVE  /\ Types /\ Claim \in Requests /\ Current \in rec.todo /\ Current \in Entry /\ Current.claim = Claim /\ TodoOK(Current)
           /\ stage[Claim] \in After \cup {"sending"} /\ stage[Claim] \in StageSet /\ row[Claim].nonce \in Nat /\ mined \in Nat
           /\ Current.due => stage[Claim] \in After /\ (row[Claim].state \in Signed \/ landed[Claim] # "no")
           /\ \A t \in rec.todo \ {Current} : t.claim \in Requests /\ t.claim # Claim
<1>1. Types /\ (\A t \in rec.todo : TodoOK(t)) /\ rec.todo \subseteq Entry /\ mined \in Nat
    BY DEF IInv, RecInv, Types, Rec
<1>2. Current \in rec.todo /\ Current \in Entry /\ Claim \in Requests /\ Current.claim = Claim
    BY <1>1, CurrentIs DEF Claim
<1>3. TodoOK(Current)
    BY <1>1, <1>2
<1>4. \A t \in rec.todo \ {Current} : t.claim \in Requests /\ t.claim # Claim
    <2>1. \A t, u \in rec.todo : t.claim = u.claim => t = u
        BY DEF IInv, RecInv
    <2> QED
        BY <1>1, <1>2, <2>1 DEF Entry
<1> QED
    BY <1>1, <1>2, <1>3, <1>4 DEF TodoOK, StageSet, After

\* One row dealt with: the others to do are as they were.
LEMMA DoneWith ==
    ASSUME IInv, rec.todo # {}, NEW v \in Row, OnlyRow(Claim, v), UNCHANGED <<stage, queue, recent, misread, fills, mined, landed>>,
           Sound(Claim, v, stage[Claim]), pool' \in {pool, pool \cup {Claim}},
           rec' \in Rec, rec'.at = "next", rec'.todo = rec.todo \ {Current}, rec'.taken = rec.taken, rec'.mined <= mined
    PROVE  IInv'
<1>1. PICK c : c = Claim
    OBVIOUS
<1>2. PICK cur : cur = Current
    OBVIOUS
<1>3. /\ c \in Requests /\ stage[c] \in StageSet /\ \A t \in rec.todo \ {cur} : t.claim \in Requests /\ t.claim # c
    BY <1>1, <1>2, ClaimIs
<1>4. OnlyRow(c, v) /\ Sound(c, v, stage[c]) /\ pool' \in {pool, pool \cup {c}} /\ rec'.todo = rec.todo \ {cur}
    BY <1>1, <1>2
<1>5. stage \in [Requests -> StageSet] /\ OnlyStage(c, stage[c])
    BY DEF IInv, Types, OnlyStage
<1>6. UNCHANGED <<landed, mined, fills, misread>>
    OBVIOUS
<1>7. /\ ClaimsInv' /\ row' \in [Requests -> Row] /\ stage' \in [Requests -> StageSet] /\ pool' \subseteq Requests
      /\ \A q \in Requests : q # c => row'[q] = row[q] /\ stage'[q] = stage[q]
      /\ RecentInv'
    BY <1>3, <1>4, <1>5, <1>6, ClaimChanges
<1>8. \A t \in rec'.todo : TodoOK(t)'
    <2> SUFFICES ASSUME NEW t \in rec.todo \ {cur} PROVE TodoOK(t)'
        BY <1>4
    <2>1. TodoOK(t)
        BY DEF IInv, RecInv
    <2> QED
        BY <1>3, <1>7, <2>1 DEF TodoOK
<1>9. RecInv'
    <2>1. \A t, u \in rec'.todo : t.claim = u.claim => t = u
        BY <1>4 DEF IInv, RecInv
    <2> QED
        BY <1>8, <2>1 DEF RecInv
<1>10. Types' /\ Holding(queue)'
    BY <1>7 DEF IInv, Types, Holding
<1> QED
    BY <1>7, <1>9, <1>10 DEF IInv

LEMMA RestIs ==
    ASSUME Types, NEW m \in Nat \cup {-1}, rec' = Rest \/ rec' = [Rest EXCEPT !.mined = m]
    PROVE  /\ rec' \in Rec /\ rec'.at = "next" /\ rec'.todo = rec.todo \ {Current} /\ rec'.taken = rec.taken
           /\ rec'.mined \in {rec.mined, m}
<1>1. rec \in Rec
    BY DEF Types
<1>2. PICK cur : cur = Current
    OBVIOUS
<1>3. PICK rest : rest = [rec EXCEPT !.at = "next", !.todo = rec.todo \ {cur}]
    OBVIOUS
<1>4. rest \in Rec /\ rest.at = "next" /\ rest.todo = rec.todo \ {cur} /\ rest.taken = rec.taken /\ rest.mined = rec.mined
    BY <1>1, <1>3 DEF Rec, Points
<1>5. rec' = rest \/ rec' = [rest EXCEPT !.mined = m]
    BY <1>2, <1>3 DEF Rest
<1> QED
    BY <1>2, <1>4, <1>5 DEF Rec

\* The row is left as it is.
LEMMA LeftAlone ==
    ASSUME IInv, rec.todo # {}, UNCHANGED <<row, stage, queue, recent, misread, fills, mined, landed>>, UNCHANGED pool,
           NEW m \in Nat \cup {-1}, m <= mined, rec' = Rest \/ rec' = [Rest EXCEPT !.mined = m]
    PROVE  IInv'
<1>1. PICK c : c = Claim
    OBVIOUS
<1>2. Types /\ c \in Requests /\ stage[c] \in StageSet /\ stage[c] \in After \cup {"sending"} /\ row[c] \in Row /\ row \in [Requests -> Row]
    BY <1>1, ClaimIs, RowTypes
<1>3. OnlyRow(c, row[c])
    BY <1>2 DEF OnlyRow
<1>4. Sound(c, row[c], stage[c])
    BY <1>2, EndSound
<1>5. /\ rec' \in Rec /\ rec'.at = "next" /\ rec'.todo = rec.todo \ {Current} /\ rec'.taken = rec.taken /\ rec'.mined <= mined
    BY <1>2, RestIs, RecMined
<1>6. UNCHANGED <<stage, queue, recent, misread, fills, mined, landed>> /\ pool' \in {pool, pool \cup {Claim}}
    OBVIOUS
<1> QED
    BY <1>1, <1>2, <1>3, <1>4, <1>5, <1>6, DoneWith

LEMMA DeferInv == ASSUME IInv, Defer PROVE IInv'
<1>1. rec.todo # {} /\ rec' = Rest /\ UNCHANGED <<row, stage, queue, recent, misread, fills, mined, landed>> /\ UNCHANGED pool
    BY DEF Defer, chain
<1> QED
    BY <1>1, LeftAlone, RecMined

\* The reconciler goes on with the same row.
LEMMA PointIs ==
    ASSUME Types, NEW p \in Points, rec' = [rec EXCEPT !.at = p]
    PROVE  /\ rec' \in Rec /\ rec'.at = p /\ rec'.mined = rec.mined /\ rec'.todo = rec.todo /\ rec'.taken = rec.taken
           /\ rec'.next = rec.next
BY DEF Types, Rec

LEMMA Turns ==
    ASSUME IInv, rec.todo # {}, UNCHANGED <<row, stage, queue, recent, misread, pool, fills, mined, landed>>,
           rec' \in Rec, rec'.at \in {"nonce", "again", "send", "late"}, rec'.mined <= mined, rec'.todo = rec.todo, rec'.taken = rec.taken,
           rec'.at \in {"send", "late"} => Current.due, rec'.at = "late" => Claim \notin pool, rec'.at = "again" => row[Claim].nonce < mined
    PROVE  IInv'
<1>2. Types' /\ Holding(queue)' /\ ClaimsInv' /\ RecentInv'
    <2>1. Types' /\ Holding(queue)'
        BY DEF IInv, Types, Holding
    <2>2. ClaimsInv'
        BY DEF IInv, ClaimsInv, NonceExclusive, ClaimOK, PooledOK
    <2>3. RecentInv'
        BY DEF IInv, RecentInv
    <2> QED
        BY <2>1, <2>2, <2>3
<1>3. Current' = Current /\ Claim' = Claim
    BY CurrentKept
<1>4. \A t \in rec'.todo : TodoOK(t)'
    BY DEF IInv, RecInv, TodoOK
<1>5. RecInv'
    BY <1>3, <1>4 DEF IInv, RecInv
<1> QED
    BY <1>2, <1>5 DEF IInv

LEMMA ReadReceiptInv == ASSUME IInv, ReadReceipt PROVE IInv'
<1>1. rec.todo # {} /\ UNCHANGED <<stage, queue, recent, misread, fills, mined, landed>> /\ UNCHANGED pool
    BY DEF ReadReceipt, chain
<1>2. PICK c : c = Claim
    OBVIOUS
<1>3. Types /\ c \in Requests /\ ClaimOK(row[c], stage[c], landed[c], c \in misread)
    BY <1>1, <1>2, ClaimIs, ClaimFacts
<1>4. CASE landed[c] # "no"
    <2>1. MarkReceipt(c) /\ rec' = Rest /\ stage[c] \in After
        BY <1>2, <1>3, <1>4 DEF ReadReceipt, ClaimOK
    <2>2. PICK v \in Row : OnlyRow(c, v) /\ Sound(c, v, stage[c])
        BY <1>1, <1>3, <1>4, <2>1, ReceiptSound
    <2>3. /\ rec' \in Rec /\ rec'.at = "next" /\ rec'.todo = rec.todo \ {Current} /\ rec'.taken = rec.taken /\ rec'.mined <= mined
        BY <1>3, <2>1, RestIs, RecMined
    <2>4. pool' \in {pool, pool \cup {Claim}}
        BY <1>1
    <2> QED
        BY <1>1, <1>2, <2>2, <2>3, <2>4, DoneWith
<1>5. CASE landed[c] = "no"
    <2>1. UNCHANGED <<row, stage, queue, recent, misread, pool, fills, mined, landed>> /\ rec' = [rec EXCEPT !.at = "nonce"]
        BY <1>1, <1>2, <1>5 DEF ReadReceipt
    <2>2. rec' \in Rec /\ rec'.at = "nonce" /\ rec'.mined <= mined /\ rec'.todo = rec.todo /\ rec'.taken = rec.taken
        BY <1>3, <2>1, PointIs, RecMined DEF Points
    <2> QED
        BY <1>1, <2>1, <2>2, Turns
<1> QED
    BY <1>4, <1>5

LEMMA ReadMinedInv == ASSUME IInv, ReadMined PROVE IInv'
<1>1. rec.at = "nonce" /\ rec.todo # {} /\ UNCHANGED <<row, stage, queue, recent, misread, pool, fills, mined, landed>>
    BY DEF ReadMined, chain, IInv, RecInv
<1>2. PICK m : m = IF rec.mined = -1 THEN mined ELSE rec.mined
    OBVIOUS
<1>3. m \in Nat \cup {-1} /\ m <= mined /\ mined \in Nat
    BY <1>2, RecMined
<1>4. PICK n : n = row[Claim].nonce
    OBVIOUS
<1>5. rec' = IF m > n THEN [rec EXCEPT !.mined = m, !.at = "again"]
             ELSE IF Current.due THEN [rec EXCEPT !.mined = m, !.at = "send"]
             ELSE [Rest EXCEPT !.mined = m]
    BY <1>2, <1>4 DEF ReadMined
<1>6. n \in Nat
    BY <1>1, <1>4, ClaimIs
<1>7. CASE m > n
    <2>1. rec' = [rec EXCEPT !.mined = m, !.at = "again"] /\ row[Claim].nonce < mined
        BY <1>3, <1>4, <1>5, <1>6, <1>7
    <2>2. rec' \in Rec /\ rec'.at = "again" /\ rec'.mined <= mined /\ rec'.todo = rec.todo /\ rec'.taken = rec.taken
        <3>1. rec \in Rec
            BY DEF IInv, Types
        <3> QED
            BY <1>3, <2>1, <3>1 DEF Rec, Points
    <2> QED
        BY <1>1, <2>1, <2>2, Turns
<1>8. CASE ~(m > n) /\ Current.due
    <2>1. rec' = [rec EXCEPT !.mined = m, !.at = "send"]
        BY <1>5, <1>8
    <2>2. rec' \in Rec /\ rec'.at = "send" /\ rec'.mined <= mined /\ rec'.todo = rec.todo /\ rec'.taken = rec.taken
        <3>1. rec \in Rec
            BY DEF IInv, Types
        <3> QED
            BY <1>3, <2>1, <3>1 DEF Rec, Points
    <2> QED
        BY <1>1, <1>8, <2>2, Turns
<1>9. CASE ~(m > n) /\ ~Current.due
    <2>1. rec' = [Rest EXCEPT !.mined = m] /\ UNCHANGED <<row, stage, queue, recent, misread, fills, mined, landed>> /\ UNCHANGED pool
        BY <1>1, <1>5, <1>9
    <2> QED
        BY <1>1, <1>3, <2>1, LeftAlone
<1> QED
    BY <1>7, <1>8, <1>9

\* The nonce has passed or the node refused the bytes and holds none: without a receipt
\* the claim can never be mined.
LEMMA ReadAgainInv == ASSUME IInv, ReadAgain PROVE IInv'
<1>1. /\ rec.at \in {"again", "late"} /\ rec.todo # {} /\ UNCHANGED <<stage, queue, recent, misread, fills, mined, landed>> /\ UNCHANGED pool
      /\ rec' = Rest
    BY DEF ReadAgain, chain, IInv, RecInv
<1>2. PICK c : c = Claim
    OBVIOUS
<1>3. /\ Types /\ c \in Requests /\ ClaimOK(row[c], stage[c], landed[c], c \in misread) /\ (c \in pool => PooledOK(row[c], stage[c], landed[c]))
      /\ stage[c] \in StageSet /\ row[c].nonce \in Nat /\ mined \in Nat /\ landed[c] \in Landing /\ MarkReceipt(c)
    BY <1>1, <1>2, ClaimIs, ClaimFacts, RowTypes DEF ReadAgain
<1>4. c \notin pool /\ (stage[c] \in After \/ row[c].nonce < mined)
    <2>1. CASE rec.at = "again"
        <3>1. row[c].nonce < mined
            BY <1>2, <2>1 DEF IInv, RecInv
        <3> QED
            BY <1>3, <3>1 DEF PooledOK
    <2>2. CASE rec.at = "late"
        <3>1. c \notin pool /\ Current.due
            BY <1>2, <2>2 DEF IInv, RecInv
        <3> QED
            BY <1>1, <1>2, <3>1, ClaimIs
    <2> QED
        BY <1>1, <2>1, <2>2
<1>5. PICK v \in Row : OnlyRow(c, v) /\ Sound(c, v, stage[c])
    <2>1. CASE landed[c] # "no"
        <3>1. stage[c] \in After
            BY <1>3, <2>1 DEF ClaimOK
        <3> QED
            BY <1>1, <1>3, <2>1, <3>1, ReceiptSound
    <2>2. CASE landed[c] = "no"
        <3>1. MarkFailed(c) /\ "failed" \in States
            BY <1>3, <2>2 DEF MarkReceipt, States, Finished
        <3>2. PICK v \in Row :
                  /\ OnlyRow(c, v)
                  /\ v.ask = row[c].ask /\ v.nonce = row[c].nonce /\ v.age = row[c].age
                  /\ \/ row[c].state \in Inflight /\ v.state = "failed" /\ ~v.quiet
                     \/ row[c].state \notin Inflight /\ v = row[c]
            BY <1>3, <3>1, MoveIs DEF MarkFailed
        <3>3. Sound(c, v, stage[c])
            BY <1>1, <1>3, <1>4, <2>2, <3>2, EndSound
        <3> QED
            BY <3>2, <3>3
    <2> QED
        BY <2>1, <2>2
<1>6. /\ rec' \in Rec /\ rec'.at = "next" /\ rec'.todo = rec.todo \ {Current} /\ rec'.taken = rec.taken /\ rec'.mined <= mined
    BY <1>1, <1>3, RestIs, RecMined
<1>7. pool' \in {pool, pool \cup {Claim}}
    BY <1>1
<1> QED
    BY <1>1, <1>2, <1>5, <1>6, <1>7, DoneWith

LEMMA RebroadcastInv == ASSUME IInv, Rebroadcast \/ RebroadcastLost PROVE IInv'
<1>1. /\ rec.at = "send" /\ rec.todo # {} /\ Current.due /\ UNCHANGED <<stage, queue, recent, misread, fills, mined, landed>>
      /\ rec' = Rest
    BY DEF Rebroadcast, RebroadcastLost, IInv, RecInv
<1>2. PICK c : c = Claim
    OBVIOUS
<1>3. /\ Types /\ c \in Requests /\ ClaimOK(row[c], stage[c], landed[c], c \in misread) /\ stage[c] \in StageSet /\ row[c].nonce \in Nat /\ mined \in Nat
      /\ stage[c] \in After /\ (row[c].state \in Signed \/ landed[c] # "no") /\ row[c] \in Row /\ row \in [Requests -> Row] /\ Deliver(c)
    BY <1>1, <1>2, ClaimIs, ClaimFacts, RowTypes DEF Rebroadcast, RebroadcastLost
<1>4. pool' = pool \cup {c} /\ row[c].nonce >= mined /\ row[c].nonce \notin fills
    BY <1>3, DeliverIs
<1>5. landed[c] = "no" /\ row[c].state \in Signed
    BY <1>3, <1>4 DEF ClaimOK
<1>6. PICK v \in Row : OnlyRow(c, v) /\ v.nonce = row[c].nonce /\ v.age = row[c].age /\ v.state \in Signed
    <2>1. CASE MarkSent(c)
        <3>1. "sent" \in States
            BY DEF States, Inflight
        <3> QED
            BY <1>3, <1>5, <2>1, <3>1, MoveIs DEF MarkSent, Signed
    <2>2. CASE UNCHANGED row
        <3>1. OnlyRow(c, row[c])
            BY <1>3, <2>2 DEF OnlyRow
        <3> QED
            BY <1>3, <1>5, <3>1
    <2> QED
        BY <1>2, <2>1, <2>2 DEF Rebroadcast, RebroadcastLost
<1>7. ClaimOK(v, stage[c], landed[c], c \in misread)
    BY <1>3, <1>5, <1>6 DEF ClaimOK, After, Live, Signed
<1>8. Sound(c, v, stage[c])
    BY <1>3, <1>4, <1>5, <1>6, <1>7 DEF Sound, PooledOK, Live, Signed, Gone
<1>9. /\ rec' \in Rec /\ rec'.at = "next" /\ rec'.todo = rec.todo \ {Current} /\ rec'.taken = rec.taken /\ rec'.mined <= mined
    BY <1>1, <1>3, RestIs, RecMined
<1>10. pool' \in {pool, pool \cup {Claim}}
    BY <1>2, <1>4
<1> QED
    BY <1>1, <1>2, <1>6, <1>8, <1>9, <1>10, DoneWith

LEMMA RebroadcastRejectedInv == ASSUME IInv, RebroadcastRejected PROVE IInv'
<1>1. /\ rec.todo # {} /\ Current.due /\ Claim \notin pool /\ UNCHANGED <<row, stage, queue, recent, misread, pool, fills, mined, landed>>
      /\ rec' = [rec EXCEPT !.at = "late"]
    BY DEF RebroadcastRejected, chain, IInv, RecInv
<1>2. rec' \in Rec /\ rec'.at = "late" /\ rec'.mined <= mined /\ rec'.todo = rec.todo /\ rec'.taken = rec.taken
    BY <1>1, PointIs, RecMined DEF Points, IInv
<1> QED
    BY <1>1, <1>2, Turns

\* The bytes the node took are sent again: the reconciler waits where it was.
LEMMA RebroadcastAgainInv == ASSUME IInv, RebroadcastAgain PROVE IInv'
<1>1. /\ rec.at = "send" /\ rec.todo # {} /\ Current.due
      /\ UNCHANGED <<row, stage, queue, rec, recent, misread, fills, mined, landed>>
    BY DEF RebroadcastAgain, IInv, RecInv
<1>2. PICK c : c = Claim
    OBVIOUS
<1>3. /\ Types /\ c \in Requests /\ ClaimOK(row[c], stage[c], landed[c], c \in misread) /\ stage[c] \in StageSet
      /\ row[c].nonce \in Nat /\ mined \in Nat /\ stage[c] \in After /\ (row[c].state \in Signed \/ landed[c] # "no")
      /\ row[c] \in Row /\ row \in [Requests -> Row] /\ stage \in [Requests -> StageSet] /\ Deliver(c)
    BY <1>1, <1>2, ClaimIs, ClaimFacts, RowTypes DEF RebroadcastAgain
<1>4. pool' = pool \cup {c} /\ row[c].nonce >= mined /\ row[c].nonce \notin fills
    BY <1>3, DeliverIs
<1>5. landed[c] = "no" /\ row[c].state \in Signed
    BY <1>3, <1>4 DEF ClaimOK
<1>6. OnlyRow(c, row[c]) /\ OnlyStage(c, stage[c])
    BY <1>1, <1>3 DEF OnlyRow, OnlyStage
<1>7. Sound(c, row[c], stage[c])
    BY <1>3, <1>4, <1>5 DEF Sound, PooledOK, Signed, Gone
<1>8. pool' \in {pool, pool \cup {c}} /\ UNCHANGED <<landed, mined, fills, misread>> /\ UNCHANGED recent
    BY <1>1, <1>4
<1>9. ClaimsInv' /\ row' \in [Requests -> Row] /\ stage' \in [Requests -> StageSet] /\ pool' \subseteq Requests /\ RecentInv'
    BY <1>3, <1>6, <1>7, <1>8, ClaimChanges
<1>10. Types' /\ Holding(queue)'
    BY <1>1, <1>9 DEF IInv, Types, Holding
<1>11. RecInv'
    <2>1. Current' = Current /\ Claim' = Claim
        BY <1>1, CurrentKept
    <2>2. \A t \in rec.todo : TodoOK(t)'
        BY <1>1 DEF IInv, RecInv, TodoOK
    <2> QED
        BY <1>1, <2>1, <2>2 DEF IInv, RecInv
<1> QED
    BY <1>9, <1>10, <1>11 DEF IInv

\* What the filling of gaps does: no row is to do, and a fill's nonce was free.
LEMMA FillsFrame ==
    ASSUME IInv, UNCHANGED <<row, stage, recent, misread, pool, mined, landed>>,
           fills' = fills \/ (\E n \in Nat : fills' = fills \cup {n} /\ (n \in fills \/ Fits(n))),
           rec' \in Rec, IsFiniteSet(rec'.taken), rec'.todo = {}, rec'.at \in {"idle", "queued", "count", "fill"}, rec'.mined <= mined,
           queue' \in Seq(Requests \cup {Reconciler}), Holding(queue)'
    PROVE  IInv'
<1>1. fills' \subseteq Nat /\ IsFiniteSet(fills') /\ \A r \in pool : row[r].nonce \notin fills => row[r].nonce \notin fills'
    <2>1. fills \subseteq Nat /\ IsFiniteSet(fills)
        BY DEF IInv, Types
    <2>2. CASE fills' = fills
        BY <2>1, <2>2
    <2>3. ASSUME NEW n \in Nat, fills' = fills \cup {n}, n \in fills \/ Fits(n)
          PROVE  fills' \subseteq Nat /\ IsFiniteSet(fills') /\ \A r \in pool : row[r].nonce \notin fills => row[r].nonce \notin fills'
        <3>1. IsFiniteSet(fills')
            BY <2>1, <2>3, FS_AddElement
        <3> QED
            BY <2>1, <2>3, <3>1 DEF Fits, Nonces
    <2> QED
        BY <2>2, <2>3
<1>2. Types'
    BY <1>1 DEF IInv, Types
<1>3. ClaimsInv'
    <2>1. \A r \in pool : PooledOK(row[r], stage[r], landed[r])'
        BY <1>1 DEF IInv, ClaimsInv, PooledOK
    <2>2. \A r \in Requests : ClaimOK(row[r], stage[r], landed[r], r \in misread)'
        BY DEF IInv, ClaimsInv, ClaimOK
    <2> QED
        BY <2>1, <2>2 DEF IInv, ClaimsInv, NonceExclusive
<1>4. RecentInv' /\ RecInv'
    BY DEF IInv, RecentInv, RecInv
<1> QED
    BY <1>2, <1>3, <1>4 DEF IInv

Filling == rec' \in Rec /\ IsFiniteSet(rec'.taken) /\ rec'.todo = {} /\ rec'.at \in {"idle", "queued", "count", "fill"} /\ rec'.mined <= mined

LEMMA EndIs ==
    ASSUME IInv, EndReconcile, queue # <<>>
    PROVE  Filling /\ queue' \in Seq(Requests \cup {Reconciler}) /\ Holding(queue)'
<1>1. rec' \in Rec /\ rec'.taken = {} /\ rec'.todo = {} /\ rec'.at = "idle" /\ rec'.mined = -1
    BY DEF EndReconcile, IdleRec, Rec, Points
<1>2. mined \in Nat /\ queue \in Seq(Requests \cup {Reconciler}) /\ queue' = Tail(queue)
    BY DEF IInv, Types, EndReconcile
<1>3. IsFiniteSet({})
    BY FS_EmptySet
<1> QED
    BY <1>1, <1>2, <1>3 DEF Holding, Filling

\* While gaps are filled the mutex is held and every row is dealt with.
LEMMA FillFromIs ==
    ASSUME IInv, rec.at \in {"count", "fill"}, NEW n \in Nat, FillFrom(n)
    PROVE  Filling /\ queue' \in Seq(Requests \cup {Reconciler}) /\ Holding(queue)'
<1>1. queue # <<>> /\ Head(queue) = Reconciler /\ rec.todo = {} /\ queue \in Seq(Requests \cup {Reconciler}) /\ rec \in Rec /\ IsFiniteSet(rec.taken)
    BY DEF IInv, Holding, RecInv, Types
<1>2. CASE EndReconcile
    BY <1>1, <1>2, EndIs
<1>3. CASE rec' = [rec EXCEPT !.at = "fill", !.next = NextGap(n)] /\ UNCHANGED <<queue, booted>>
    <2>1. PICK g \in Nat : g = NextGap(n)
        BY GapIs
    <2>2. rec' = [rec EXCEPT !.at = "fill", !.next = g]
        BY <1>3, <2>1
    <2>3. rec' \in Rec /\ rec'.at = "fill" /\ rec'.todo = rec.todo /\ rec'.taken = rec.taken /\ rec'.mined = rec.mined
        BY <1>1, <2>2 DEF Rec, Points
    <2> QED
        BY <1>1, <1>3, <2>3, RecMined DEF Filling, Holding
<1> QED
    BY <1>2, <1>3 DEF FillFrom

LEMMA FillStep ==
    ASSUME IInv, UNCHANGED <<row, stage, recent, misread, pool, mined, landed>>,
           fills' = fills \/ (\E n \in Nat : fills' = fills \cup {n} /\ (n \in fills \/ Fits(n))),
           Filling, queue' \in Seq(Requests \cup {Reconciler}), Holding(queue)'
    PROVE  IInv'
BY FillsFrame DEF Filling

LEMMA QueueFillInv == ASSUME IInv, QueueFill PROVE IInv'
<1>1. rec' = [rec EXCEPT !.at = "queued"] /\ rec.todo = {} /\ UNCHANGED <<row, stage, recent, misread, pool, mined, landed>> /\ fills' = fills
      /\ queue' = Append(queue, Reconciler)
    BY DEF QueueFill, chain
<1>2. Types /\ IsFiniteSet(rec.taken) /\ queue \in Seq(Requests \cup {Reconciler})
    BY DEF IInv, Types
<1>3. rec' \in Rec /\ rec'.at = "queued" /\ rec'.mined = rec.mined /\ rec'.todo = rec.todo /\ rec'.taken = rec.taken
    BY <1>1, <1>2, PointIs DEF Points
<1>4. Filling /\ queue' \in Seq(Requests \cup {Reconciler}) /\ Holding(queue)'
    BY <1>1, <1>2, <1>3, RecMined DEF Filling, Holding
<1> QED
    BY <1>1, <1>4, FillStep

LEMMA StartFillInv == ASSUME IInv, StartFill PROVE IInv'
<1>1. /\ rec.at = "queued" /\ queue # <<>> /\ Head(queue) = Reconciler /\ UNCHANGED <<row, stage, recent, misread, pool, mined, landed>> /\ fills' = fills
      /\ rec.todo = {} /\ rec \in Rec /\ queue \in Seq(Requests \cup {Reconciler})
    BY DEF StartFill, chain, IInv, RecInv, Types
<1>2. CASE EndReconcile
    BY <1>1, <1>2, EndIs, FillStep
<1>3. CASE rec' = [rec EXCEPT !.at = "count", !.taken = Held] /\ UNCHANGED <<queue, booted>>
    <2>1. PICK h \in SUBSET Nat : h = Held /\ IsFiniteSet(h)
        BY HeldIs
    <2>2. rec' = [rec EXCEPT !.at = "count", !.taken = h]
        BY <1>3, <2>1
    <2>3. rec' \in Rec /\ rec'.at = "count" /\ rec'.todo = rec.todo /\ rec'.taken = h /\ rec'.mined = rec.mined
        BY <1>1, <2>2 DEF Rec, Points
    <2>4. Filling /\ queue' \in Seq(Requests \cup {Reconciler}) /\ Holding(queue)'
        BY <1>1, <1>3, <2>1, <2>3, RecMined DEF Filling, Holding
    <2> QED
        BY <1>1, <2>4, FillStep
<1> QED
    BY <1>2, <1>3 DEF StartFill

LEMMA ReadPendingInv == ASSUME IInv, ReadPending PROVE IInv'
<1>1. rec.at = "count" /\ FillFrom(PendingCount) /\ UNCHANGED <<row, stage, recent, misread, pool, mined, landed>> /\ fills' = fills
    BY DEF ReadPending, chain
<1>2. PendingCount \in Nat
    BY NoncesFinite
<1>3. Filling /\ queue' \in Seq(Requests \cup {Reconciler}) /\ Holding(queue)'
    BY <1>1, <1>2, FillFromIs
<1> QED
    BY <1>1, <1>3, FillStep

LEMMA FillInv == ASSUME IInv, Fill PROVE IInv'
<1>1. /\ rec.at = "fill" /\ FillFrom(rec.next + 1) /\ UNCHANGED <<row, stage, recent, misread, pool, mined, landed>>
      /\ fills' = fills \cup {rec.next} /\ (rec.next \in fills \/ Fits(rec.next))
    BY DEF Fill
<1>2. rec.next \in Nat /\ rec.next + 1 \in Nat
    BY DEF IInv, Types, Rec
<1>3. Filling /\ queue' \in Seq(Requests \cup {Reconciler}) /\ Holding(queue)'
    BY <1>1, <1>2, FillFromIs
<1> QED
    BY <1>1, <1>2, <1>3, FillStep

LEMMA FillEndsInv == ASSUME IInv, FillFails \/ CountFails PROVE IInv'
<1>1. /\ rec.at \in {"count", "fill"} /\ EndReconcile /\ UNCHANGED <<row, stage, recent, misread, pool, mined, landed>>
      /\ fills' = fills \/ (Fits(rec.next) /\ fills' = fills \cup {rec.next})
    BY DEF FillFails, CountFails, chain
<1>2. rec.next \in Nat /\ queue # <<>>
    BY <1>1 DEF IInv, Types, Rec, Holding
<1>3. Filling /\ queue' \in Seq(Requests \cup {Reconciler}) /\ Holding(queue)'
    BY <1>1, <1>2, EndIs
<1> QED
    BY <1>1, <1>2, <1>3, FillStep

-----------------------------------------------------------------------------
(* The theorems.                                                           *)

LEMMA InitInv == ASSUME Init PROVE IInv
<1>1. /\ row = [r \in Requests |-> NoRow] /\ stage = [r \in Requests |-> "idle"] /\ queue = <<>> /\ rec = IdleRec
      /\ pool = {} /\ fills = {} /\ mined = 0 /\ landed = [r \in Requests |-> "no"] /\ recent = [r \in Requests |-> {}]
      /\ misread = {}
    BY DEF Init
<1>2. IsFiniteSet({}) /\ 0 \in 0 .. Retention
    BY FS_EmptySet, ParamTypes
<1>3. rec \in Rec /\ rec.taken = {} /\ rec.todo = {} /\ rec.at = "idle" /\ rec.mined = -1
    BY <1>1 DEF IdleRec, Rec, Points
<1>4. NoRow \in Row /\ NoRow.state = "none" /\ NoRow.ask = NoAsk /\ NoRow.quiet = FALSE
    <2>1. NoAsk \in AskSet
        BY DEF AskSet
    <2>2. "none" \in States
        BY DEF States
    <2> QED
        BY <1>2, <2>1, <2>2 DEF NoRow, Row
<1>5. Types
    BY <1>1, <1>2, <1>3, <1>4 DEF Types, StageSet, Landing
<1>6. ClaimsInv
    <2>1. ASSUME NEW r \in Requests PROVE ClaimOK(row[r], stage[r], landed[r], r \in misread) /\ row[r].state \notin Live
        BY <1>1, <1>4 DEF ClaimOK, Live, Signed, After
    <2> QED
        BY <1>1, <2>1 DEF ClaimsInv, NonceExclusive, Live
<1>7. RecentInv /\ RecInv /\ Holding(queue)
    BY <1>1, <1>3 DEF RecentInv, RecInv, Holding
<1> QED
    BY <1>5, <1>6, <1>7 DEF IInv

LEMMA NextInv == ASSUME IInv, [Next]_vars PROVE IInv'
<1>1. ASSUME NEW r \in Requests, Reserve(r) \/ Step(r) PROVE IInv'
    BY <1>1, ReserveInv, PlanInv, CheckFundsInv, SignInv, SendInv, SendRepeatedInv, AwaitInv DEF Step
<1>2. CASE Reconcile
    BY <1>2, StartReconcileInv, ReadReceiptInv, ReadMinedInv, ReadAgainInv, RebroadcastInv, RebroadcastRejectedInv, RebroadcastAgainInv, DeferInv,
       QueueFillInv, StartFillInv, ReadPendingInv, FillInv, FillEndsInv DEF Reconcile
<1>3. CASE Mine \/ Evict \/ Tick \/ Crash
    BY <1>3, MineInv, EvictInv, TickInv, CrashInv
<1>4. CASE UNCHANGED vars
    <2>1. UNCHANGED <<row, stage, queue, rec, recent, misread>> /\ mined' = mined /\ pool' = pool /\ fills' = fills /\ landed' = landed
        BY <1>4 DEF vars
    <2>2. landed \in [Requests -> Landing] /\ {} \in SUBSET pool
        BY DEF IInv, Types
    <2> QED
        BY <2>1, <2>2, NodeInv
<1> QED
    BY <1>1, <1>2, <1>3, <1>4 DEF Next

\* The invariant every step of the claims, the reconciler, the node, the clock and a crash
\* preserves: rows, requests, bytes and the reconciler's memory agree.
THEOREM Invariance == Spec => []IInv
BY InitInv, NextInv, PTL DEF Spec

\* In every reachable state the claims table is well formed and no two rows that are
\* signed, sent or confirmed share a nonce: none silently replaces another (NoncesSound).
THEOREM NoncesAlwaysSound == Spec => []NoncesSound
<1>1. ASSUME IInv PROVE NoncesSound
    <2>1. Types /\ NonceExclusive
        BY <1>1 DEF IInv, ClaimsInv
    <2>2. queue \in Seq(Requests \cup {Reconciler}) => \A i \in DOMAIN queue : queue[i] \in Requests \cup {Reconciler}
        OBVIOUS
    <2>3. TypeOK
        BY <2>1, <2>2 DEF Types, TypeOK, Row, AskSet, StageSet, Landing, Rec, Points
    <2> QED
        BY <2>1, <2>3 DEF NoncesSound
<1> QED
    BY <1>1, Invariance, PTL

\* In every reachable state a claim the ledger calls skipped or unsigned has not paid and
\* cannot, nor has one it calls failed, unless the node refused the repeat of bytes it had
\* mined for it; and one the ledger calls confirmed has paid (LedgerTruthful).
THEOREM LedgerAlwaysTruthful == Spec => []LedgerTruthful
<1>1. ASSUME IInv PROVE LedgerTruthful
    <2> SUFFICES ASSUME NEW r \in Requests
                 PROVE  /\ row[r].state \in {"none", "reserved", "failed", "skipped"} => r \notin pool
                        /\ row[r].state \in {"none", "reserved", "skipped"} => landed[r] = "no"
                        /\ row[r].state = "failed" => landed[r] # "success" \/ r \in misread
                        /\ row[r].state = "confirmed" => landed[r] = "success"
        BY DEF LedgerTruthful
    <2>1. ClaimOK(row[r], stage[r], landed[r], r \in misread) /\ (r \in pool => PooledOK(row[r], stage[r], landed[r]))
        BY <1>1, ClaimFacts
    <2> QED
        BY <2>1 DEF ClaimOK, PooledOK, Signed
<1> QED
    BY <1>1, Invariance, PTL

\* In every behaviour at most one of two claims of one kind by one owner inside one window
\* pays, whatever crashed or timed out between them, unless the node refused the repeat of
\* bytes it had mined for the first (PaidOncePerWindow).
THEOREM PaidOnceAlways == Spec => []PaidOncePerWindow
<1>1. ASSUME IInv PROVE PaidOncePerWindow
    BY <1>1 DEF IInv, RecentInv, PaidOncePerWindow
<1> QED
    BY <1>1, Invariance, PTL


-----------------------------------------------------------------------------
(***************************************************************************)
(* The floor.  affordable() sees the last block's balance and what the     *)
(* signed claims may still take.  From that answer to the signature the    *)
(* claim holds the mutex, so nothing else is signed; from the signature on *)
(* only claims with lower nonces can land before it, and they were signed  *)
(* when it was checked.                                                    *)
(***************************************************************************)

\* The most a claim's transaction can take.
Cost(q) == Fee(Kind(q)) + IF Kind(q) = "eth" THEN Grant ELSE 0

\* What it has taken, or may still take; and the same for the claims below nonce n.
MayTake(q) == IF landed[q] # "no" THEN Spent(q) ELSE IF row[q].state \in Signed THEN Cost(q) ELSE 0
TakenBelow(q, n) == IF landed[q] # "no" THEN Spent(q)
                    ELSE IF row[q].state \in Signed /\ row[q].nonce < n THEN Cost(q) ELSE 0

Exposure == [q \in Requests |-> MayTake(q)]
Ahead(n) == [q \in Requests |-> TakenBelow(q, n)]

\* An ETH grant on top of f leaves the floor.
Leaves(f) == SumFunctionOnSet(f, Requests) + Grant + TransferFee + Floor <= Funds

CheckedInv == \A r \in Requests : Kind(r) = "eth" /\ stage[r] = "signing" => Leaves(Exposure)
GrantInv == \A r \in Requests :
    Kind(r) = "eth" /\ row[r].state \in Signed /\ landed[r] = "no" /\ row[r].nonce >= mined => Leaves(Ahead(row[r].nonce))
MutexInv == \A r \in Requests : stage[r] = "signing" => queue # <<>> /\ Head(queue) = r
CountInv == Cardinality({r \in Requests : landed[r] # "no"}) <= mined

FloorInv == CheckedInv /\ GrantInv /\ MutexInv /\ CountInv

\* Every amount is a natural number, and a claim takes at most its cost.
LEMMA Amounts ==
    ASSUME NEW q \in Requests
    PROVE  /\ Cost(q) \in Nat /\ Spent(q) \in Nat /\ Spent(q) <= Cost(q)
           /\ MayTake(q) \in Nat /\ \A n : TakenBelow(q, n) \in Nat
<1>1. {Grant, TransferFee, MintFee} \subseteq Nat
    BY FeeAssumption
<1>2. Fee(Kind(q)) \in Nat
    BY <1>1 DEF Fee
<1>3. Cost(q) \in Nat /\ Spent(q) \in Nat /\ Spent(q) <= Cost(q)
    BY <1>1, <1>2 DEF Cost, Spent
<1> QED
    BY <1>3 DEF MayTake, TakenBelow

LEMMA AmountsNext ==
    ASSUME NEW q \in Requests
    PROVE  /\ Cost(q)' \in Nat /\ Spent(q)' \in Nat /\ Spent(q)' <= Cost(q)'
           /\ MayTake(q)' \in Nat /\ \A n : TakenBelow(q, n)' \in Nat
<1>1. {Grant, TransferFee, MintFee} \subseteq Nat
    BY FeeAssumption
<1>2. Fee(Kind(q)') \in Nat
    BY <1>1 DEF Fee
<1>3. Cost(q)' \in Nat /\ Spent(q)' \in Nat /\ Spent(q)' <= Cost(q)'
    BY <1>1, <1>2 DEF Cost, Spent, Fee
<1> QED
    BY <1>3 DEF MayTake, TakenBelow

LEMMA LeavesLess ==
    ASSUME NEW f, NEW g, Leaves(g), \A q \in Requests : f[q] \in Nat /\ g[q] \in Nat /\ f[q] <= g[q]
    PROVE  Leaves(f)
<1>1. SumFunctionOnSet(f, Requests) \in Nat /\ SumFunctionOnSet(g, Requests) \in Nat
    BY RequestAssumption, SumType
<1>2. SumFunctionOnSet(f, Requests) <= SumFunctionOnSet(g, Requests)
    BY RequestAssumption, SumMonotone
<1> QED
    BY <1>1, <1>2, FeeAssumption DEF Leaves

\* A row that is not signed, and whose transaction does not land, in this step.
Calm(q) ==
    /\ landed'[q] = landed[q]
    /\ row'[q].state \in Signed => row[q].state \in Signed /\ row'[q].nonce = row[q].nonce /\ row'[q].ask = row[q].ask
    /\ landed[q] # "no" => row'[q].ask = row[q].ask

LEMMA CalmTakes ==
    ASSUME NEW q \in Requests, Calm(q)
    PROVE  MayTake(q)' <= MayTake(q) /\ \A n : TakenBelow(q, n)' <= TakenBelow(q, n)
<1>1. landed[q] # "no" => Spent(q)' = Spent(q)
    BY DEF Calm, Spent, Kind
<1>2. row'[q].state \in Signed => Cost(q)' = Cost(q)
    BY DEF Calm, Cost, Kind
<1>3. Cost(q) \in Nat /\ Spent(q) \in Nat
    BY Amounts
<1> QED
    BY <1>1, <1>2, <1>3 DEF Calm, MayTake, TakenBelow

\* No row is signed, none lands, and no claim is newly checked.
Still ==
    /\ \A q \in Requests : Calm(q)
    /\ \A q \in Requests : stage'[q] = "signing" => stage[q] = "signing" /\ row'[q].ask = row[q].ask
    /\ mined <= mined'

LEMMA StillLeaves ==
    ASSUME IInv, CheckedInv, GrantInv, Still, IInv'
    PROVE  CheckedInv' /\ GrantInv'
<1>1. ASSUME Leaves(Exposure) PROVE Leaves(Exposure')
    <2>1. \A q \in Requests : /\ Exposure'[q] = MayTake(q)' /\ Exposure[q] = MayTake(q)
        BY DEF Exposure
    <2>2. \A q \in Requests : Exposure'[q] \in Nat /\ Exposure[q] \in Nat /\ Exposure'[q] <= Exposure[q]
        BY <2>1, Amounts, AmountsNext, CalmTakes DEF Still
    <2> QED
        BY <1>1, <2>2, LeavesLess
<1>2. CheckedInv'
    <2> SUFFICES ASSUME NEW r \in Requests, Kind(r)' = "eth", stage'[r] = "signing" PROVE Leaves(Exposure)'
        BY DEF CheckedInv
    <2>1. Kind(r) = "eth" /\ stage[r] = "signing"
        BY DEF Still, Kind
    <2>2. Leaves(Exposure')
        BY <1>1, <2>1 DEF CheckedInv
    <2> QED
        BY <2>2 DEF Leaves
<1>3. GrantInv'
    <2> SUFFICES ASSUME NEW r \in Requests, Kind(r)' = "eth", row'[r].state \in Signed, landed'[r] = "no",
                        row'[r].nonce >= mined'
                 PROVE  Leaves(Ahead(row[r].nonce))'
        BY DEF GrantInv
    <2>1. Calm(r)
        BY DEF Still
    <2>2. row[r].nonce \in Nat \cup {-1} /\ mined \in Nat /\ mined' \in Nat
        BY RowTypes DEF IInv, Types
    <2>3. Kind(r) = "eth" /\ row[r].state \in Signed /\ landed[r] = "no" /\ row[r].nonce >= mined
          /\ row'[r].nonce = row[r].nonce
        BY <2>1, <2>2 DEF Calm, Kind, Still
    <2>4. PICK n : n = row[r].nonce
        OBVIOUS
    <2>5. Leaves(Ahead(n))
        BY <2>3, <2>4 DEF GrantInv
    <2>6. \A q \in Requests : Ahead(n)'[q] = TakenBelow(q, n)' /\ Ahead(n)[q] = TakenBelow(q, n)
        BY DEF Ahead
    <2>7. \A q \in Requests : Ahead(n)'[q] \in Nat /\ Ahead(n)[q] \in Nat /\ Ahead(n)'[q] <= Ahead(n)[q]
        BY <2>6, Amounts, AmountsNext, CalmTakes DEF Still
    <2>8. Leaves(Ahead(n)')
        BY <2>5, <2>7, LeavesLess
    <2>9. Ahead(row[r].nonce)' = Ahead(n)'
        BY <2>3, <2>4 DEF Ahead, TakenBelow
    <2> QED
        BY <2>8, <2>9 DEF Leaves
<1> QED
    BY <1>2, <1>3

\* The mutex passes on only when its holder lets go.
MutexStep ==
    \/ UNCHANGED queue
    \/ \E x \in Requests \cup {Reconciler} : queue' = Append(queue, x)
    \/ queue # <<>> /\ queue' = Tail(queue) /\ \A r \in Requests : Head(queue) = r => stage'[r] # "signing"
    \/ \A r \in Requests : stage'[r] # "signing"

LEMMA MutexKept ==
    ASSUME IInv, MutexInv, MutexStep, \A q \in Requests : stage'[q] = "signing" => stage[q] = "signing"
    PROVE  MutexInv'
<1>1. queue \in Seq(Requests \cup {Reconciler})
    BY DEF IInv, Types
<1>2. ASSUME NEW r \in Requests, stage'[r] = "signing" PROVE queue' # <<>> /\ Head(queue') = r
    <2>1. queue # <<>> /\ Head(queue) = r
        BY <1>2 DEF MutexInv
    <2>2. CASE UNCHANGED queue
        BY <2>1, <2>2
    <2>3. CASE \E x \in Requests \cup {Reconciler} : queue' = Append(queue, x)
        BY <1>1, <2>1, <2>3
    <2> QED
        BY <1>2, <2>1, <2>2, <2>3 DEF MutexStep
<1> QED
    BY <1>2 DEF MutexInv

LEMMA StillFloor ==
    ASSUME IInv, IInv', FloorInv, Still, MutexStep, UNCHANGED <<landed, mined>>
    PROVE  FloorInv'
<1>1. MutexInv'
    BY MutexKept DEF Still, FloorInv
<1>2. CountInv'
    BY DEF FloorInv, CountInv
<1> QED
    BY <1>1, <1>2, StillLeaves DEF FloorInv

\* An UPDATE of a state signs nothing.
LEMMA MoveCalm ==
    ASSUME Types, NEW r \in Requests, NEW from, NEW to \in States, Move(r, from, to),
           to \in Signed => from \subseteq Signed, UNCHANGED landed
    PROVE  \A q \in Requests : Calm(q) /\ row'[q].ask = row[q].ask
<1>1. PICK v \in Row : /\ OnlyRow(r, v)
                       /\ v.ask = row[r].ask /\ v.nonce = row[r].nonce
                       /\ \/ row[r].state \in from /\ v.state = to
                          \/ v = row[r]
    BY MoveIs
<1>2. \A q \in Requests : row'[q] = IF q = r THEN v ELSE row[q]
    BY <1>1 DEF OnlyRow
<1> QED
    BY <1>1, <1>2 DEF Calm

LEMMA MarksCalm ==
    ASSUME Types, NEW r \in Requests, UNCHANGED landed,
           MarkSent(r) \/ MarkFailed(r) \/ MarkSkipped(r) \/ MarkReceipt(r) \/ UNCHANGED row
    PROVE  \A q \in Requests : Calm(q) /\ row'[q].ask = row[q].ask
<1>1. CASE MarkSent(r)
    BY <1>1, MoveCalm DEF MarkSent, Signed, States, Inflight
<1>2. CASE MarkFailed(r)
    BY <1>2, MoveCalm DEF MarkFailed, Signed, States, Inflight, Finished
<1>3. CASE MarkSkipped(r)
    BY <1>3, MoveCalm DEF MarkSkipped, Signed, States, Inflight, Finished
<1>4. CASE MarkConfirmed(r)
    BY <1>4, MoveCalm DEF MarkConfirmed, Signed, States, Inflight, Finished
<1>5. CASE UNCHANGED row
    BY <1>5 DEF Calm
<1> QED
    BY <1>1, <1>2, <1>3, <1>4, <1>5 DEF MarkReceipt

\* A step of one claim that only moves its row.
LEMMA MarksStill ==
    ASSUME IInv, NEW r \in Requests, UNCHANGED <<landed, mined>>, NEW s \in StageSet \ {"signing"}, Go(r, s),
           MarkSent(r) \/ MarkFailed(r) \/ MarkSkipped(r) \/ MarkReceipt(r) \/ UNCHANGED row
    PROVE  Still /\ stage'[r] # "signing"
<1>1. \A q \in Requests : Calm(q) /\ row'[q].ask = row[q].ask
    BY MarksCalm DEF IInv
<1>2. \A q \in Requests : stage'[q] = IF q = r THEN s ELSE stage[q]
    BY GoIs DEF IInv, OnlyStage
<1>3. mined \in Nat
    BY DEF IInv, Types
<1> QED
    BY <1>1, <1>2, <1>3 DEF Still

\* A step of the reconciler, which leaves the requests where they stand.
LEMMA ReconcilerStill ==
    ASSUME IInv, UNCHANGED <<landed, mined, stage>>,
           UNCHANGED row \/ \E r \in Requests : MarkSent(r) \/ MarkReceipt(r)
    PROVE  Still
<1>1. \A q \in Requests : Calm(q) /\ row'[q].ask = row[q].ask
    BY MarksCalm DEF IInv, Calm
<1>2. mined \in Nat
    BY DEF IInv, Types
<1> QED
    BY <1>1, <1>2 DEF Still

\* The claim steps that only move the row.
LEMMA PlanFloor == ASSUME IInv, IInv', FloorInv, NEW r \in Requests, Plan(r) PROVE FloorInv'
<1>1. UNCHANGED <<landed, mined>>
    BY DEF Plan, chain
<1>2. \/ (MarkSkipped(r) \/ MarkFailed(r)) /\ Go(r, "done") /\ UNCHANGED queue
      \/ Go(r, "queued") /\ queue' = Append(queue, r) /\ UNCHANGED row
    BY DEF Plan
<1>3. Still
    BY <1>1, <1>2, MarksStill DEF StageSet
<1>4. MutexStep
    BY <1>2 DEF MutexStep
<1> QED
    BY <1>1, <1>3, <1>4, StillFloor

LEMMA SendFloor ==
    ASSUME IInv, IInv', FloorInv, NEW r \in Requests, SendAccepted(r) \/ SendRejected(r) \/ SendLost(r)
    PROVE  FloorInv'
<1>1. UNCHANGED <<landed, mined>>
    BY DEF SendAccepted, SendRejected, SendLost, chain
<1>2. /\ queue # <<>> /\ Head(queue) = r /\ queue' = Tail(queue)
      /\ Go(r, "waiting") \/ Go(r, "done")
      /\ MarkSent(r) \/ MarkFailed(r) \/ UNCHANGED row
    BY DEF SendAccepted, SendRejected, SendLost, Holds
<1>3. Still /\ stage'[r] # "signing"
    BY <1>1, <1>2, MarksStill DEF StageSet
<1>4. MutexStep
    BY <1>2, <1>3 DEF MutexStep
<1> QED
    BY <1>1, <1>3, <1>4, StillFloor

LEMMA AwaitFloor == ASSUME IInv, IInv', FloorInv, NEW r \in Requests, Await(r) PROVE FloorInv'
<1>1. UNCHANGED <<landed, mined, queue>> /\ Go(r, "done") /\ (MarkReceipt(r) \/ UNCHANGED row)
    BY DEF Await, chain
<1>2. Still
    BY <1>1, MarksStill DEF StageSet
<1>3. MutexStep
    BY <1>1 DEF MutexStep
<1> QED
    BY <1>1, <1>2, <1>3, StillFloor

LEMMA ReserveFloor == ASSUME IInv, IInv', FloorInv, NEW r \in Requests, Reserve(r) PROVE FloorInv'
<1>1. UNCHANGED <<landed, mined, queue>> /\ Go(r, "planning") /\ stage[r] = "idle"
    BY DEF Reserve, chain
<1>2. PICK a \in Asks[r] : row' = [row EXCEPT ![r].state = "reserved", ![r].ask = a]
    BY DEF Reserve
<1>3. row \in [Requests -> Row]
    BY RowTypes DEF IInv
<1>4. row'[r].state = "reserved" /\ \A q \in Requests \ {r} : row'[q] = row[q]
    BY <1>2, <1>3 DEF Row
<1>5. landed[r] = "no"
    BY <1>1 DEF IInv, ClaimsInv, ClaimOK
<1>6. \A q \in Requests : Calm(q)
    BY <1>1, <1>4, <1>5 DEF Calm, Signed
<1>7. \A q \in Requests : stage'[q] = IF q = r THEN "planning" ELSE stage[q]
    BY <1>1, GoIs DEF IInv, OnlyStage, StageSet
<1>8. Still
    BY <1>1, <1>4, <1>6, <1>7 DEF Still, IInv, Types
<1>9. MutexStep
    BY <1>1 DEF MutexStep
<1> QED
    BY <1>1, <1>8, <1>9, StillFloor

\* What affordable() adds up covers what the claims may take.
LEMMA Affords ==
    ASSUME IInv, FloorInv, Affordable("eth")
    PROVE  Leaves(Exposure)
<1> DEFINE S == {r \in Requests : row[r].state \in Signed}
           E == {r \in Requests : row[r].state \in Signed /\ Kind(r) = "eth"}
           spent == [r \in Requests |-> Spent(r)]
           grants == [r \in Requests |-> IF r \in E THEN Grant ELSE 0]
           fees == [r \in Requests |-> IF r \in S THEN MintFee ELSE 0]
           both == [r \in Requests |-> grants[r] + fees[r]]
           all == [r \in Requests |-> spent[r] + both[r]]
<1>0. {Funds, Floor, Grant, MintFee, TransferFee, FillFee} \subseteq Nat /\ TransferFee <= MintFee
    BY FeeAssumption
<1>1. SumFunctionOnSet(grants, Requests) = Cardinality(E) * Grant /\ Cardinality(E) \in Nat
    <2>1. E \subseteq Requests /\ \A r \in Requests : grants[r] = IF r \in E THEN Grant ELSE 0
        OBVIOUS
    <2> HIDE DEF E, grants
    <2> QED
        BY <1>0, <2>1, RequestAssumption, SumConstant
<1>2. SumFunctionOnSet(fees, Requests) = Cardinality(S) * MintFee /\ Cardinality(S) \in Nat
    <2>1. S \subseteq Requests /\ \A r \in Requests : fees[r] = IF r \in S THEN MintFee ELSE 0
        OBVIOUS
    <2> HIDE DEF S, fees
    <2> QED
        BY <1>0, <2>1, RequestAssumption, SumConstant
<1>3. \A r \in Requests : spent[r] \in Nat /\ grants[r] \in Nat /\ fees[r] \in Nat /\ both[r] \in Nat /\ all[r] \in Nat
    BY <1>0, Amounts
<1>4. SumFunctionOnSet(both, Requests) = SumFunctionOnSet(grants, Requests) + SumFunctionOnSet(fees, Requests)
    BY <1>3, RequestAssumption, SumPlus
<1>5. SumFunctionOnSet(all, Requests) = SumFunctionOnSet(spent, Requests) + SumFunctionOnSet(both, Requests)
    BY <1>3, RequestAssumption, SumPlus
<1>6. \A r \in Requests : Exposure[r] \in Nat /\ Exposure[r] <= all[r]
    <2>1. ASSUME NEW r \in Requests PROVE Exposure[r] \in Nat /\ Exposure[r] <= all[r]
        <3>1. Exposure[r] = MayTake(r) /\ MayTake(r) \in Nat /\ Spent(r) \in Nat
            BY Amounts DEF Exposure
        <3>2. CASE landed[r] # "no"
            BY <1>3, <3>1, <3>2 DEF MayTake
        <3>3. CASE landed[r] = "no" /\ r \notin S
            BY <1>3, <3>1, <3>3 DEF MayTake
        <3>4. CASE landed[r] = "no" /\ r \in S
            <4>1. MayTake(r) = Cost(r)
                BY <3>4 DEF MayTake
            <4>2. Cost(r) <= grants[r] + fees[r]
                BY <1>0, <3>4 DEF Cost, Fee
            <4> QED
                BY <1>0, <1>3, <3>1, <4>1, <4>2
        <3> QED
            BY <3>2, <3>3, <3>4
    <2> QED
        BY <2>1
<1>7. FillsMined \in Nat /\ FillsMined * FillFee \in Nat
    <2>1. IsFiniteSet({r \in Requests : landed[r] # "no"})
        BY RequestAssumption, FS_Subset
    <2>2. Cardinality({r \in Requests : landed[r] # "no"}) \in Nat
        BY <2>1, FS_CardinalityType
    <2>3. FillsMined \in Nat
        BY <2>2 DEF FillsMined, FloorInv, CountInv, IInv, Types
    <2> QED
        BY <1>0, <2>3
<1>8. Balance = Funds - SumFunctionOnSet(spent, Requests) - FillsMined * FillFee
    BY DEF Balance
<1>9. InflightWei = Grant * Cardinality(E) /\ InflightCount = Cardinality(S)
    BY DEF InflightWei, InflightCount
<1>10. Balance - InflightWei - InflightCount * MintFee >= Floor + Grant + TransferFee
    BY DEF Affordable, Need
<1>11. SumFunctionOnSet(spent, Requests) \in Nat
    BY <1>3, RequestAssumption, SumType
<1> HIDE DEF S, E, spent, grants, fees, both
<1>12. Grant * Cardinality(E) = Cardinality(E) * Grant /\ Cardinality(E) * Grant \in Nat /\ Cardinality(S) * MintFee \in Nat
    BY <1>0, <1>1, <1>2
<1>13. Leaves(all)
    <2> HIDE DEF all
    <2>1. PICK a, b, c \in Nat : a = Cardinality(E) * Grant /\ b = Cardinality(S) * MintFee /\ c = FillsMined * FillFee
        BY <1>7, <1>12
    <2>2. SumFunctionOnSet(all, Requests) = SumFunctionOnSet(spent, Requests) + (a + b)
        BY <1>1, <1>2, <1>4, <1>5, <2>1
    <2>3. Balance = Funds - SumFunctionOnSet(spent, Requests) - c /\ InflightWei = a /\ InflightCount * MintFee = b
        BY <1>8, <1>9, <1>12, <2>1
    <2> QED
        BY <1>0, <1>10, <1>11, <2>2, <2>3 DEF Leaves
<1> HIDE DEF all
<1> QED
    BY <1>3, <1>6, <1>13, LeavesLess

LEMMA CheckFundsFloor == ASSUME IInv, IInv', FloorInv, NEW r \in Requests, CheckFunds(r) PROVE FloorInv'
<1>1. UNCHANGED <<landed, mined>> /\ Holds(r, "queued")
    BY DEF CheckFunds, chain
<1>2. CASE MarkFailed(r) /\ Go(r, "done") /\ queue' = Tail(queue)
    <2>1. Still /\ stage'[r] # "signing"
        BY <1>1, <1>2, MarksStill DEF StageSet
    <2>2. MutexStep
        BY <1>1, <1>2, <2>1 DEF MutexStep, Holds
    <2> QED
        BY <1>1, <2>1, <2>2, StillFloor
<1>3. CASE Affordable(Kind(r)) /\ Go(r, "signing") /\ UNCHANGED <<row, queue>>
    <2>1. \A q \in Requests : stage'[q] = IF q = r THEN "signing" ELSE stage[q]
        BY <1>3, GoIs DEF IInv, OnlyStage, StageSet
    <2>2. Exposure' = Exposure /\ \A n : Ahead(n)' = Ahead(n)
        BY <1>1, <1>3 DEF Exposure, Ahead, MayTake, TakenBelow, Cost, Spent, Kind
    <2>3. CheckedInv'
        <3>1. Kind(r) = "eth" => Leaves(Exposure)
            BY <1>3, Affords
        <3>2. \A q \in Requests : Kind(q)' = Kind(q)
            BY <1>3 DEF Kind
        <3> QED
            BY <2>1, <2>2, <3>1, <3>2 DEF CheckedInv, FloorInv, Leaves
    <2>4. GrantInv'
        BY <1>1, <1>3, <2>2 DEF GrantInv, FloorInv, Leaves, Kind, Ahead, TakenBelow, Cost, Spent
    <2>5. MutexInv'
        BY <1>1, <1>3, <2>1 DEF MutexInv, FloorInv, Holds
    <2>6. CountInv'
        BY <1>1 DEF FloorInv, CountInv
    <2> QED
        BY <2>3, <2>4, <2>5, <2>6 DEF FloorInv
<1> QED
    BY <1>2, <1>3 DEF CheckFunds

LEMMA LeavesAhead ==
    ASSUME NEW n, NEW f, Leaves(f), \A q \in Requests : f[q] \in Nat /\ TakenBelow(q, n)' <= f[q]
    PROVE  Leaves(Ahead(n)')
<1>1. \A q \in Requests : Ahead(n)'[q] = TakenBelow(q, n)'
    BY DEF Ahead
<1>2. \A q \in Requests : Ahead(n)'[q] \in Nat /\ f[q] \in Nat /\ Ahead(n)'[q] <= f[q]
    BY <1>1, AmountsNext
<1> QED
    BY <1>2, LeavesLess

\* A signature takes a nonce above every other, so no claim comes before another that
\* was checked without it.
LEMMA SignFloor == ASSUME IInv, IInv', FloorInv, NEW r \in Requests, Sign(r) PROVE FloorInv'
<1>1. UNCHANGED <<landed, mined>> /\ Holds(r, "signing")
    BY DEF Sign, chain
<1>2. CASE MarkFailed(r) /\ Go(r, "done") /\ queue' = Tail(queue)
    <2>1. Still /\ stage'[r] # "signing"
        BY <1>1, <1>2, MarksStill DEF StageSet
    <2>2. MutexStep
        BY <1>1, <1>2, <2>1 DEF MutexStep, Holds
    <2> QED
        BY <1>1, <2>1, <2>2, StillFloor
<1>3. CASE /\ row[r].state = "reserved" /\ Go(r, "sending") /\ UNCHANGED queue
           /\ row' = [row EXCEPT ![r].state = "signed", ![r].quiet = FALSE, ![r].nonce = Max({PendingCount, NextNonce})]
    <2>1. PICK m : m = Max({PendingCount, NextNonce})
        OBVIOUS
    <2>2. m \in Nat /\ \A q \in Requests : row[q].state \in Live => row[q].nonce \in Nat /\ row[q].nonce < m
        BY <2>1, SignNonceIs
    <2>3. row \in [Requests -> Row] /\ landed[r] = "no"
        BY <1>3, RowTypes DEF IInv, ClaimsInv, ClaimOK
    <2>4. /\ row'[r].state = "signed" /\ row'[r].nonce = m /\ row'[r].ask = row[r].ask
          /\ \A q \in Requests \ {r} : row'[q] = row[q]
        BY <1>3, <2>1, <2>3 DEF Row
    <2>5. \A q \in Requests : stage'[q] # "signing"
        <3>1. \A q \in Requests : stage'[q] = IF q = r THEN "sending" ELSE stage[q]
            BY <1>3, GoIs DEF IInv, OnlyStage, StageSet
        <3>2. \A q \in Requests : stage[q] = "signing" => q = r
            BY <1>1 DEF FloorInv, MutexInv, Holds
        <3> QED
            BY <3>1, <3>2
    <2>6. \A q \in Requests \ {r} : Calm(q)
        BY <1>1, <2>4 DEF Calm
    <2>7. GrantInv'
        <3> SUFFICES ASSUME NEW p \in Requests, Kind(p)' = "eth", row'[p].state \in Signed, landed'[p] = "no",
                            row'[p].nonce >= mined'
                     PROVE  Leaves(Ahead(row[p].nonce))'
            BY DEF GrantInv
        <3>1. PICK n : n = row'[p].nonce
            OBVIOUS
        <3>2. n <= m /\ n \in Nat
            <4>1. CASE p = r
                BY <2>2, <2>4, <3>1, <4>1
            <4>2. CASE p # r
                BY <2>2, <2>4, <3>1, <4>2 DEF Live
            <4> QED
                BY <4>1, <4>2
        <3>3. TakenBelow(r, n)' = 0
            BY <1>1, <2>2, <2>3, <2>4, <3>2 DEF TakenBelow
        <3>4. \A q \in Requests : Ahead(n)[q] = TakenBelow(q, n) /\ Exposure[q] = MayTake(q)
            BY DEF Ahead, Exposure
        <3>5. \A q \in Requests : TakenBelow(q, n)' <= TakenBelow(q, n)
            <4>1. \A q \in Requests : TakenBelow(q, n) \in Nat
                BY Amounts
            <4> QED
                BY <2>6, <3>3, <4>1, CalmTakes
        <3>6. Leaves(Ahead(n)')
            <4>1. CASE p = r
                <5>1. Leaves(Exposure)
                    <6>1. Kind(r) = "eth" /\ stage[r] = "signing"
                        BY <1>1, <2>4, <4>1 DEF Kind, Holds
                    <6> QED
                        BY <6>1 DEF FloorInv, CheckedInv
                <5>2. ASSUME NEW q \in Requests PROVE TakenBelow(q, n) <= MayTake(q) /\ MayTake(q) \in Nat /\ TakenBelow(q, n) \in Nat
                    BY Amounts DEF TakenBelow, MayTake
                <5>3. \A q \in Requests : Exposure[q] \in Nat /\ TakenBelow(q, n)' <= Exposure[q]
                    BY <3>4, <3>5, <5>2, AmountsNext
                <5> QED
                    BY <5>1, <5>3, LeavesAhead
            <4>2. CASE p # r
                <5>1. Kind(p) = "eth" /\ row[p].state \in Signed /\ landed[p] = "no" /\ row[p].nonce >= mined /\ n = row[p].nonce
                    BY <1>1, <2>4, <3>1, <4>2 DEF Kind
                <5>2. Leaves(Ahead(n))
                    BY <5>1 DEF FloorInv, GrantInv
                <5>3. \A q \in Requests : Ahead(n)[q] \in Nat /\ TakenBelow(q, n)' <= Ahead(n)[q]
                    BY <3>4, <3>5, Amounts
                <5> QED
                    BY <5>2, <5>3, LeavesAhead
            <4> QED
                BY <4>1, <4>2
        <3>7. Ahead(row[p].nonce)' = Ahead(n)'
            BY <3>1 DEF Ahead, TakenBelow
        <3> QED
            BY <3>6, <3>7 DEF Leaves
    <2>8. CheckedInv' /\ MutexInv'
        BY <2>5 DEF CheckedInv, MutexInv
    <2>9. CountInv'
        BY <1>1 DEF FloorInv, CountInv
    <2> QED
        BY <2>7, <2>8, <2>9 DEF FloorInv
<1> QED
    BY <1>2, <1>3 DEF Sign

\* A claim's transaction is mined: it was the next nonce, and takes at most its cost.
\* Meanwhile its own row may fail, and the mutex be released.
Lands(r) ==
    /\ row[r].state \in Signed /\ landed[r] = "no" /\ row[r].nonce = mined /\ mined' = mined + 1
    /\ landed'[r] # "no" /\ \A q \in Requests \ {r} : landed'[q] = landed[q]
    /\ \A q \in Requests : row'[q].ask = row[q].ask /\ (q # r => row'[q] = row[q])
    /\ \A q \in Requests : stage'[q] = "signing" => stage[q] = "signing"
    /\ MutexStep

LEMMA LandsTakes ==
    ASSUME IInv, NEW r \in Requests, Lands(r), NEW q \in Requests
    PROVE  MayTake(q)' <= MayTake(q) /\ \A n \in Nat : n > mined => TakenBelow(q, n)' <= TakenBelow(q, n)
<1>1. CASE q # r
    <2>1. Calm(q)
        BY <1>1 DEF Lands, Calm
    <2> QED
        BY <2>1, CalmTakes
<1>2. CASE q = r
    <2>1. Spent(r)' <= Cost(r)
        BY AmountsNext DEF Lands, Cost, Kind
    <2>2. MayTake(r)' = Spent(r)' /\ MayTake(r) = Cost(r)
        BY DEF Lands, MayTake
    <2>3. \A n \in Nat : n > mined => TakenBelow(r, n)' = Spent(r)' /\ TakenBelow(r, n) = Cost(r)
        BY DEF Lands, TakenBelow, IInv, Types
    <2> QED
        BY <1>2, <2>1, <2>2, <2>3
<1> QED
    BY <1>1, <1>2

LEMMA LandsFloor == ASSUME IInv, IInv', FloorInv, NEW r \in Requests, Lands(r) PROVE FloorInv'
<1>1. \A q \in Requests : Kind(q)' = Kind(q)
    BY DEF Lands, Kind
<1>2. CheckedInv'
    <2> SUFFICES ASSUME NEW p \in Requests, Kind(p)' = "eth", stage'[p] = "signing" PROVE Leaves(Exposure)'
        BY DEF CheckedInv
    <2>1. Leaves(Exposure)
        BY <1>1 DEF FloorInv, CheckedInv, Lands
    <2>2. \A q \in Requests : Exposure'[q] = MayTake(q)' /\ Exposure[q] = MayTake(q)
        BY DEF Exposure
    <2>3. \A q \in Requests : Exposure'[q] \in Nat /\ Exposure[q] \in Nat /\ Exposure'[q] <= Exposure[q]
        BY <2>2, Amounts, AmountsNext, LandsTakes
    <2>4. Leaves(Exposure')
        BY <2>1, <2>3, LeavesLess
    <2> QED
        BY <2>4 DEF Leaves
<1>3. GrantInv'
    <2> SUFFICES ASSUME NEW p \in Requests, Kind(p)' = "eth", row'[p].state \in Signed, landed'[p] = "no",
                        row'[p].nonce >= mined'
                 PROVE  Leaves(Ahead(row[p].nonce))'
        BY DEF GrantInv
    <2>1. PICK n : n = row[p].nonce
        OBVIOUS
    <2>2. row[p].nonce \in Nat \cup {-1} /\ mined \in Nat
        BY RowTypes DEF IInv, Types
    <2>3. p # r /\ Kind(p) = "eth" /\ row[p].state \in Signed /\ landed[p] = "no" /\ n \in Nat /\ n > mined
        BY <1>1, <2>1, <2>2 DEF Lands
    <2>4. Leaves(Ahead(n))
        BY <2>1, <2>2, <2>3 DEF FloorInv, GrantInv
    <2>5. \A q \in Requests : Ahead(n)[q] = TakenBelow(q, n)
        BY DEF Ahead
    <2>6. \A q \in Requests : Ahead(n)[q] \in Nat /\ TakenBelow(q, n)' <= Ahead(n)[q]
        BY <2>3, <2>5, Amounts, LandsTakes
    <2>7. Leaves(Ahead(n)')
        BY <2>4, <2>6, LeavesAhead
    <2>8. Ahead(row[p].nonce)' = Ahead(n)'
        BY <2>1 DEF Ahead, TakenBelow, Lands
    <2> QED
        BY <2>7, <2>8 DEF Leaves
<1>4. MutexInv'
    BY MutexKept DEF FloorInv, Lands
<1>5. CountInv'
    <2> DEFINE L == {q \in Requests : landed[q] # "no"}
               M == {q \in Requests : landed'[q] # "no"}
    <2>1. IsFiniteSet(L)
        BY RequestAssumption, FS_Subset
    <2>2. M = L \cup {r} /\ r \notin L
        BY DEF Lands
    <2>3. Cardinality(M) = Cardinality(L) + 1 /\ Cardinality(L) \in Nat
        BY <2>1, <2>2, FS_AddElement, FS_CardinalityType
    <2>4. Cardinality(L) <= mined /\ mined' = mined + 1 /\ mined \in Nat
        BY DEF FloorInv, CountInv, Lands, IInv, Types
    <2>5. Cardinality(M) <= mined'
        BY <2>3, <2>4
    <2> QED
        BY <2>5 DEF CountInv
<1> QED
    BY <1>2, <1>3, <1>4, <1>5 DEF FloorInv

\* An ETH grant lands: what landed before it was below it when it was checked.
LEMMA LandsAbove ==
    ASSUME IInv, FloorInv, NEW r \in Requests, Lands(r), Kind(r) = "eth"
    PROVE  Balance' + FillsMined' * FillFee >= Floor
<1> DEFINE n == row[r].nonce
           top == [q \in Requests |-> IF q = r THEN Grant + TransferFee ELSE Ahead(n)[q]]
           spent == [q \in Requests |-> Spent(q)']
<1>0. {Funds, Floor, Grant, TransferFee, FillFee} \subseteq Nat /\ mined \in Nat /\ mined' \in Nat /\ n = mined
    BY FeeAssumption DEF IInv, Types, Lands
<1>1. Leaves(Ahead(n))
    BY <1>0 DEF FloorInv, GrantInv, Lands
<1>2. \A q \in Requests : Ahead(n)[q] = TakenBelow(q, n) /\ Ahead(n)[q] \in Nat
    BY Amounts DEF Ahead
<1>3. Ahead(n)[r] = 0
    BY <1>0, <1>2 DEF TakenBelow, Lands
<1>4. \A q \in Requests : top[q] \in Nat
    BY <1>0, <1>2
<1>5. SumFunctionOnSet(top, Requests) = SumFunctionOnSet(Ahead(n), Requests) - Ahead(n)[r] + top[r]
    <2>1. \A q \in Requests \ {r} : top[q] = Ahead(n)[q]
        OBVIOUS
    <2> HIDE DEF top
    <2> QED
        BY <1>2, <1>4, <2>1, RequestAssumption, SumUpdate
<1>6. \A q \in Requests : spent[q] \in Nat /\ spent[q] <= top[q]
    <2>1. ASSUME NEW q \in Requests PROVE spent[q] \in Nat /\ spent[q] <= top[q]
        <3>1. spent[q] = Spent(q)' /\ Spent(q)' \in Nat
            BY AmountsNext
        <3>2. CASE q = r
            <4>1. Spent(r)' <= Cost(r)
                BY AmountsNext DEF Lands, Cost, Kind
            <4>2. Cost(r) = Grant + TransferFee
                BY <1>0 DEF Cost, Fee
            <4> QED
                BY <3>1, <3>2, <4>1, <4>2
        <3>3. CASE q # r
            <4>1. top[q] = TakenBelow(q, n)
                BY <1>2, <3>3
            <4>2. Spent(q)' = Spent(q)
                BY <3>3 DEF Lands, Spent, Kind
            <4>3. Spent(q) <= TakenBelow(q, n)
                <5>1. CASE landed[q] # "no"
                    BY <3>1, <4>2, <5>1 DEF TakenBelow
                <5>2. CASE landed[q] = "no"
                    BY <1>2, <5>2 DEF Spent
                <5> QED
                    BY <5>1, <5>2
            <4> QED
                BY <3>1, <4>1, <4>2, <4>3
        <3> QED
            BY <3>2, <3>3
    <2> QED
        BY <2>1
<1>7. top[r] = Grant + TransferFee
    OBVIOUS
<1>8. SumFunctionOnSet(Ahead(n), Requests) \in Nat
    BY <1>2, RequestAssumption, SumType
<1>9. Balance' = Funds - SumFunctionOnSet(spent, Requests) - FillsMined' * FillFee
    BY DEF Balance
<1>10. FillsMined' * FillFee \in Int
    <2>1. IsFiniteSet({q \in Requests : landed'[q] # "no"})
        BY RequestAssumption, FS_Subset
    <2>2. Cardinality({q \in Requests : landed'[q] # "no"}) \in Nat
        BY <2>1, FS_CardinalityType
    <2>3. FillsMined' \in Int
        BY <1>0, <2>2 DEF FillsMined
    <2> QED
        BY <1>0, <2>3
<1> HIDE DEF top, spent, n
<1>11. SumFunctionOnSet(spent, Requests) <= SumFunctionOnSet(top, Requests) /\ SumFunctionOnSet(spent, Requests) \in Nat
    BY <1>4, <1>6, RequestAssumption, SumMonotone, SumType
<1>12. SumFunctionOnSet(top, Requests) + Floor <= Funds
    BY <1>0, <1>1, <1>3, <1>5, <1>7, <1>8 DEF Leaves
<1>13. PICK c \in Int : c = FillsMined' * FillFee
    BY <1>10
<1>14. Balance' = Funds - SumFunctionOnSet(spent, Requests) - c
    BY <1>9, <1>13
<1>15. SumFunctionOnSet(top, Requests) \in Nat
    BY <1>4, RequestAssumption, SumType
<1>16. Balance' + c >= Floor
    BY <1>0, <1>11, <1>12, <1>14, <1>15
<1> QED
    BY <1>13, <1>16

\* What Mine does to the floor's state: a claim lands, or a fill is mined.
LEMMA MineIs ==
    ASSUME IInv, Mine
    PROVE  \/ \E r \in Requests : Lands(r)
           \/ mined' = mined + 1 /\ UNCHANGED <<row, stage, queue, landed>>
<1>0. pool \subseteq Requests /\ landed \in [Requests -> Landing]
    BY DEF IInv, Types
<1>1. ASSUME NEW r \in pool, NEW outcome \in {"success", "reverted"}, row[r].nonce = mined,
             mined' = mined + 1, landed' = [landed EXCEPT ![r] = outcome], UNCHANGED <<row, stage, queue>>
      PROVE  Lands(r)
    <2>1. row[r].state \in Signed /\ landed[r] = "no"
        BY <1>0, ClaimFacts DEF PooledOK
    <2>2. MutexStep
        BY <1>1 DEF MutexStep
    <2> QED
        BY <1>0, <1>1, <2>1, <2>2 DEF Lands
<1> QED
    BY <1>0, <1>1 DEF Mine

LEMMA MineFloor == ASSUME IInv, IInv', FloorInv, Mine PROVE FloorInv'
<1>1. CASE \E r \in Requests : Lands(r)
    BY <1>1, LandsFloor
<1>2. CASE mined' = mined + 1 /\ UNCHANGED <<row, stage, queue, landed>>
    <2>1. mined \in Nat
        BY DEF IInv, Types
    <2>2. Still
        BY <1>2, <2>1 DEF Still, Calm
    <2>3. CheckedInv' /\ GrantInv'
        BY <2>2, StillLeaves DEF FloorInv
    <2>4. MutexInv'
        BY <1>2 DEF FloorInv, MutexInv
    <2>5. CountInv'
        <3>1. IsFiniteSet({q \in Requests : landed[q] # "no"})
            BY RequestAssumption, FS_Subset
        <3>2. Cardinality({q \in Requests : landed[q] # "no"}) \in Nat
            BY <3>1, FS_CardinalityType
        <3>3. Cardinality({q \in Requests : landed[q] # "no"}) <= mined + 1
            BY <2>1, <3>2 DEF FloorInv, CountInv
        <3> QED
            BY <1>2, <3>3 DEF CountInv
    <2> QED
        BY <2>3, <2>4, <2>5 DEF FloorInv
<1> QED
    BY <1>1, <1>2, MineIs

\* The reconciler, the node, the clock and a crash check no claim and sign none.
LEMMA ReconcileFloor == ASSUME IInv, IInv', FloorInv, Reconcile PROVE FloorInv' /\ UNCHANGED landed
<1>1. ASSUME UNCHANGED <<landed, mined, stage>>, UNCHANGED row \/ (\E r \in Requests : MarkSent(r) \/ MarkReceipt(r)), MutexStep
      PROVE  FloorInv' /\ UNCHANGED landed
    BY <1>1, ReconcilerStill, StillFloor
<1>2. CASE StartReconcile
    <2>1. UNCHANGED <<landed, mined, stage, queue>> /\ row' = Sweep
        BY <1>2 DEF StartReconcile, chain
    <2>2. ASSUME NEW q \in Requests PROVE Calm(q) /\ row'[q].ask = row[q].ask
        BY <2>1, SweepIs DEF Calm, Signed
    <2>3. Still
        BY <2>1, <2>2 DEF Still, IInv, Types
    <2>4. MutexStep
        BY <2>1 DEF MutexStep
    <2> QED
        BY <2>1, <2>3, <2>4, StillFloor
<1>3. CASE ReadReceipt \/ ReadAgain \/ Rebroadcast
    <2>1. rec.todo # {} /\ UNCHANGED <<landed, mined, stage, queue>>
        BY <1>3 DEF ReadReceipt, ReadAgain, Rebroadcast, chain, IInv, RecInv
    <2>2. PICK c \in Requests : c = Claim
        BY <2>1, ClaimIs
    <2>3. MarkSent(c) \/ MarkReceipt(c) \/ UNCHANGED row
        BY <1>3, <2>2 DEF ReadReceipt, ReadAgain, Rebroadcast
    <2>4. MutexStep
        BY <2>1 DEF MutexStep
    <2> QED
        BY <1>1, <2>1, <2>3, <2>4
<1>4. CASE ReadMined \/ RebroadcastRejected \/ RebroadcastLost \/ RebroadcastAgain \/ Defer
    <2>1. UNCHANGED <<landed, mined, stage, queue, row>>
        BY <1>4 DEF ReadMined, RebroadcastRejected, RebroadcastLost, RebroadcastAgain, Defer, chain
    <2>2. MutexStep
        BY <2>1 DEF MutexStep
    <2> QED
        BY <1>1, <2>1, <2>2
<1>5. CASE QueueFill
    <2>1. UNCHANGED <<landed, mined, stage, row>> /\ queue' = Append(queue, Reconciler)
        BY <1>5 DEF QueueFill, chain
    <2>2. MutexStep
        BY <2>1 DEF MutexStep
    <2> QED
        BY <1>1, <2>1, <2>2
<1>6. CASE StartFill \/ ReadPending \/ Fill \/ FillFails \/ CountFails
    <2>1. UNCHANGED <<landed, mined, stage, row>> /\ (queue' = queue \/ queue' = Tail(queue))
        BY <1>6 DEF StartFill, ReadPending, Fill, FillFails, CountFails, FillFrom, EndReconcile, chain
    <2>2. queue # <<>> /\ Head(queue) = Reconciler /\ Reconciler \notin Requests
        BY <1>6, RequestAssumption DEF StartFill, ReadPending, Fill, FillFails, CountFails, IInv, Holding, Reconciler
    <2>3. MutexStep
        BY <2>1, <2>2 DEF MutexStep
    <2> QED
        BY <1>1, <2>1, <2>3
<1> QED
    BY <1>2, <1>3, <1>4, <1>5, <1>6 DEF Reconcile

LEMMA WorldFloor == ASSUME IInv, IInv', FloorInv, Evict \/ Tick \/ Crash \/ UNCHANGED vars PROVE FloorInv' /\ UNCHANGED landed
<1>1. CASE Evict \/ UNCHANGED vars
    <2>1. UNCHANGED <<landed, mined, stage, queue, row>>
        BY <1>1 DEF Evict, vars
    <2>2. MutexStep
        BY <2>1 DEF MutexStep
    <2> QED
        BY <2>1, <2>2, ReconcilerStill, StillFloor
<1>2. CASE Tick
    <2>1. UNCHANGED <<landed, mined, stage, queue>>
        BY <1>2 DEF Tick, chain
    <2>2. row \in [Requests -> Row]
        BY DEF IInv, Types
    <2>3. ASSUME NEW q \in Requests
          PROVE  row'[q].state = row[q].state /\ row'[q].nonce = row[q].nonce /\ row'[q].ask = row[q].ask
        BY <1>2, <2>2 DEF Tick, Row
    <2>4. Still
        BY <2>1, <2>3 DEF Still, Calm, IInv, Types
    <2>5. MutexStep
        BY <2>1 DEF MutexStep
    <2> QED
        BY <2>1, <2>4, <2>5, StillFloor
<1>3. CASE Crash
    <2>1. UNCHANGED <<landed, mined, row>> /\ \A q \in Requests : stage'[q] # "signing"
        BY <1>3 DEF Crash, chain
    <2>2. Still
        BY <2>1 DEF Still, Calm, IInv, Types
    <2>3. MutexStep
        BY <2>1 DEF MutexStep
    <2> QED
        BY <2>1, <2>2, <2>3, StillFloor
<1> QED
    BY <1>1, <1>2, <1>3

LEMMA InitFloor == ASSUME Init PROVE FloorInv
<1>1. \A r \in Requests : row[r].state = "none" /\ stage[r] = "idle" /\ landed[r] = "no"
    BY DEF Init, NoRow
<1>2. {r \in Requests : landed[r] # "no"} = {} /\ mined = 0
    BY <1>1 DEF Init
<1>3. CountInv
    BY <1>2, FS_EmptySet DEF CountInv
<1> QED
    BY <1>1, <1>3 DEF FloorInv, CheckedInv, GrantInv, MutexInv, Signed

\* The repeat of bytes already mined: the claim lands as its row fails.
LEMMA RepeatIs ==
    ASSUME IInv, NEW r \in Requests, SendRepeated(r)
    PROVE  Lands(r)
<1>1. /\ stage[r] = "sending" /\ stage[r] \notin After /\ queue # <<>> /\ Head(queue) = r /\ queue' = Tail(queue)
      /\ row[r].nonce = mined /\ mined' = mined + 1 /\ MarkFailed(r) /\ Go(r, "done")
    BY DEF SendRepeated, Holds, After
<1>2. /\ Types /\ ClaimOK(row[r], stage[r], landed[r], r \in misread) /\ landed[r] = "no" /\ mined \in Nat
      /\ landed \in [Requests -> Landing]
    BY <1>1, ClaimFacts, RowTypes DEF Types
<1>3. row[r].state \in Signed /\ "failed" \in States /\ "done" \in StageSet
    BY <1>1, <1>2 DEF ClaimOK, Signed, States, Finished, StageSet
<1>4. landed'[r] # "no" /\ \A q \in Requests \ {r} : landed'[q] = landed[q]
    BY <1>2 DEF SendRepeated
<1>5. PICK v \in Row : OnlyRow(r, v) /\ v.ask = row[r].ask
    BY <1>1, <1>2, <1>3, MoveIs DEF MarkFailed
<1>6. \A q \in Requests : row'[q].ask = row[q].ask /\ (q # r => row'[q] = row[q])
    BY <1>5 DEF OnlyRow
<1>7. \A q \in Requests : stage'[q] = IF q = r THEN "done" ELSE stage[q]
    BY <1>1, <1>2, <1>3, GoIs DEF OnlyStage
<1>8. MutexStep
    BY <1>1, <1>7 DEF MutexStep
<1> QED
    BY <1>1, <1>2, <1>3, <1>4, <1>6, <1>7, <1>8 DEF Lands

LEMMA ClaimFloor ==
    ASSUME IInv, IInv', FloorInv, NEW r \in Requests, Reserve(r) \/ Step(r)
    PROVE  FloorInv' /\ (UNCHANGED landed \/ Lands(r))
<1>1. CASE SendRepeated(r)
    BY <1>1, RepeatIs, LandsFloor
<1>2. CASE ~SendRepeated(r)
    <2>1. FloorInv'
        BY <1>2, ReserveFloor, PlanFloor, CheckFundsFloor, SignFloor, SendFloor, AwaitFloor DEF Step
    <2>2. UNCHANGED landed
        BY <1>2 DEF Step, Reserve, Plan, CheckFunds, Sign, SendAccepted, SendRejected, SendLost, Await, chain
    <2> QED
        BY <2>1, <2>2
<1> QED
    BY <1>1, <1>2

LEMMA NextFloor == ASSUME IInv, FloorInv, [Next]_vars PROVE FloorInv'
<1>1. IInv'
    BY NextInv
<1> QED
    BY <1>1, ClaimFloor, ReconcileFloor, MineFloor, WorldFloor DEF Next

\* In every reachable state a claim that was checked or signed leaves the floor, counting
\* all that can land before it.
THEOREM FloorInvariance == Spec => []FloorInv
BY InitInv, InitFloor, NextInv, NextFloor, PTL DEF Spec

\* The ETH tab never spends below the floor: whenever an ETH grant lands, the wallet still
\* holds minBalanceWei, the fees of gap fills apart, whatever claims were in flight when
\* affordable() read the balance (FloorKept).
THEOREM FloorAlwaysKept == Spec => FloorKept
<1>1. ASSUME IInv, FloorInv, [Next]_vars
      PROVE  [\A r \in Requests : Kind(r) = "eth" /\ landed[r] = "no" /\ landed'[r] = "success"
                  => Balance' + FillsMined' * FillFee >= Floor]_vars
    <2> SUFFICES ASSUME NEW r \in Requests, Kind(r) = "eth", landed[r] = "no", landed'[r] = "success"
                 PROVE  Balance' + FillsMined' * FillFee >= Floor
        OBVIOUS
    <2>1. IInv'
        BY <1>1, NextInv
    <2>2. Mine \/ \E q \in Requests : Lands(q)
        BY <1>1, <2>1, ClaimFloor, ReconcileFloor, WorldFloor DEF Next
    <2>3. Lands(r)
        BY <1>1, <2>2, MineIs DEF Lands
    <2> QED
        BY <1>1, <2>3, LandsAbove
<1>2. IInv /\ FloorInv /\ [Next]_vars => [\A r \in Requests : Kind(r) = "eth" /\ landed[r] = "no" /\ landed'[r] = "success"
                  => Balance' + FillsMined' * FillFee >= Floor]_vars
    BY <1>1
<1> QED
    BY <1>2, Invariance, FloorInvariance, PTL DEF Spec, FloorKept
=============================================================================
