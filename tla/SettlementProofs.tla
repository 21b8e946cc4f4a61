-------------------------- MODULE SettlementProofs ---------------------------
(***************************************************************************)
(* Proofs about the /settle path for every set of intents, payers and      *)
(* request slots, every limit and every number of crashes.                 *)
(***************************************************************************)
EXTENDS SettlementRecovery, TLAPS, WellFoundedInduction, FiniteSetTheorems, SumTheorems

-----------------------------------------------------------------------------
(***************************************************************************)
(* The inductive invariant, in named parts.  TypeOK is not inductive on    *)
(* its own: NextNonce and NextEventId are maxima, so they are naturals     *)
(* only because the nonces and the event ids are bounded; and Tail(queue)  *)
(* is a sequence only because an operation inside the prepare section is   *)
(* the head of the queue.                                                  *)
(***************************************************************************)
Bounded ==
    /\ \E b \in Nat : \A j \in DOMAIN rows : rows[j].nonce + 1 <= b
    /\ \E b \in Nat : \A e \in ledger : e.id <= b
    /\ IsFiniteSet(mined)

InSection ==
    \A i \in Intents : op[i].pc \in {"nonce", "prepare"} => Preparing(i) /\ ~Claimed(i)

\* A call that is not idle carries its payment.
CallsCarryIntents == \A c \in Calls : call[c].st # "idle" => call[c].intent \in Intents

\* Past the section an operation has a durable claim.
PastClaimed ==
    \A i \in Intents : op[i].pc \in {"receipt", "sending", "waiting"} => Claimed(i)

TypeInv == TypeOK /\ Bounded /\ InSection /\ CallsCarryIntents /\ PastClaimed

\* nextNonce() returns a nonce.
LEMMA NextNonceType ==
    ASSUME JournalTypeOK, Bounded, NEW p \in Nat
    PROVE  NextNonce(p) \in Nat
<1> DEFINE S == {p} \cup {rows[j].nonce + 1 : j \in DOMAIN rows}
<1>1. S \in SUBSET Nat /\ S # {}
    BY DEF JournalTypeOK, Row
<1>2. PICK b \in Nat : \A j \in DOMAIN rows : rows[j].nonce + 1 <= b
    BY DEF Bounded
<1>3. \A x \in S : x <= b + p
    BY <1>2 DEF JournalTypeOK, Row
<1>4. b + p \in Nat
    OBVIOUS
<1> HIDE DEF S
<1>5. Max(S) \in S
    BY <1>1, <1>3, <1>4, MaxOfBounded
<1> QED
    BY <1>1, <1>5 DEF NextNonce, S

\* The next event id is an id, and no event on file has it.
LEMMA NextEventIdFresh ==
    ASSUME JournalTypeOK, Bounded
    PROVE  /\ NextEventId \in Nat \ {0}
           /\ \A e \in ledger : e.id < NextEventId
<1> DEFINE S == {0} \cup EventIds
<1>1. S \in SUBSET Nat /\ S # {}
    BY DEF JournalTypeOK, Event, EventIds
<1>2. PICK b \in Nat : \A e \in ledger : e.id <= b
    BY DEF Bounded
<1>3. \A x \in S : x <= b
    BY <1>2 DEF JournalTypeOK, Event, EventIds
<1>4. \A e \in ledger : e.id \in S
    BY DEF EventIds
<1> HIDE DEF S
<1>5. Max(S) \in S /\ \A x \in S : x <= Max(S)
    BY <1>1, <1>3, MaxOfBounded
<1>6. Max(S) \in Nat
    BY <1>1, <1>5
<1>7. NextEventId = Max(S) + 1
    BY DEF NextEventId, S
<1>8. \A e \in ledger : e.id \in Nat /\ e.id <= Max(S)
    BY <1>1, <1>4, <1>5
<1> QED
    BY <1>6, <1>7, <1>8

\* A node's pending count is a natural number.
LEMMA PendingType ==
    ASSUME IsFiniteSet(mined) PROVE PendingNonces \subseteq Nat
<1>1. AccountNonce \in Nat
    BY FS_CardinalityType DEF AccountNonce
<1> QED
    BY <1>1 DEF PendingNonces

-----------------------------------------------------------------------------
(* The journal's transactions, each on its own. *)

\* claim() keeps the journal well typed, adds one row and bounds its nonces.
LEMMA ClaimType ==
    ASSUME TypeOK, Bounded, NEW i \in Intents, NEW n \in Nat, NEW w \in Reservations,
           Claim(i, n, w)
    PROVE  /\ JournalTypeOK'
           /\ \E b \in Nat : \A j \in DOMAIN rows' : rows'[j].nonce + 1 <= b
           /\ DOMAIN rows' = DOMAIN rows \cup {i}
           /\ ledger' = ledger
<1> USE JournalAssumption
<1>1. w \in Nat /\ PayerOf[i] \in Payers
    OBVIOUS
<1>2. DOMAIN rows' = DOMAIN rows \cup {i} /\ UNCHANGED <<ledger, day>>
    BY DEF Claim
<1>3. rows' \in [DOMAIN rows' -> Row]
    BY <1>1 DEF Claim, TypeOK, JournalTypeOK, Row
<1>4. budget' \in [Scopes -> [Days -> Nat]]
    BY <1>1 DEF Claim, TypeOK, JournalTypeOK
<1>5. PICK b \in Nat : \A j \in DOMAIN rows : rows[j].nonce + 1 <= b
    BY DEF Bounded
<1>6. \A j \in DOMAIN rows' : rows'[j].nonce + 1 <= b + n + 1
    <2>1. SUFFICES ASSUME NEW j \in DOMAIN rows' PROVE rows'[j].nonce + 1 <= b + n + 1
        OBVIOUS
    <2>2. CASE j = i
        BY <2>2 DEF Claim
    <2>3. CASE j # i
        <3>1. j \in DOMAIN rows /\ rows'[j] = rows[j] /\ rows[j].nonce \in Nat
            BY <2>1, <2>3, <1>2 DEF Claim, TypeOK, JournalTypeOK, Row
        <3> QED
            BY <1>5, <3>1
    <2> QED
        BY <2>2, <2>3
<1>7. b + n + 1 \in Nat
    OBVIOUS
<1> QED
    BY <1>2, <1>3, <1>4, <1>6, <1>7 DEF TypeOK, JournalTypeOK

\* finish() keeps the journal well typed, moves no row to another nonce and bounds its ids.
LEMMA FinishType ==
    ASSUME TypeOK, Bounded, NEW i \in Intents, NEW c \in Nat, NEW o \in {"settled", "error"},
           Finish(i, c, o)
    PROVE  /\ JournalTypeOK'
           /\ DOMAIN rows' = DOMAIN rows
           /\ \A j \in DOMAIN rows : /\ rows'[j].nonce = rows[j].nonce
                                     /\ rows'[j].reserved = rows[j].reserved
           /\ \E b \in Nat : \A e \in ledger' : e.id <= b
<1> USE JournalAssumption
<1>1. i \in DOMAIN rows /\ rows[i] \in Row /\ PayerOf[i] \in Payers
    BY DEF Finish, Claimed, TypeOK, JournalTypeOK
<1>2. NextEventId \in Nat \ {0} /\ \A e \in ledger : e.id < NextEventId
    BY NextEventIdFresh DEF TypeOK
<1>3. rows' = [rows EXCEPT ![i].event = NextEventId, ![i].cost = c]
    BY DEF Finish
<1>4. /\ rows' \in [DOMAIN rows -> Row]
      /\ DOMAIN rows' = DOMAIN rows
      /\ \A j \in DOMAIN rows : /\ rows'[j].nonce = rows[j].nonce
                                /\ rows'[j].reserved = rows[j].reserved
    BY <1>1, <1>2, <1>3 DEF TypeOK, JournalTypeOK, Row
<1>5. budget' \in [Scopes -> [Days -> Nat]]
    <2>1. rows[i].day \in Days /\ rows[i].reserved \in Nat
        BY <1>1 DEF Row
    <2>2. \A s \in Charge(i) : s \in Scopes
        BY <1>1 DEF Charge, Scopes
    <2>3. \A s \in Charge(i) : budget[s][rows[i].day] - rows[i].reserved + c \in Nat
        <3>1. \A s \in Charge(i) : budget[s][rows[i].day] - rows[i].reserved + c >= 0
            BY DEF Finish
        <3>2. \A s \in Charge(i) : budget[s][rows[i].day] \in Nat
            BY <2>1, <2>2 DEF TypeOK, JournalTypeOK
        <3> QED
            BY <2>1, <3>1, <3>2
    <2> QED
        BY <2>1, <2>2, <2>3 DEF Finish, TypeOK, JournalTypeOK
<1>6. ledger' = ledger \cup {[id |-> NextEventId, at |-> day, outcome |-> o, intent |-> i]}
    BY DEF Finish
<1>7. ledger' \subseteq Event
    BY <1>2, <1>6 DEF TypeOK, JournalTypeOK, Event, Outcomes
<1>8. \A e \in ledger' : e.id <= NextEventId
    BY <1>2, <1>6 DEF TypeOK, JournalTypeOK, Event
<1> QED
    BY <1>2, <1>4, <1>5, <1>7, <1>8 DEF Finish, TypeOK, JournalTypeOK

\* A rejected ledger row keeps the journal well typed and its ids bounded.
LEMMA RejectionType ==
    ASSUME TypeOK, Bounded, NEW i \in Intents, RecordRejection(i)
    PROVE  /\ JournalTypeOK'
           /\ UNCHANGED rows
           /\ \E b \in Nat : \A e \in ledger' : e.id <= b
<1>1. NextEventId \in Nat \ {0} /\ \A e \in ledger : e.id < NextEventId
    BY NextEventIdFresh DEF TypeOK
<1>2. /\ ledger' = ledger \cup {[id |-> NextEventId, at |-> day,
                                outcome |-> "rejected", intent |-> i]}
      /\ UNCHANGED <<rows, budget, day>>
    BY DEF RecordRejection
<1>3. ledger' \subseteq Event
    BY <1>1, <1>2 DEF TypeOK, JournalTypeOK, Event, Outcomes
<1>4. \A e \in ledger' : e.id <= NextEventId
    BY <1>1, <1>2 DEF TypeOK, JournalTypeOK, Event
<1> QED
    BY <1>1, <1>2, <1>3, <1>4 DEF TypeOK, JournalTypeOK

\* prune() only removes rejected events.
LEMMA PruneKeeps ==
    ASSUME Prune
    PROVE  /\ ledger' \subseteq ledger
           /\ \A e \in ledger : e.outcome # "rejected" => e \in ledger'
           /\ UNCHANGED <<rows, budget, day>>
BY DEF Prune, Rejected

-----------------------------------------------------------------------------
(* Type correctness. *)

\* The initial state is well typed.
LEMMA TypeInit == Init => TypeInv
<1> SUFFICES ASSUME Init PROVE TypeInv
    OBVIOUS
<1> USE JournalAssumption, RecoveryAssumption
<1>1. TypeOK
    BY DEF Init, JournalInit, TypeOK, JournalTypeOK, Days, IdleOp, IdleCall, Operation, Call, Stages
<1>2. Bounded
    <2>1. IsFiniteSet(mined)
        BY FS_EmptySet DEF Init
    <2>2. (\A j \in DOMAIN rows : rows[j].nonce + 1 <= 0) /\ (\A e \in ledger : e.id <= 0)
        BY DEF Init, JournalInit
    <2> QED
        BY <2>1, <2>2 DEF Bounded
<1>3. InSection /\ CallsCarryIntents /\ PastClaimed
    BY DEF Init, InSection, CallsCarryIntents, PastClaimed, IdleOp, IdleCall
<1> QED
    BY <1>1, <1>2, <1>3 DEF TypeInv

\* What an unchanged journal and chain keep.
LEMMA FrameJournal ==
    ASSUME TypeInv, UNCHANGED journalVars
    PROVE  /\ JournalTypeOK'
           /\ \E b \in Nat : \A j \in DOMAIN rows' : rows'[j].nonce + 1 <= b
           /\ \E b \in Nat : \A e \in ledger' : e.id <= b
           /\ \A i \in Intents : Claimed(i)' <=> Claimed(i)
BY DEF TypeInv, TypeOK, JournalTypeOK, Bounded, Claimed, journalVars

\* Answering a set of callers keeps the types of what it touches.
LEMMA ResolveType ==
    ASSUME TypeInv, NEW i \in Intents, NEW st \in Answers \cup {"refused"},
           Resolve(i, st)
    PROVE  /\ op' \in [Intents -> Operation]
           /\ call' \in [Calls -> Call]
           /\ fresh' \in [Intents -> Nat]
           /\ CallsCarryIntents'
           /\ op'[i].pc = "idle"
           /\ \A j \in Intents : j # i => op'[j] = op[j]
<1>1. IdleOp \in Operation /\ IdleOp.pc = "idle"
    BY DEF IdleOp, Operation, Stages
<1>2. call' \in [Calls -> Call]
    BY DEF Resolve, TypeInv, TypeOK, Call
<1>3. CallsCarryIntents'
    BY DEF Resolve, TypeInv, TypeOK, Call, CallsCarryIntents, Waiting
<1> QED
    BY <1>1, <1>2, <1>3 DEF Resolve, TypeInv, TypeOK

\* At most the owner of an operation answers unmarked, and nobody does when it resumed
\* a row that was already on file.
LEMMA UnmarkedCount ==
    ASSUME NEW i \in Intents, NEW rep \in BOOLEAN
    PROVE  /\ Cardinality(Unmarked(i, rep)) \in {0, 1}
           /\ rep => Cardinality(Unmarked(i, rep)) = 0
<1>1. Unmarked(i, rep) \subseteq {op[i].owner}
    BY DEF Unmarked, Marked
<1>2. Unmarked(i, rep) = {} \/ Unmarked(i, rep) = {op[i].owner}
    BY <1>1
<1>3. rep => Unmarked(i, rep) = {}
    BY DEF Unmarked, Marked
<1>4. Cardinality({}) = 0 /\ Cardinality({op[i].owner}) = 1
    BY FS_EmptySet, FS_Singleton
<1> QED
    BY <1>2, <1>3, <1>4

\* An operation that resolves with a terminal row leaves the process well typed.
LEMMA ResolveTerminalType ==
    ASSUME TypeInv, NEW i \in Intents, NEW st \in {"settled", "error"}, NEW rep \in BOOLEAN,
           ResolveTerminal(i, st, rep)
    PROVE  /\ op' \in [Intents -> Operation]
           /\ call' \in [Calls -> Call]
           /\ fresh' \in [Intents -> Nat]
           /\ CallsCarryIntents'
           /\ op'[i].pc = "idle"
           /\ \A j \in Intents : j # i => op'[j] = op[j]
<1>1. IdleOp \in Operation /\ IdleOp.pc = "idle"
    BY DEF IdleOp, Operation, Stages
<1>2. \A c \in Calls : Marked(c, i, rep) \in BOOLEAN
    BY DEF Marked
<1>3. call' \in [Calls -> Call]
    BY <1>2 DEF ResolveTerminal, TypeInv, TypeOK, Call, Answers
<1>4. CallsCarryIntents'
    BY DEF ResolveTerminal, TypeInv, TypeOK, Call, CallsCarryIntents, Waiting
<1>5. fresh' \in [Intents -> Nat]
    <2>1. fresh \in [Intents -> Nat]
        BY DEF TypeInv, TypeOK
    <2>2. fresh' = [fresh EXCEPT ![i] = @ + Cardinality(Unmarked(i, rep))]
        BY Zenon DEF ResolveTerminal
    <2>3. Cardinality(Unmarked(i, rep)) \in Nat
        BY UnmarkedCount
    <2> QED
        BY <2>1, <2>2, <2>3
<1> QED
    BY <1>1, <1>3, <1>4, <1>5 DEF ResolveTerminal, TypeInv, TypeOK

\* Leaving the queue from its head keeps it a queue of intents.
LEMMA LeaveType ==
    ASSUME TypeInv, queue # <<>>, LeaveQueue
    PROVE  queue' \in Seq(Intents)
BY DEF TypeInv, TypeOK, LeaveQueue

\* If i is the one inside the section, nobody else is.
LEMMA SectionExclusive ==
    ASSUME TypeInv, NEW i \in Intents, Preparing(i), NEW j \in Intents, j # i
    PROVE  op[j].pc \notin {"nonce", "prepare"}
BY DEF TypeInv, InSection, Preparing

\* An operation that ends or leaves the section from its head.
LEMMA LeaveSection ==
    ASSUME TypeInv, NEW i \in Intents, Preparing(i), LeaveQueue,
           op'[i].pc \notin {"nonce", "prepare"},
           \A j \in Intents : j # i => op'[j] = op[j]
    PROVE  queue' \in Seq(Intents) /\ InSection'
<1>1. queue' \in Seq(Intents)
    BY LeaveType DEF Preparing
<1>2. \A j \in Intents : op'[j].pc \notin {"nonce", "prepare"}
    BY SectionExclusive
<1> QED
    BY <1>1, <1>2 DEF InSection

\* A request that arrives or joins keeps the process well typed.
LEMMA TypeArrive ==
    ASSUME TypeInv, NEW c \in Calls, NEW i \in Intents, Arrive(c, i)
    PROVE  TypeInv'
<1>1. UNCHANGED journalVars /\ UNCHANGED <<mempool, mined, fresh, crashes>>
    BY DEF Arrive, chainVars
<1>2. call' \in [Calls -> Call] /\ CallsCarryIntents'
    BY DEF Arrive, TypeInv, TypeOK, Call, CallsCarryIntents
<1>3. CASE op[i].pc = "idle"
    <2>1. /\ op' = [op EXCEPT ![i] = [IdleOp EXCEPT !.pc = "queued", !.owner = c]]
          /\ queue' = Append(queue, i)
        BY <1>3 DEF Arrive
    <2>2. op' \in [Intents -> Operation] /\ op'[i].pc = "queued"
        BY <2>1 DEF TypeInv, TypeOK, Operation, IdleOp, Stages
    <2>3. queue' \in Seq(Intents)
        BY <2>1 DEF TypeInv, TypeOK
    <2>4. InSection' /\ PastClaimed'
        <3>1. \A j \in Intents : Preparing(j) => Preparing(j)'
            BY <2>1 DEF TypeInv, TypeOK, Preparing
        <3>2. \A j \in Intents : j # i => op'[j] = op[j]
            BY <2>1 DEF TypeInv, TypeOK
        <3> QED
            BY <1>1, <2>2, <3>1, <3>2, FrameJournal DEF TypeInv, InSection, PastClaimed
    <2> QED
        BY <1>1, <1>2, <2>2, <2>3, <2>4, FrameJournal DEF TypeInv, TypeOK, Bounded
<1>4. CASE op[i].pc # "idle"
    <2>1. UNCHANGED <<op, queue>>
        BY <1>4 DEF Arrive
    <2>2. InSection' /\ PastClaimed'
        BY <1>1, <2>1, FrameJournal DEF TypeInv, InSection, PastClaimed, Preparing
    <2> QED
        BY <1>1, <1>2, <2>1, <2>2, FrameJournal DEF TypeInv, TypeOK, Bounded
<1> QED
    BY <1>3, <1>4

\* known(), with each of its three answers, keeps the process well typed.
LEMMA TypeLookUp ==
    ASSUME TypeInv, NEW i \in Intents, LookUp(i),
           Terminal(i) => TerminalEvent(i).outcome \in {"settled", "error"}
    PROVE  TypeInv'
<1>1. UNCHANGED journalVars /\ UNCHANGED <<mempool, mined, crashes>> /\ Preparing(i)
    BY Zenon DEF LookUp, chainVars
<1>2. CASE Terminal(i) /\ LeaveQueue /\ ResolveTerminal(i, TerminalEvent(i).outcome, TRUE)
    <2>1. /\ op' \in [Intents -> Operation] /\ call' \in [Calls -> Call]
          /\ fresh' \in [Intents -> Nat] /\ CallsCarryIntents'
          /\ op'[i].pc = "idle" /\ \A j \in Intents : j # i => op'[j] = op[j]
        <3>1. TRUE \in BOOLEAN
            OBVIOUS
        <3> QED
            BY <1>2, <3>1, ResolveTerminalType
    <2>2. queue' \in Seq(Intents) /\ InSection'
        BY <1>1, <1>2, <2>1, LeaveSection
    <2>3. PastClaimed'
        BY <1>1, <2>1, FrameJournal DEF TypeInv, PastClaimed
    <2> QED
        BY <1>1, <2>1, <2>2, <2>3, FrameJournal DEF TypeInv, TypeOK, Bounded
<1>3. CASE /\ Claimed(i) /\ ~Terminal(i)
           /\ LeaveQueue
           /\ op' = [op EXCEPT ![i].pc = "receipt", ![i].replayed = TRUE]
           /\ UNCHANGED <<call, fresh>>
    <2>1. /\ op' \in [Intents -> Operation] /\ op'[i].pc = "receipt"
          /\ \A j \in Intents : j # i => op'[j] = op[j]
        BY <1>3, ZenonT(30) DEF TypeInv, TypeOK, Operation, Stages
    <2>2. queue' \in Seq(Intents) /\ InSection'
        BY <1>1, <1>3, <2>1, LeaveSection
    <2>3. PastClaimed'
        BY <1>1, <1>3, <2>1, FrameJournal DEF TypeInv, PastClaimed
    <2> QED
        BY <1>1, <1>3, <2>1, <2>2, <2>3, FrameJournal
        DEF TypeInv, TypeOK, Bounded, CallsCarryIntents
<1>4. CASE /\ ~Claimed(i)
           /\ op' = [op EXCEPT ![i].pc = "nonce"]
           /\ UNCHANGED <<queue, call, fresh>>
    <2>1. /\ op' \in [Intents -> Operation] /\ op'[i].pc = "nonce"
          /\ \A j \in Intents : j # i => op'[j] = op[j]
        BY <1>4 DEF TypeInv, TypeOK, Operation, Stages
    <2>2. InSection' /\ PastClaimed'
        BY <1>1, <1>4, <2>1, FrameJournal DEF TypeInv, InSection, PastClaimed, Preparing
    <2> QED
        BY <1>1, <1>4, <2>1, <2>2, FrameJournal DEF TypeInv, TypeOK, Bounded, CallsCarryIntents
<1> QED
    BY <1>2, <1>3, <1>4, Zenon DEF LookUp

\* The allocated nonce is a nonce.
LEMMA TypeAllocate ==
    ASSUME TypeInv, NEW i \in Intents, AllocateNonce(i)
    PROVE  TypeInv'
<1>1. /\ UNCHANGED journalVars /\ UNCHANGED <<mempool, mined, queue, call, fresh, crashes>>
      /\ op[i].pc = "nonce"
    BY DEF AllocateNonce, chainVars
<1>2. PICK p \in PendingNonces :
          op' = [op EXCEPT ![i].pc = "prepare", ![i].nonce = NextNonce(p)]
    BY DEF AllocateNonce
<1>3. NextNonce(p) \in Nat
    BY PendingType, NextNonceType DEF TypeInv, TypeOK, Bounded
<1>4. /\ op' \in [Intents -> Operation] /\ op'[i].pc = "prepare"
      /\ \A j \in Intents : j # i => op'[j] = op[j]
    BY <1>2, <1>3, ZenonT(30) DEF TypeInv, TypeOK, Operation, Stages
<1>5. InSection' /\ PastClaimed'
    BY <1>1, <1>4, FrameJournal DEF TypeInv, InSection, PastClaimed, Preparing
<1> QED
    BY <1>1, <1>4, <1>5, FrameJournal DEF TypeInv, TypeOK, Bounded, CallsCarryIntents

\* prepare() and claim() hand the section on with the claim durable.
LEMMA TypeClaim ==
    ASSUME TypeInv, NEW i \in Intents, ClaimPrepared(i)
    PROVE  TypeInv'
<1>1. /\ op[i].pc = "prepare" /\ LeaveQueue
      /\ op' = [op EXCEPT ![i].pc = "receipt"]
      /\ UNCHANGED <<mempool, mined, call, fresh, crashes>>
    BY DEF ClaimPrepared, chainVars
<1>2. PICK w \in Reservations : Claim(i, op[i].nonce, w)
    BY DEF ClaimPrepared
<1>3. op[i].nonce \in Nat /\ Preparing(i)
    BY <1>1 DEF TypeInv, TypeOK, Operation, InSection
<1>4. /\ JournalTypeOK'
      /\ \E b \in Nat : \A j \in DOMAIN rows' : rows'[j].nonce + 1 <= b
      /\ DOMAIN rows' = DOMAIN rows \cup {i} /\ ledger' = ledger
    BY <1>2, <1>3, ClaimType DEF TypeInv
<1>5. /\ op' \in [Intents -> Operation] /\ op'[i].pc = "receipt"
      /\ \A j \in Intents : j # i => op'[j] = op[j]
    BY <1>1 DEF TypeInv, TypeOK, Operation, Stages
<1>6. queue' \in Seq(Intents) /\ InSection'
    BY <1>1, <1>3, <1>5, LeaveSection
<1>7. PastClaimed'
    BY <1>4, <1>5 DEF TypeInv, PastClaimed, Claimed
<1> QED
    BY <1>1, <1>4, <1>5, <1>6, <1>7 DEF TypeInv, TypeOK, Bounded, CallsCarryIntents

\* The three ways an operation ends inside the section.
LEMMA TypeFailInside ==
    ASSUME TypeInv, NEW i \in Intents, NotReady(i) \/ RefuseRedemption(i) \/ RefuseBudget(i)
    PROVE  TypeInv' /\ Preparing(i)
<1>1. /\ UNCHANGED journalVars /\ UNCHANGED <<mempool, mined, crashes>> /\ LeaveQueue
      /\ Preparing(i)
    BY DEF NotReady, RefuseRedemption, RefuseBudget, chainVars, TypeInv, InSection
<1>2. PICK st \in Answers \cup {"refused"} : Resolve(i, st)
    BY DEF NotReady, RefuseRedemption, RefuseBudget, Answers
<1>3. /\ op' \in [Intents -> Operation] /\ call' \in [Calls -> Call]
      /\ fresh' \in [Intents -> Nat] /\ CallsCarryIntents'
      /\ op'[i].pc = "idle" /\ \A j \in Intents : j # i => op'[j] = op[j]
    BY <1>2, ResolveType
<1>4. queue' \in Seq(Intents) /\ InSection'
    BY <1>1, <1>3, LeaveSection
<1>5. PastClaimed'
    BY <1>1, <1>3, FrameJournal DEF TypeInv, PastClaimed
<1> QED
    BY <1>1, <1>3, <1>4, <1>5, FrameJournal DEF TypeInv, TypeOK, Bounded

\* Answering a refused call keeps the process well typed.
LEMMA TypeRefuse ==
    ASSUME TypeInv, NEW c \in Calls, Refuse(c)
    PROVE  TypeInv'
<1>1. /\ UNCHANGED <<mempool, mined, op, queue, fresh, crashes>>
      /\ call[c].st = "refused" /\ call' = [call EXCEPT ![c].st = "rejected"]
    BY DEF Refuse, chainVars
<1>2. call[c].intent \in Intents
    BY <1>1 DEF TypeInv, CallsCarryIntents
<1>3. call' \in [Calls -> Call] /\ CallsCarryIntents'
    BY <1>1, <1>2 DEF TypeInv, TypeOK, Call, CallsCarryIntents, Answers
<1>4. /\ JournalTypeOK' /\ UNCHANGED rows
      /\ \E b \in Nat : \A e \in ledger' : e.id <= b
    <2>1. CASE RecordRejection(call[c].intent)
        BY <1>2, <2>1, RejectionType DEF TypeInv
    <2>2. CASE UNCHANGED journalVars
        BY <2>2, FrameJournal DEF journalVars
    <2> QED
        BY <2>1, <2>2 DEF Refuse
<1>5. InSection' /\ PastClaimed'
    BY <1>1, <1>4 DEF TypeInv, InSection, PastClaimed, Preparing, Claimed
<1> QED
    BY <1>1, <1>3, <1>4, <1>5 DEF TypeInv, TypeOK, Bounded

\* Moves of one operation past its claim that touch neither the journal nor the queue.
LEMMA TypeNetwork ==
    ASSUME TypeInv, NEW i \in Intents, ReceiptMissing(i) \/ SendTaken(i) \/ SendFailed(i)
    PROVE  TypeInv'
<1>1. /\ UNCHANGED journalVars /\ UNCHANGED <<mined, queue, call, fresh, crashes>>
      /\ op[i].pc \in {"receipt", "sending"}
    BY DEF ReceiptMissing, SendTaken, SendFailed, chainVars
<1>2. PICK pc \in {"sending", "waiting"} : op' = [op EXCEPT ![i].pc = pc]
    BY DEF ReceiptMissing, SendTaken, SendFailed
<1>3. /\ op' \in [Intents -> Operation] /\ op'[i].pc = pc
      /\ \A j \in Intents : j # i => op'[j] = op[j]
    BY <1>2 DEF TypeInv, TypeOK, Operation, Stages
<1>4. Claimed(i) /\ TxOf(i) \in Tx
    BY <1>1 DEF TypeInv, TypeOK, JournalTypeOK, PastClaimed, Claimed, TxOf, Tx, Row
<1>5. mempool' \subseteq Tx
    BY <1>4 DEF ReceiptMissing, SendTaken, SendFailed, chainVars, TypeInv, TypeOK
<1>6. InSection' /\ PastClaimed'
    BY <1>1, <1>3, <1>4, FrameJournal DEF TypeInv, InSection, PastClaimed, Preparing
<1> QED
    BY <1>1, <1>3, <1>5, <1>6, FrameJournal DEF TypeInv, TypeOK, Bounded, CallsCarryIntents

\* Journalling a receipt keeps the process well typed.
LEMMA TypeConclude ==
    ASSUME TypeInv, NEW i \in Intents, Conclude(i)
    PROVE  TypeInv'
<1> DEFINE r == ReceiptOf(i)
           o == LedgerOutcome(r.outcome)
<1>1. /\ UNCHANGED <<mempool, mined, queue, crashes>> /\ Mined(TxOf(i))
      /\ Finish(i, r.cost, o) /\ ResolveTerminal(i, o, op[i].replayed)
      /\ op[i].pc \in {"receipt", "waiting"}
    BY DEF Conclude, chainVars
<1>2. r \in mined /\ r.tx = TxOf(i)
    BY <1>1 DEF Mined, ReceiptOf
<1>3. r.cost \in Nat /\ o \in {"settled", "error"} /\ op[i].replayed \in BOOLEAN
    BY <1>2 DEF TypeInv, TypeOK, Receipt, LedgerOutcome, Operation
<1> HIDE DEF r, o
<1>4. /\ JournalTypeOK' /\ DOMAIN rows' = DOMAIN rows
      /\ \A j \in DOMAIN rows : rows'[j].nonce = rows[j].nonce
      /\ \E b \in Nat : \A e \in ledger' : e.id <= b
    BY <1>1, <1>3, FinishType DEF TypeInv
<1>5. /\ op' \in [Intents -> Operation] /\ call' \in [Calls -> Call]
      /\ fresh' \in [Intents -> Nat] /\ CallsCarryIntents'
      /\ op'[i].pc = "idle" /\ \A j \in Intents : j # i => op'[j] = op[j]
    BY <1>1, <1>3, ResolveTerminalType
<1>6. \E b \in Nat : \A j \in DOMAIN rows' : rows'[j].nonce + 1 <= b
    BY <1>4 DEF TypeInv, Bounded
<1>7. InSection' /\ PastClaimed'
    BY <1>1, <1>4, <1>5 DEF TypeInv, InSection, PastClaimed, Preparing, Claimed
<1> QED
    BY <1>1, <1>4, <1>5, <1>6, <1>7 DEF TypeInv, TypeOK, Bounded

\* Giving up on a wait keeps the process well typed.
LEMMA TypeGiveUp ==
    ASSUME TypeInv, NEW i \in Intents, GiveUp(i)
    PROVE  TypeInv'
<1>1. /\ UNCHANGED journalVars /\ UNCHANGED <<mempool, mined, queue, crashes>>
      /\ Resolve(i, "pending") /\ "pending" \in Answers \cup {"refused"}
    BY DEF GiveUp, chainVars, Answers
<1>2. /\ op' \in [Intents -> Operation] /\ call' \in [Calls -> Call]
      /\ fresh' \in [Intents -> Nat] /\ CallsCarryIntents'
      /\ op'[i].pc = "idle" /\ \A j \in Intents : j # i => op'[j] = op[j]
    BY <1>1, ResolveType
<1>3. InSection' /\ PastClaimed'
    BY <1>1, <1>2, FrameJournal DEF TypeInv, InSection, PastClaimed, Preparing
<1> QED
    BY <1>1, <1>2, <1>3, FrameJournal DEF TypeInv, TypeOK, Bounded

\* A collected answer frees its slot.
LEMMA TypeCollect ==
    ASSUME TypeInv, NEW c \in Calls, Collect(c)
    PROVE  TypeInv'
<1>1. /\ UNCHANGED journalVars /\ UNCHANGED <<mempool, mined, op, queue, fresh, crashes>>
      /\ call' = [call EXCEPT ![c] = IdleCall]
    BY DEF Collect, chainVars
<1>2. call' \in [Calls -> Call] /\ CallsCarryIntents'
    BY <1>1 DEF TypeInv, TypeOK, Call, CallsCarryIntents, IdleCall
<1>3. InSection' /\ PastClaimed'
    BY <1>1, FrameJournal DEF TypeInv, InSection, PastClaimed, Preparing
<1> QED
    BY <1>1, <1>2, <1>3, FrameJournal DEF TypeInv, TypeOK, Bounded

\* A crash leaves a well typed process: nothing is in the section and nothing past it.
LEMMA TypeCrash == ASSUME TypeInv, Crash PROVE TypeInv'
<1> USE RecoveryAssumption
<1>1. /\ UNCHANGED journalVars /\ UNCHANGED <<mempool, mined, fresh>>
      /\ crashes' = crashes + 1 /\ crashes < MaxCrashes
      /\ op' = [i \in Intents |-> IdleOp] /\ queue' = <<>> /\ call' = [c \in Calls |-> IdleCall]
    BY DEF Crash, chainVars
<1>2. op' \in [Intents -> Operation] /\ call' \in [Calls -> Call] /\ queue' \in Seq(Intents)
    BY <1>1 DEF IdleOp, Operation, Stages, IdleCall, Call
<1>3. crashes' \in 0 .. MaxCrashes
    BY <1>1 DEF TypeInv, TypeOK
<1>4. InSection' /\ PastClaimed' /\ CallsCarryIntents'
    BY <1>1 DEF InSection, PastClaimed, CallsCarryIntents, IdleOp, IdleCall
<1> QED
    BY <1>1, <1>2, <1>3, <1>4, FrameJournal DEF TypeInv, TypeOK, Bounded

\* prune() and midnight keep the journal well typed.
LEMMA TypeHousekeeping == ASSUME TypeInv, Housekeeping PROVE TypeInv'
<1>1. UNCHANGED <<op, queue, call, fresh, mempool, mined, crashes>> /\ UNCHANGED rows
    BY DEF Housekeeping, processVars, chainVars, Prune, NextDay
<1>2. ledger' \subseteq ledger /\ UNCHANGED budget
    BY PruneKeeps DEF Housekeeping, NextDay
<1>3. day' \in Days
    BY JournalAssumption DEF Housekeeping, Prune, NextDay, TypeInv, TypeOK, JournalTypeOK, Days
<1>4. InSection' /\ PastClaimed' /\ CallsCarryIntents'
    BY <1>1 DEF TypeInv, InSection, PastClaimed, CallsCarryIntents, Preparing, Claimed
<1> QED
    BY <1>1, <1>2, <1>3, <1>4 DEF TypeInv, TypeOK, JournalTypeOK, Bounded

\* The chain keeps the receipts well typed and finite.
LEMMA TypeChain ==
    ASSUME TypeInv, BroadcastIsJournaled, NEW t \in mempool, Mine(t) \/ Evict(t)
    PROVE  TypeInv'
<1>1. /\ UNCHANGED journalVars /\ UNCHANGED <<op, queue, call, fresh, crashes>>
      /\ mempool' \subseteq mempool
    BY DEF Mine, Evict, processVars
<1>2. mined' \subseteq Receipt /\ IsFiniteSet(mined')
    <2>1. CASE Mine(t)
        <3>1. PICK o \in ReceiptOutcomes, c \in ActualCosts(t.intent) :
                  mined' = mined \cup {[tx |-> t, outcome |-> o, cost |-> c]}
            BY <2>1 DEF Mine
        <3>2. t \in Tx /\ t.intent \in DOMAIN rows
            BY DEF TypeInv, TypeOK, BroadcastIsJournaled, Claimed
        <3>3. ActualCosts(t.intent) \subseteq Nat
            <4>1. rows[t.intent].reserved \in Nat
                BY <3>2 DEF TypeInv, TypeOK, JournalTypeOK, Row
            <4>2. L1Fees \subseteq Nat
                BY JournalAssumption
            <4> QED
                BY <4>1, <4>2 DEF ActualCosts
        <3>4. mined' \subseteq Receipt
            BY <3>1, <3>2, <3>3 DEF TypeInv, TypeOK, Receipt
        <3>5. IsFiniteSet(mined')
            BY <3>1, FS_AddElement DEF TypeInv, Bounded
        <3> QED
            BY <3>4, <3>5
    <2>2. CASE Evict(t)
        BY <2>2 DEF Evict, TypeInv, TypeOK, Bounded
    <2> QED
        BY <2>1, <2>2
<1>3. InSection' /\ PastClaimed' /\ CallsCarryIntents'
    BY <1>1, FrameJournal DEF TypeInv, InSection, PastClaimed, CallsCarryIntents, Preparing
<1> QED
    BY <1>1, <1>2, <1>3, FrameJournal DEF TypeInv, TypeOK, Bounded

-----------------------------------------------------------------------------
(***************************************************************************)
(* Why a payment is charged and accounted for once.  A row names its       *)
(* terminal event and the event names its row back; event ids are unique,  *)
(* although prune() frees some for reuse; and whatever is on the chain is  *)
(* the one transaction its row determines.                                 *)
(***************************************************************************)
IdsUnique == \A e, f \in ledger : e.id = f.id => e = f

EventsNameRows ==
    \A e \in ledger : e.outcome # "rejected" =>
        Claimed(e.intent) /\ rows[e.intent].event = e.id

RowsNameEvents ==
    \A i \in DOMAIN rows : rows[i].event # 0 =>
        \E e \in ledger, r \in mined :
            /\ e.id = rows[i].event
            /\ e.intent = i
            /\ e.outcome = LedgerOutcome(r.outcome)
            /\ r.tx = TxOf(i)

ReceiptsUnique ==
    /\ \A r, s \in mined : r.tx = s.tx => r = s
    /\ \A t \in mempool : ~Mined(t)

DurableInv == IdsUnique /\ EventsNameRows /\ RowsNameEvents
              /\ BroadcastIsJournaled /\ ReceiptsUnique

\* An unmarked answer is given once, with the accounting.
FreshAccounted ==
    \A i \in Intents : fresh[i] = 0 \/ (fresh[i] = 1 /\ Terminal(i))

IInv == TypeInv /\ DurableInv /\ FreshAccounted /\ AnswersTruthful

\* The ledger files a receipt as settled or error.
LEMMA LedgerOutcomeType ==
    \A o \in ReceiptOutcomes : LedgerOutcome(o) \in {"settled", "error"}
BY DEF LedgerOutcome

\* A row is terminal exactly when its event column is set.
LEMMA TerminalIsEvent ==
    ASSUME TypeOK, RowsNameEvents, NEW i \in Intents
    PROVE  Terminal(i) <=> Claimed(i) /\ rows[i].event # 0
<1>1. \A e \in ledger : e.id # 0
    BY DEF TypeOK, JournalTypeOK, Event
<1>2. 0 \notin EventIds
    BY <1>1 DEF EventIds
<1> QED
    BY <1>2 DEF Terminal, EventIds, Claimed, RowsNameEvents

\* The event a terminal row names records what the chain did.
LEMMA TerminalOutcome ==
    ASSUME TypeOK, IdsUnique, RowsNameEvents, NEW i \in Intents, Terminal(i)
    PROVE  /\ TerminalEvent(i) \in ledger /\ TerminalEvent(i).intent = i
           /\ TerminalEvent(i).id = rows[i].event
           /\ TerminalEvent(i).outcome \in {"settled", "error"}
           /\ \E r \in mined : /\ r.tx = TxOf(i)
                               /\ TerminalEvent(i).outcome = LedgerOutcome(r.outcome)
<1>1. Claimed(i) /\ rows[i].event # 0
    BY TerminalIsEvent
<1>2. PICK e \in ledger, r \in mined : /\ e.id = rows[i].event /\ e.intent = i
                                       /\ e.outcome = LedgerOutcome(r.outcome) /\ r.tx = TxOf(i)
    BY <1>1 DEF RowsNameEvents, Claimed
<1>3. TerminalEvent(i) \in ledger /\ TerminalEvent(i).id = rows[i].event
    BY <1>2 DEF TerminalEvent
<1>4. TerminalEvent(i) = e
    BY <1>2, <1>3 DEF IdsUnique
<1>5. r.outcome \in ReceiptOutcomes
    BY DEF TypeOK, Receipt
<1> QED
    BY <1>2, <1>3, <1>4, <1>5, LedgerOutcomeType

\* Nothing is on file and nothing on the chain at first.
LEMMA DurableInit == Init => DurableInv
BY DEF Init, JournalInit, DurableInv, IdsUnique, EventsNameRows, RowsNameEvents,
       BroadcastIsJournaled, ReceiptsUnique

\* Steps of the process alone leave the durable facts alone.
LEMMA DurableFrame ==
    ASSUME DurableInv, UNCHANGED <<rows, ledger, mempool, mined>>
    PROVE  DurableInv'
BY DEF DurableInv, IdsUnique, EventsNameRows, RowsNameEvents, BroadcastIsJournaled,
       ReceiptsUnique, Claimed, TxOf, Mined

\* A new row disturbs nothing: no event and no transaction names its intent yet.
LEMMA DurableClaim ==
    ASSUME TypeInv, DurableInv, NEW i \in Intents, NEW n \in Nat, NEW w \in Reservations,
           Claim(i, n, w), UNCHANGED <<mempool, mined>>
    PROVE  DurableInv'
<1>1. /\ ~Claimed(i) /\ ledger' = ledger /\ DOMAIN rows' = DOMAIN rows \cup {i}
      /\ \A j \in DOMAIN rows : rows'[j] = rows[j]
      /\ rows'[i].event = 0
    BY DEF Claim, Claimed
<1>2. \A j \in DOMAIN rows : j # i /\ TxOf(j)' = TxOf(j)
    BY <1>1 DEF Claimed, TxOf
<1>3. IdsUnique' /\ EventsNameRows'
    BY <1>1, <1>2 DEF DurableInv, IdsUnique, EventsNameRows, Claimed
<1>4. RowsNameEvents'
    BY <1>1, <1>2 DEF DurableInv, RowsNameEvents
<1>5. BroadcastIsJournaled' /\ ReceiptsUnique'
    BY <1>1, <1>2 DEF DurableInv, BroadcastIsJournaled, ReceiptsUnique, Claimed, Mined
<1> QED
    BY <1>3, <1>4, <1>5 DEF DurableInv

\* finish() files an event under an id nobody has and points the row at it.
LEMMA DurableFinish ==
    ASSUME TypeInv, DurableInv, NEW i \in Intents, NEW r \in mined, r.tx = TxOf(i),
           Finish(i, r.cost, LedgerOutcome(r.outcome)), UNCHANGED <<mempool, mined>>
    PROVE  DurableInv'
<1> DEFINE o == LedgerOutcome(r.outcome)
           new == [id |-> NextEventId, at |-> day, outcome |-> o, intent |-> i]
<1>1. o \in {"settled", "error"} /\ r.cost \in Nat
    BY LedgerOutcomeType DEF TypeInv, TypeOK, Receipt
<1>2. /\ Claimed(i) /\ ~Terminal(i) /\ ledger' = ledger \cup {new}
      /\ rows' = [rows EXCEPT ![i].event = NextEventId, ![i].cost = r.cost]
    BY DEF Finish
<1>3. NextEventId \in Nat \ {0} /\ \A e \in ledger : e.id < NextEventId
    BY NextEventIdFresh DEF TypeInv, TypeOK
<1>4. /\ new.id = NextEventId /\ new.intent = i /\ new.outcome = o
      /\ \A e \in ledger : e.id \in Nat /\ e.id # NextEventId
    BY <1>3 DEF TypeInv, TypeOK, JournalTypeOK, Event
<1>5. rows[i].event = 0
    BY <1>2, TerminalIsEvent DEF TypeInv, DurableInv
<1>6. /\ DOMAIN rows' = DOMAIN rows
      /\ rows'[i].event = NextEventId
      /\ \A j \in DOMAIN rows : j # i => rows'[j] = rows[j]
      /\ \A j \in DOMAIN rows : TxOf(j)' = TxOf(j)
    BY <1>2 DEF TypeInv, TypeOK, JournalTypeOK, Row, TxOf, Claimed
<1> HIDE DEF new, o
<1>7. IdsUnique'
    BY <1>2, <1>4 DEF DurableInv, IdsUnique
<1>8. EventsNameRows'
    <2>1. SUFFICES ASSUME NEW e \in ledger', e.outcome # "rejected"
                   PROVE  Claimed(e.intent)' /\ rows'[e.intent].event = e.id
        BY DEF EventsNameRows
    <2>2. CASE e = new
        BY <1>2, <1>4, <1>6, <2>2 DEF Claimed
    <2>3. CASE e \in ledger
        <3>1. Claimed(e.intent) /\ rows[e.intent].event = e.id
            BY <2>1, <2>3 DEF DurableInv, EventsNameRows
        <3>2. e.id # 0
            BY <2>3 DEF TypeInv, TypeOK, JournalTypeOK, Event
        <3>3. e.intent # i
            BY <1>5, <3>1, <3>2
        <3> QED
            BY <1>6, <3>1, <3>3 DEF Claimed
    <2> QED
        BY <1>2, <2>2, <2>3
<1>9. RowsNameEvents'
    <2>1. SUFFICES ASSUME NEW j \in DOMAIN rows, rows'[j].event # 0
                   PROVE  \E e \in ledger', q \in mined' :
                              /\ e.id = rows'[j].event /\ e.intent = j
                              /\ e.outcome = LedgerOutcome(q.outcome) /\ q.tx = TxOf(j)'
        BY <1>6 DEF RowsNameEvents
    <2>2. CASE j = i
        BY <1>2, <1>4, <1>6, <2>1, <2>2 DEF o
    <2>3. CASE j # i
        BY <1>2, <1>6, <2>1, <2>3 DEF DurableInv, RowsNameEvents
    <2> QED
        BY <2>2, <2>3
<1>10. BroadcastIsJournaled' /\ ReceiptsUnique'
    BY <1>6 DEF DurableInv, BroadcastIsJournaled, ReceiptsUnique, Claimed, Mined
<1> QED
    BY <1>7, <1>8, <1>9, <1>10 DEF DurableInv

\* A rejected row takes an id no row names.
LEMMA DurableRejection ==
    ASSUME TypeInv, DurableInv, NEW i \in Intents, RecordRejection(i), UNCHANGED <<mempool, mined>>
    PROVE  DurableInv'
<1> DEFINE new == [id |-> NextEventId, at |-> day, outcome |-> "rejected", intent |-> i]
<1>1. ledger' = ledger \cup {new} /\ UNCHANGED rows
    BY DEF RecordRejection
<1>2. \A e \in ledger : e.id < NextEventId /\ e.id \in Nat
    BY NextEventIdFresh DEF TypeInv, TypeOK, JournalTypeOK, Event
<1>3. new.id = NextEventId /\ new.outcome = "rejected" /\ NextEventId \in Nat
    BY NextEventIdFresh DEF TypeInv, TypeOK
<1> HIDE DEF new
<1>4. IdsUnique'
    BY <1>1, <1>2, <1>3 DEF DurableInv, IdsUnique
<1>5. EventsNameRows' /\ RowsNameEvents'
    BY <1>1, <1>3 DEF DurableInv, EventsNameRows, RowsNameEvents, Claimed, TxOf
<1> QED
    BY <1>1, <1>4, <1>5 DEF DurableInv, BroadcastIsJournaled, ReceiptsUnique, Claimed, TxOf, Mined

\* prune() deletes rejected rows only, so every terminal event stays on file.
LEMMA DurablePrune ==
    ASSUME TypeInv, DurableInv, Prune, UNCHANGED <<mempool, mined>>
    PROVE  DurableInv'
<1>1. /\ ledger' \subseteq ledger /\ UNCHANGED rows
      /\ \A e \in ledger : e.outcome # "rejected" => e \in ledger'
    BY PruneKeeps
<1>2. \A r \in mined : LedgerOutcome(r.outcome) # "rejected"
    BY DEF LedgerOutcome
<1>3. RowsNameEvents'
    BY <1>1, <1>2 DEF DurableInv, RowsNameEvents, TxOf
<1>4. IdsUnique' /\ EventsNameRows'
    BY <1>1 DEF DurableInv, IdsUnique, EventsNameRows, Claimed
<1> QED
    BY <1>1, <1>3, <1>4 DEF DurableInv, BroadcastIsJournaled, ReceiptsUnique, Claimed, TxOf, Mined

\* The chain executes a transaction once and forgets only unmined ones.
LEMMA DurableChain ==
    ASSUME TypeInv, DurableInv, NEW t \in mempool, Mine(t) \/ Evict(t)
    PROVE  DurableInv'
<1>1. UNCHANGED <<rows, ledger>> /\ mempool' = mempool \ {t}
    BY DEF Mine, Evict, journalVars
<1>2. CASE Evict(t)
    BY <1>1, <1>2 DEF Evict, DurableInv, IdsUnique, EventsNameRows, RowsNameEvents,
                      BroadcastIsJournaled, ReceiptsUnique, Claimed, TxOf, Mined
<1>3. CASE Mine(t)
    <2>1. PICK o \in ReceiptOutcomes, c \in ActualCosts(t.intent) :
              mined' = mined \cup {[tx |-> t, outcome |-> o, cost |-> c]}
        BY <1>3 DEF Mine
    <2> DEFINE new == [tx |-> t, outcome |-> o, cost |-> c]
    <2>5. mined' = mined \cup {new} /\ new.tx = t
        BY <2>1
    <2> HIDE DEF new
    <2>2. IdsUnique' /\ EventsNameRows' /\ RowsNameEvents'
        BY <1>1, <2>5 DEF DurableInv, IdsUnique, EventsNameRows, RowsNameEvents, Claimed, TxOf
    <2>3. BroadcastIsJournaled'
        BY <1>1, <2>5 DEF DurableInv, BroadcastIsJournaled, Claimed, TxOf
    <2>4. ReceiptsUnique'
        BY <1>1, <2>5 DEF DurableInv, ReceiptsUnique, Mined
    <2> QED
        BY <2>2, <2>3, <2>4 DEF DurableInv
<1> QED
    BY <1>2, <1>3

\* What send() broadcasts is what the row names, and it was not mined yet.
LEMMA DurableSend ==
    ASSUME TypeInv, DurableInv, NEW i \in Intents, SendTaken(i)
    PROVE  DurableInv'
<1>1. /\ UNCHANGED <<rows, ledger, mined>> /\ mempool' = mempool \cup {TxOf(i)}
      /\ ~Mined(TxOf(i)) /\ Claimed(i) /\ TxOf(i).intent = i
    BY DEF SendTaken, journalVars, TypeInv, PastClaimed, TxOf
<1>2. BroadcastIsJournaled' /\ ReceiptsUnique'
    BY <1>1 DEF DurableInv, BroadcastIsJournaled, ReceiptsUnique, Claimed, TxOf, Mined
<1> QED
    BY <1>1, <1>2 DEF DurableInv, IdsUnique, EventsNameRows, RowsNameEvents, Claimed, TxOf

-----------------------------------------------------------------------------
(* Answers. *)

\* What no step takes back: a claim, a receipt, a terminal row.
Monotone ==
    /\ DOMAIN rows \subseteq DOMAIN rows'
    /\ mined \subseteq mined'
    /\ \A i \in DOMAIN rows : rows[i].event # 0 => rows'[i].event # 0

\* Every step is monotone: rows, receipts and set event columns stay.
LEMMA StepMonotone ==
    ASSUME TypeInv, DurableInv, [Next]_vars PROVE Monotone
<1>1. CASE UNCHANGED <<rows, mined>>
    BY <1>1 DEF Monotone
<1>2. CASE \E i \in Intents : ClaimPrepared(i)
    <2>1. PICK i \in Intents, w \in Reservations : Claim(i, op[i].nonce, w) /\ UNCHANGED mined
        BY <1>2 DEF ClaimPrepared, chainVars
    <2> QED
        BY <2>1 DEF Claim, Claimed, Monotone
<1>3. CASE \E i \in Intents : Conclude(i)
    <2>1. PICK i \in Intents : /\ UNCHANGED mined
                              /\ Finish(i, ReceiptOf(i).cost, LedgerOutcome(ReceiptOf(i).outcome))
        BY <1>3 DEF Conclude, chainVars
    <2>2. NextEventId # 0
        BY NextEventIdFresh DEF TypeInv, TypeOK
    <2> QED
        BY <2>1, <2>2 DEF Finish, Claimed, Monotone, TypeInv, TypeOK, JournalTypeOK, Row
<1>4. CASE \E t \in mempool : Mine(t)
    BY <1>4 DEF Mine, Monotone, journalVars
<1>5. CASE UNCHANGED vars
    BY <1>5, <1>1 DEF vars
<1>6. CASE \E c \in Calls : Refuse(c) \/ Collect(c)
    BY <1>6, <1>1 DEF Refuse, Collect, RecordRejection, journalVars, chainVars
<1>7. CASE Housekeeping \/ Crash
    BY <1>7, <1>1 DEF Housekeeping, Crash, Prune, NextDay, journalVars, chainVars
<1>8. CASE \E c \in Calls, i \in Intents : Arrive(c, i)
    BY <1>8, <1>1 DEF Arrive, journalVars, chainVars
<1>9. CASE \E t \in mempool : Evict(t)
    BY <1>9, <1>1 DEF Evict, journalVars
<1>10. CASE \E i \in Intents : /\ Step(i)
                               /\ ~ClaimPrepared(i) /\ ~Conclude(i)
    <2>1. PICK i \in Intents : Step(i) /\ ~ClaimPrepared(i) /\ ~Conclude(i)
        BY <1>10
    <2>2. UNCHANGED journalVars /\ UNCHANGED mined
        <3>1. LookUp(i) => UNCHANGED journalVars /\ UNCHANGED mined
            BY Zenon DEF LookUp, chainVars
        <3>2. AllocateNonce(i) \/ NotReady(i) \/ RefuseRedemption(i) \/ RefuseBudget(i)
                => UNCHANGED journalVars /\ UNCHANGED mined
            BY DEF AllocateNonce, NotReady, RefuseRedemption, RefuseBudget, chainVars
        <3>3. ReceiptMissing(i) \/ SendTaken(i) \/ SendFailed(i) \/ GiveUp(i)
                => UNCHANGED journalVars /\ UNCHANGED mined
            BY DEF ReceiptMissing, SendTaken, SendFailed, GiveUp, chainVars
        <3> QED
            BY <2>1, <3>1, <3>2, <3>3 DEF Step
    <2> QED
        BY <1>1, <2>2 DEF journalVars
<1> QED
    BY <1>2, <1>3, <1>4, <1>5, <1>6, <1>7, <1>8, <1>9, <1>10 DEF Next

\* An answer that stands keeps its truth.
LEMMA TruthKept ==
    ASSUME NEW c \in Calls, Truthful(c), Monotone, call'[c] = call[c]
    PROVE  Truthful(c)'
BY DEF Truthful, Monotone, ReceiptsOf, Claimed

\* A state that is no verdict is truthful whatever happens.
LEMMA NoVerdict ==
    ASSUME NEW c \in Calls, call'[c].st \notin {"settled", "error", "pending"}
    PROVE  Truthful(c)'
BY DEF Truthful

\* Resolving with a verdict the journal or the chain supports.
LEMMA ResolveTruthful ==
    ASSUME TypeInv, AnswersTruthful, Monotone, NEW i \in Intents,
           NEW st \in Answers \cup {"refused"}, Resolve(i, st),
           st \in {"settled", "error"} => FALSE,
           st = "pending" => Claimed(i)
    PROVE  AnswersTruthful'
<1>1. SUFFICES ASSUME NEW c \in Calls PROVE Truthful(c)'
    BY DEF AnswersTruthful
<1>2. CASE ~Waiting(c, i)
    BY <1>2, TruthKept DEF Resolve, AnswersTruthful
<1>3. CASE Waiting(c, i)
    <2>1. call'[c].st = st /\ call'[c].intent = i
        BY <1>3 DEF Resolve, Waiting, TypeInv, TypeOK, Call
    <2> QED
        BY <2>1 DEF Truthful, Claimed, Monotone
<1> QED
    BY <1>2, <1>3

\* Resolving with the outcome of a receipt answers every coalesced call truthfully.
LEMMA ResolveTerminalTruthful ==
    ASSUME TypeInv, AnswersTruthful, Monotone, NEW i \in Intents, NEW r \in mined,
           NEW rep \in BOOLEAN, r.tx.intent = i,
           ResolveTerminal(i, LedgerOutcome(r.outcome), rep)
    PROVE  AnswersTruthful'
<1>1. SUFFICES ASSUME NEW c \in Calls PROVE Truthful(c)'
    BY DEF AnswersTruthful
<1>2. call' = [d \in Calls |->
                  IF Waiting(d, i)
                  THEN [call[d] EXCEPT !.st = LedgerOutcome(r.outcome),
                                       !.replayed = Marked(d, i, rep)]
                  ELSE call[d]]
    BY Zenon DEF ResolveTerminal
<1>3. CASE ~Waiting(c, i)
    BY <1>2, <1>3, TruthKept DEF AnswersTruthful
<1>4. CASE Waiting(c, i)
    <2>1. call'[c] = [call[c] EXCEPT !.st = LedgerOutcome(r.outcome),
                                     !.replayed = Marked(c, i, rep)]
        BY <1>2, <1>4
    <2>2. call[c] \in Call /\ call[c].intent = i
        BY <1>4 DEF TypeInv, TypeOK, Waiting
    <2>3. call'[c].st = LedgerOutcome(r.outcome) /\ call'[c].intent = i
        BY <2>1, <2>2 DEF Call
    <2>4. r \in ReceiptsOf(i)'
        BY DEF ReceiptsOf, Monotone
    <2> QED
        BY <2>3, <2>4 DEF Truthful, LedgerOutcome
<1> QED
    BY <1>3, <1>4

-----------------------------------------------------------------------------
(* The invariant is inductive. *)

\* The invariant holds initially.
LEMMA InvInit == Init => IInv
<1> SUFFICES ASSUME Init PROVE IInv
    OBVIOUS
<1>1. FreshAccounted /\ AnswersTruthful
    BY DEF Init, FreshAccounted, AnswersTruthful, Truthful, IdleCall
<1> QED
    BY <1>1, TypeInit, DurableInit DEF IInv

\* Every step keeps the type part of the invariant.
LEMMA TypeNext == ASSUME IInv, [Next]_vars PROVE TypeInv'
<1> USE DEF IInv, DurableInv
<1>1. CASE \E c \in Calls, i \in Intents : Arrive(c, i)
    BY <1>1, TypeArrive
<1>2. CASE \E i \in Intents : Step(i)
    <2>1. PICK i \in Intents : Step(i)
        BY <1>2
    <2>2. Terminal(i) => TerminalEvent(i).outcome \in {"settled", "error"}
        BY TerminalOutcome DEF TypeInv
    <2> QED
        BY <2>1, <2>2, TypeLookUp, TypeAllocate, TypeClaim, TypeFailInside, TypeNetwork,
           TypeConclude, TypeGiveUp DEF Step
<1>3. CASE \E c \in Calls : Refuse(c) \/ Collect(c)
    BY <1>3, TypeRefuse, TypeCollect
<1>4. CASE \E t \in mempool : Mine(t) \/ Evict(t)
    BY <1>4, TypeChain
<1>5. CASE Housekeeping \/ Crash
    BY <1>5, TypeHousekeeping, TypeCrash
<1>6. CASE UNCHANGED vars
    BY <1>6 DEF vars, TypeInv, TypeOK, JournalTypeOK, Bounded, InSection, CallsCarryIntents,
                PastClaimed, Preparing, Claimed
<1> QED
    BY <1>1, <1>2, <1>3, <1>4, <1>5, <1>6 DEF Next

\* Every step keeps the durable part of the invariant.
LEMMA DurableNext == ASSUME IInv, [Next]_vars PROVE DurableInv'
<1> USE DEF IInv
<1>1. CASE \E c \in Calls, i \in Intents : Arrive(c, i)
    BY <1>1, DurableFrame DEF Arrive, journalVars, chainVars
<1>2. ASSUME NEW i \in Intents, Step(i) PROVE DurableInv'
    <2>1. CASE LookUp(i)
        <3>1. UNCHANGED journalVars /\ UNCHANGED chainVars
            BY <2>1, Zenon DEF LookUp
        <3> QED
            BY <3>1, DurableFrame DEF journalVars, chainVars
    <2>2. CASE AllocateNonce(i) \/ NotReady(i) \/ RefuseRedemption(i) \/ RefuseBudget(i)
        BY <2>2, DurableFrame
        DEF AllocateNonce, NotReady, RefuseRedemption, RefuseBudget, journalVars, chainVars
    <2>3. CASE ClaimPrepared(i)
        <3>1. PICK w \in Reservations : Claim(i, op[i].nonce, w)
            BY <2>3 DEF ClaimPrepared
        <3>2. op[i].nonce \in Nat /\ UNCHANGED <<mempool, mined>>
            BY <2>3 DEF ClaimPrepared, chainVars, TypeInv, TypeOK, Operation
        <3> QED
            BY <3>1, <3>2, DurableClaim
    <2>4. CASE ReceiptMissing(i) \/ SendFailed(i) \/ GiveUp(i)
        BY <2>4, DurableFrame DEF ReceiptMissing, SendFailed, GiveUp, journalVars, chainVars
    <2>5. CASE SendTaken(i)
        BY <2>5, DurableSend
    <2>6. CASE Conclude(i)
        <3>1. /\ Mined(TxOf(i)) /\ UNCHANGED <<mempool, mined>>
              /\ Finish(i, ReceiptOf(i).cost, LedgerOutcome(ReceiptOf(i).outcome))
            BY <2>6 DEF Conclude, chainVars
        <3>2. ReceiptOf(i) \in mined /\ ReceiptOf(i).tx = TxOf(i)
            BY <3>1 DEF Mined, ReceiptOf
        <3> QED
            BY <3>1, <3>2, DurableFinish
    <2> QED
        BY <1>2, <2>1, <2>2, <2>3, <2>4, <2>5, <2>6 DEF Step
<1>3. ASSUME NEW c \in Calls, Refuse(c) \/ Collect(c) PROVE DurableInv'
    <2>1. CASE Collect(c) \/ (Refuse(c) /\ UNCHANGED journalVars)
        BY <2>1, DurableFrame DEF Collect, Refuse, journalVars, chainVars
    <2>2. CASE Refuse(c) /\ RecordRejection(call[c].intent)
        <3>1. call[c].intent \in Intents /\ UNCHANGED <<mempool, mined>>
            BY <2>2 DEF Refuse, TypeInv, CallsCarryIntents, chainVars
        <3> QED
            BY <2>2, <3>1, DurableRejection
    <2> QED
        BY <1>3, <2>1, <2>2 DEF Refuse
<1>4. CASE \E t \in mempool : Mine(t) \/ Evict(t)
    BY <1>4, DurableChain
<1>5. CASE Housekeeping
    <2>1. CASE Prune
        BY <1>5, <2>1, DurablePrune DEF Housekeeping, chainVars
    <2>2. CASE NextDay
        BY <1>5, <2>2, DurableFrame DEF Housekeeping, NextDay, chainVars
    <2> QED
        BY <1>5, <2>1, <2>2 DEF Housekeeping
<1>6. CASE Crash \/ UNCHANGED vars
    BY <1>6, DurableFrame DEF Crash, journalVars, chainVars, vars
<1> QED
    BY <1>1, <1>2, <1>3, <1>4, <1>5, <1>6 DEF Next

\* A terminal row stays terminal.
LEMMA TerminalStable ==
    ASSUME IInv, [Next]_vars, NEW i \in Intents, Terminal(i)
    PROVE  Terminal(i)'
<1>1. TypeInv' /\ DurableInv' /\ Monotone
    BY TypeNext, DurableNext, StepMonotone DEF IInv
<1>2. Claimed(i) /\ rows[i].event # 0
    BY TerminalIsEvent DEF IInv, TypeInv, DurableInv
<1>3. \A e \in ledger' : e.id # 0
    BY <1>1 DEF TypeInv, TypeOK, JournalTypeOK, Event
<1>4. i \in DOMAIN rows' /\ rows'[i].event # 0
    BY <1>1, <1>2 DEF Monotone, Claimed
<1> QED
    BY <1>1, <1>4 DEF Terminal, Claimed, EventIds, DurableInv, RowsNameEvents

\* Only concluding an operation announces anything, and it accounts for it as it does.
LEMMA FreshNext == ASSUME IInv, [Next]_vars PROVE FreshAccounted'
<1>1. CASE UNCHANGED fresh
    BY <1>1, TerminalStable DEF IInv, FreshAccounted
<1>2. ASSUME NEW i \in Intents, Conclude(i) PROVE FreshAccounted'
    <2>1. /\ Finish(i, ReceiptOf(i).cost, LedgerOutcome(ReceiptOf(i).outcome))
          /\ ResolveTerminal(i, LedgerOutcome(ReceiptOf(i).outcome), op[i].replayed)
        BY <1>2 DEF Conclude
    <2>2. fresh' = [fresh EXCEPT ![i] = @ + Cardinality(Unmarked(i, op[i].replayed))]
        BY <2>1, Zenon DEF ResolveTerminal
    <2>3. ~Terminal(i) /\ Claimed(i)
        BY <2>1 DEF Finish
    <2>4. fresh[i] = 0
        BY <2>3 DEF IInv, FreshAccounted
    <2>5. Terminal(i)'
        <3>1. /\ rows' = [rows EXCEPT ![i].event = NextEventId, ![i].cost = ReceiptOf(i).cost]
              /\ [id |-> NextEventId, at |-> day,
                  outcome |-> LedgerOutcome(ReceiptOf(i).outcome), intent |-> i] \in ledger'
            BY <2>1 DEF Finish
        <3>2. NextEventId \in {e.id : e \in ledger'}
            BY <3>1
        <3>3. rows \in [DOMAIN rows -> Row] /\ i \in DOMAIN rows
            BY <2>3 DEF IInv, TypeInv, TypeOK, JournalTypeOK, Claimed
        <3>4. i \in DOMAIN rows' /\ rows'[i].event = NextEventId
            BY <3>1, <3>3 DEF Row
        <3> QED
            BY <3>2, <3>4 DEF Terminal, Claimed, EventIds
    <2>6. fresh \in [Intents -> Nat]
        BY DEF IInv, TypeInv, TypeOK
    <2>7. Cardinality(Unmarked(i, op[i].replayed)) \in {0, 1}
        <3>1. op[i].replayed \in BOOLEAN
            BY DEF IInv, TypeInv, TypeOK, Operation
        <3> QED
            BY <3>1, UnmarkedCount
    <2>8. (fresh'[i] = 0 \/ fresh'[i] = 1) /\ \A j \in Intents : j # i => fresh'[j] = fresh[j]
        BY <2>2, <2>4, <2>6, <2>7
    <2> QED
        BY <2>5, <2>8, TerminalStable DEF IInv, FreshAccounted
<1>3. ASSUME NEW i \in Intents, LookUp(i) PROVE FreshAccounted'
    <2> DEFINE n == Cardinality(Unmarked(i, TRUE))
    <2>1. fresh' = fresh \/ fresh' = [fresh EXCEPT ![i] = @ + n]
        BY <1>3, Zenon DEF LookUp, ResolveTerminal
    <2>2. n = 0 /\ fresh \in [Intents -> Nat]
        <3>1. TRUE \in BOOLEAN /\ fresh \in [Intents -> Nat]
            BY DEF IInv, TypeInv, TypeOK
        <3> QED
            BY <3>1, UnmarkedCount, Zenon
    <2> HIDE DEF n
    <2>3. fresh' = fresh
        BY <2>1, <2>2
    <2> QED
        BY <1>1, <2>3
<1>4. ASSUME NEW i \in Intents, Step(i), ~Conclude(i), ~LookUp(i) PROVE UNCHANGED fresh
    BY <1>4 DEF Step, AllocateNonce, ClaimPrepared, NotReady, RefuseRedemption, RefuseBudget,
                Resolve, ReceiptMissing, SendTaken, SendFailed, GiveUp
<1>5. CASE \E c \in Calls, i \in Intents : Arrive(c, i)
    BY <1>1, <1>5 DEF Arrive
<1>6. CASE \E c \in Calls : Refuse(c) \/ Collect(c)
    BY <1>1, <1>6 DEF Refuse, Collect
<1>7. CASE (\E t \in mempool : Mine(t) \/ Evict(t)) \/ Housekeeping \/ Crash \/ UNCHANGED vars
    BY <1>1, <1>7 DEF Mine, Evict, Housekeeping, Crash, vars, processVars
<1> QED
    BY <1>1, <1>2, <1>3, <1>4, <1>5, <1>6, <1>7 DEF Next

\* Every step keeps the answers truthful.
LEMMA AnswersNext == ASSUME IInv, [Next]_vars PROVE AnswersTruthful'
<1>1. Monotone
    BY StepMonotone DEF IInv
<1> USE DEF IInv
<1>2. CASE UNCHANGED call
    BY <1>1, <1>2, TruthKept DEF AnswersTruthful
<1>3. ASSUME NEW c \in Calls, call'[c].st \notin {"settled", "error", "pending"},
             \A d \in Calls : d # c => call'[d] = call[d]
      PROVE  AnswersTruthful'
    BY <1>1, <1>3, TruthKept, NoVerdict DEF AnswersTruthful
<1>4. ASSUME NEW i \in Intents, Step(i) PROVE AnswersTruthful'
    <2>1. CASE NotReady(i) \/ RefuseRedemption(i) \/ RefuseBudget(i)
        <3>1. PICK st \in {"not_ready", "refused"} : Resolve(i, st)
            BY <2>1 DEF NotReady, RefuseRedemption, RefuseBudget
        <3> QED
            BY <1>1, <3>1, ResolveTruthful DEF Answers
    <2>2. CASE GiveUp(i)
        <3>1. Resolve(i, "pending") /\ Claimed(i)
            BY <2>2 DEF GiveUp, TypeInv, PastClaimed
        <3> QED
            BY <1>1, <3>1, ResolveTruthful DEF Answers
    <2>3. CASE Conclude(i)
        <3>1. /\ Mined(TxOf(i))
              /\ ResolveTerminal(i, LedgerOutcome(ReceiptOf(i).outcome), op[i].replayed)
            BY <2>3 DEF Conclude
        <3>2. ReceiptOf(i) \in mined /\ ReceiptOf(i).tx.intent = i
            BY <3>1 DEF Mined, ReceiptOf, TxOf
        <3>3. op[i].replayed \in BOOLEAN
            BY DEF TypeInv, TypeOK, Operation
        <3> QED
            BY <1>1, <3>1, <3>2, <3>3, ResolveTerminalTruthful
    <2>4. CASE LookUp(i)
        <3>1. \/ Terminal(i) /\ ResolveTerminal(i, TerminalEvent(i).outcome, TRUE)
              \/ UNCHANGED call
            BY <2>4, Zenon DEF LookUp
        <3>2. CASE Terminal(i) /\ ResolveTerminal(i, TerminalEvent(i).outcome, TRUE)
            <4>1. PICK r \in mined : r.tx = TxOf(i) /\ TerminalEvent(i).outcome = LedgerOutcome(r.outcome)
                BY <3>2, TerminalOutcome DEF TypeInv, DurableInv
            <4>2. r.tx.intent = i /\ TRUE \in BOOLEAN
                BY <4>1 DEF TxOf
            <4>3. ResolveTerminal(i, LedgerOutcome(r.outcome), TRUE)
                BY <3>2, <4>1, Zenon
            <4> QED
                BY <1>1, <4>2, <4>3, ResolveTerminalTruthful
        <3> QED
            BY <1>2, <3>1, <3>2
    <2>5. CASE AllocateNonce(i) \/ ClaimPrepared(i) \/ ReceiptMissing(i) \/ SendTaken(i) \/ SendFailed(i)
        BY <1>2, <2>5 DEF AllocateNonce, ClaimPrepared, ReceiptMissing, SendTaken, SendFailed
    <2> QED
        BY <1>4, <2>1, <2>2, <2>3, <2>4, <2>5 DEF Step
<1>5. ASSUME NEW c \in Calls, Refuse(c) \/ Collect(c) \/ \E i \in Intents : Arrive(c, i)
      PROVE  AnswersTruthful'
    <2>1. call \in [Calls -> Call]
        BY DEF TypeInv, TypeOK
    <2>2. CASE Refuse(c)
        <3>1. call' = [call EXCEPT ![c].st = "rejected"]
            BY <2>2 DEF Refuse
        <3>2. call'[c].st = "rejected" /\ \A d \in Calls : d # c => call'[d] = call[d]
            BY <2>1, <3>1 DEF Call
        <3> QED
            BY <1>3, <3>2
    <2>3. CASE Collect(c)
        <3>1. call' = [call EXCEPT ![c] = IdleCall]
            BY <2>3 DEF Collect
        <3>2. call'[c] = IdleCall /\ \A d \in Calls : d # c => call'[d] = call[d]
            BY <2>1, <3>1
        <3>3. IdleCall.st = "idle"
            BY DEF IdleCall
        <3> QED
            BY <1>3, <3>2, <3>3
    <2>4. ASSUME NEW i \in Intents, Arrive(c, i) PROVE AnswersTruthful'
        <3> DEFINE k == [st |-> "waiting", intent |-> i, replayed |-> FALSE]
        <3>1. call' = [call EXCEPT ![c] = k] /\ k.st = "waiting"
            BY <2>4 DEF Arrive
        <3> HIDE DEF k
        <3>2. call'[c] = k /\ \A d \in Calls : d # c => call'[d] = call[d]
            BY <2>1, <3>1
        <3> QED
            BY <1>3, <3>1, <3>2
    <2> QED
        BY <1>5, <2>2, <2>3, <2>4
<1>6. CASE (\E t \in mempool : Mine(t) \/ Evict(t)) \/ Housekeeping \/ UNCHANGED vars
    BY <1>2, <1>6 DEF Mine, Evict, Housekeeping, vars, processVars
<1>7. CASE Crash
    BY <1>7, NoVerdict DEF Crash, IdleCall, AnswersTruthful
<1> QED
    BY <1>4, <1>5, <1>6, <1>7 DEF Next

\* The inductive invariant of the /settle path.
THEOREM InductiveInvariant == Spec => []IInv
<1>1. IInv /\ [Next]_vars => IInv'
    BY TypeNext, DurableNext, FreshNext, AnswersNext DEF IInv
<1> QED
    BY <1>1, InvInit, PTL DEF Spec

-----------------------------------------------------------------------------
(* What the invariant gives. *)

\* Type correctness of the whole /settle path.
THEOREM TypeCorrect == Spec => []TypeOK
BY InductiveInvariant, PTL DEF IInv, TypeInv

\* However a payment is retried, coalesced or resumed after a crash, the chain executes
\* at most one transaction for it: every broadcast is the one its row determines.
THEOREM PaymentsChargedOnce == Spec => []ChargedAtMostOnce
<1>1. IInv => ChargedAtMostOnce
    <2> SUFFICES ASSUME IInv, NEW i \in Intents, NEW r \in ReceiptsOf(i), NEW s \in ReceiptsOf(i)
                 PROVE  r = s
        BY DEF ChargedAtMostOnce
    <2>1. r \in mined /\ s \in mined /\ r.tx.intent = i /\ s.tx.intent = i
        BY DEF ReceiptsOf
    <2>2. r.tx = TxOf(i) /\ s.tx = TxOf(i)
        BY <2>1 DEF IInv, DurableInv, BroadcastIsJournaled
    <2> QED
        BY <2>1, <2>2 DEF IInv, DurableInv, ReceiptsUnique
<1> QED
    BY <1>1, InductiveInvariant, PTL

\* Whatever the node held or mined is the transaction a durable row names: the claim is
\* on disk before the broadcast, in every interleaving and across crashes.
THEOREM HashBeforeBroadcast == Spec => []BroadcastIsJournaled
BY InductiveInvariant, PTL DEF IInv, DurableInv

\* At most one answer per intent is ever unmarked (recovery.ts, SettlementResult).
THEOREM OneSettlingAnswer == Spec => []AtMostOneUnmarked
<1>1. IInv => AtMostOneUnmarked
    BY DEF IInv, FreshAccounted, AtMostOneUnmarked
<1> QED
    BY <1>1, InductiveInvariant, PTL

\* settled and error are the chain's own outcome, pending has a durable claim behind it.
THEOREM Truthfulness == Spec => []AnswersTruthful
BY InductiveInvariant, PTL DEF IInv

\* An intent has at most one settled or error event, exactly when its row is terminal.
THEOREM AccountsOnce == Spec => []AccountedOnce
<1>1. IInv => AccountedOnce
    <2> SUFFICES ASSUME IInv, NEW i \in Intents
                 PROVE  /\ Cardinality(TerminalEvents(i)) <= 1
                        /\ TerminalEvents(i) # {} <=> Terminal(i)
                        /\ Terminal(i) => TerminalEvents(i) = {TerminalEvent(i)}
        BY DEF AccountedOnce
    <2>1. CASE Terminal(i)
        <3>1. /\ TerminalEvent(i) \in ledger /\ TerminalEvent(i).intent = i
              /\ TerminalEvent(i).id = rows[i].event
              /\ TerminalEvent(i).outcome \in {"settled", "error"}
            BY <2>1, TerminalOutcome DEF IInv, TypeInv, DurableInv
        <3>2. \A e \in TerminalEvents(i) : e \in ledger /\ e.id = rows[i].event
            BY DEF TerminalEvents, IInv, DurableInv, EventsNameRows
        <3>3. \A e \in TerminalEvents(i) : e = TerminalEvent(i)
            BY <3>1, <3>2 DEF IInv, DurableInv, IdsUnique
        <3>4. TerminalEvent(i) \in TerminalEvents(i)
            BY <3>1 DEF TerminalEvents
        <3>5. TerminalEvents(i) = {TerminalEvent(i)}
            BY <3>3, <3>4
        <3>6. Cardinality(TerminalEvents(i)) = 1
            BY <3>5, FS_Singleton, Zenon
        <3> QED
            BY <2>1, <3>5, <3>6
    <2>2. CASE ~Terminal(i)
        <3>1. TerminalEvents(i) = {}
            <4> SUFFICES ASSUME NEW e \in TerminalEvents(i) PROVE FALSE
                OBVIOUS
            <4>1. e \in ledger /\ Claimed(i) /\ rows[i].event = e.id
                BY DEF TerminalEvents, IInv, DurableInv, EventsNameRows
            <4> QED
                BY <2>2, <4>1 DEF Terminal, EventIds
        <3>2. Cardinality(TerminalEvents(i)) = 0
            BY <3>1, FS_EmptySet, Zenon
        <3> QED
            BY <2>2, <3>1, <3>2
    <2> QED
        BY <2>1, <2>2
<1> QED
    BY <1>1, InductiveInvariant, PTL

\* A step that refuses a waiting call refuses a payment that is not claimed.
LEMMA OnlyUnclaimedRefused ==
    ASSUME IInv, [Next]_vars, NEW c \in Calls, call[c].st = "waiting", call'[c].st = "refused"
    PROVE  /\ call[c].intent \in Intents /\ ~Claimed(call[c].intent)
           /\ UNCHANGED <<rows, mempool, mined>>
<1> USE DEF IInv
<1>1. call \in [Calls -> Call]
    BY DEF TypeInv, TypeOK
<1>2. ASSUME NEW i \in Intents, NEW st \in {"refused", "pending", "not_ready"}, Resolve(i, st)
      PROVE  st = "refused" /\ call[c].intent = i
    <2>1. Waiting(c, i)
        BY <1>2 DEF Resolve
    <2>2. call'[c].st = st
        BY <1>1, <1>2, <2>1 DEF Resolve, Call
    <2> QED
        BY <2>1, <2>2 DEF Waiting
<1>3. ASSUME NEW i \in Intents, NEW o \in {"settled", "error"}, NEW rep \in BOOLEAN,
             ResolveTerminal(i, o, rep)
      PROVE  FALSE
    <2>1. call'[c] = IF Waiting(c, i)
                     THEN [call[c] EXCEPT !.st = o, !.replayed = Marked(c, i, rep)] ELSE call[c]
        BY <1>3, Zenon DEF ResolveTerminal
    <2> QED
        BY <1>1, <2>1 DEF Call
<1>4. ASSUME NEW i \in Intents, Step(i)
      PROVE  /\ call[c].intent = i /\ ~Claimed(i)
             /\ UNCHANGED <<rows, mempool, mined>>
    <2>1. CASE RefuseRedemption(i) \/ RefuseBudget(i)
        <3>1. Resolve(i, "refused") /\ op[i].pc \in {"nonce", "prepare"} /\ UNCHANGED <<rows, mempool, mined>>
            BY <2>1 DEF RefuseRedemption, RefuseBudget, journalVars, chainVars
        <3>2. ~Claimed(i)
            BY <3>1 DEF TypeInv, InSection
        <3> QED
            BY <1>2, <3>1, <3>2
    <2>2. CASE NotReady(i)
        BY <1>2, <2>2 DEF NotReady
    <2>3. CASE GiveUp(i)
        BY <1>2, <2>3 DEF GiveUp
    <2>4. CASE Conclude(i)
        <3>1. /\ Mined(TxOf(i))
              /\ ResolveTerminal(i, LedgerOutcome(ReceiptOf(i).outcome), op[i].replayed)
            BY <2>4 DEF Conclude
        <3>2. LedgerOutcome(ReceiptOf(i).outcome) \in {"settled", "error"}
            BY DEF LedgerOutcome
        <3>3. op[i].replayed \in BOOLEAN
            BY DEF TypeInv, TypeOK, Operation
        <3> QED
            BY <1>3, <3>1, <3>2, <3>3
    <2>5. CASE LookUp(i)
        <3>1. \/ Terminal(i) /\ ResolveTerminal(i, TerminalEvent(i).outcome, TRUE)
              \/ UNCHANGED call
            BY <2>5, Zenon DEF LookUp
        <3>2. Terminal(i) => TerminalEvent(i).outcome \in {"settled", "error"}
            BY TerminalOutcome DEF TypeInv, DurableInv
        <3>3. TRUE \in BOOLEAN
            OBVIOUS
        <3>4. UNCHANGED call
            BY <1>3, <3>1, <3>2, <3>3
        <3> QED
            BY <3>4
    <2>6. CASE AllocateNonce(i) \/ ClaimPrepared(i) \/ ReceiptMissing(i) \/ SendTaken(i) \/ SendFailed(i)
        BY <2>6 DEF AllocateNonce, ClaimPrepared, ReceiptMissing, SendTaken, SendFailed
    <2> QED
        BY <1>4, <2>1, <2>2, <2>3, <2>4, <2>5, <2>6 DEF Step
<1>5. CASE \E i \in Intents : Step(i)
    BY <1>4, <1>5
<1>6. CASE \E d \in Calls : Refuse(d) \/ Collect(d) \/ \E i \in Intents : Arrive(d, i)
    <2>1. PICK d \in Calls : Refuse(d) \/ Collect(d) \/ \E i \in Intents : Arrive(d, i)
        BY <1>6
    <2>2. call[d].st # "waiting" /\ \E k : call' = [call EXCEPT ![d] = k]
        BY <2>1 DEF Refuse, Collect, Arrive, Answers
    <2>3. d # c
        BY <2>2
    <2> QED
        BY <1>1, <2>2, <2>3
<1>7. CASE (\E t \in mempool : Mine(t) \/ Evict(t)) \/ Housekeeping \/ UNCHANGED vars
    BY <1>7 DEF Mine, Evict, Housekeeping, vars, processVars
<1>8. CASE Crash
    BY <1>8 DEF Crash, IdleCall
<1> QED
    BY <1>5, <1>6, <1>7, <1>8 DEF Next

\* "rejected: nobody was charged": a refusal is never given for a payment that was
\* claimed, broadcast or mined, whatever other operations do meanwhile.
THEOREM RefusalsUncharged == Spec => RefusedUncharged
<1>1. ASSUME IInv, [Next]_vars, NEW c \in Calls, call[c].st = "waiting", call'[c].st = "refused"
      PROVE  /\ call[c].intent \notin DOMAIN rows'
             /\ \A t \in mempool' \cup {r.tx : r \in mined'} : t.intent # call[c].intent
    <2>1. /\ call[c].intent \in Intents /\ ~Claimed(call[c].intent)
          /\ UNCHANGED <<rows, mempool, mined>>
        BY <1>1, OnlyUnclaimedRefused
    <2>2. \A t \in mempool \cup {r.tx : r \in mined} : Claimed(t.intent)
        BY <1>1 DEF IInv, DurableInv, BroadcastIsJournaled
    <2> QED
        BY <2>1, <2>2 DEF Claimed
<1>2. IInv /\ [Next]_vars =>
        [\A c \in Calls :
            call[c].st = "waiting" /\ call'[c].st = "refused" =>
                /\ call[c].intent \notin DOMAIN rows'
                /\ \A t \in mempool' \cup {r.tx : r \in mined'} : t.intent # call[c].intent]_vars
    BY <1>1
<1> QED
    BY <1>2, InductiveInvariant, PTL DEF RefusedUncharged, Spec

-----------------------------------------------------------------------------
(***************************************************************************)
(* Refinement.  On the invariant a payment's abstract stage is read off    *)
(* its row and its receipts alone, so a step that touches neither is a     *)
(* stutter, and three kinds of step remain: the durable claim (Commit),    *)
(* the chain executing the transaction (Execute) and the terminal event    *)
(* (Account).                                                              *)
(***************************************************************************)

\* A payment whose row and receipts a step leaves alone keeps its stage and its result.
LEMMA PointStutter ==
    ASSUME IInv, IInv', NEW j \in Intents,
           j \in DOMAIN rows' <=> j \in DOMAIN rows,
           j \in DOMAIN rows => rows'[j] = rows[j],
           ReceiptsOf(j)' = ReceiptsOf(j)
    PROVE  StageOf(j)' = StageOf(j) /\ ResultOf(j)' = ResultOf(j)
<1>1. Claimed(j)' <=> Claimed(j)
    BY DEF Claimed
<1>2. /\ Terminal(j) <=> Claimed(j) /\ rows[j].event # 0
      /\ Terminal(j)' <=> Claimed(j)' /\ rows'[j].event # 0
    <2>1. Terminal(j) <=> Claimed(j) /\ rows[j].event # 0
        BY TerminalIsEvent DEF IInv, TypeInv, DurableInv
    <2>2. \A e \in ledger' : e.id # 0
        BY DEF IInv, TypeInv, TypeOK, JournalTypeOK, Event
    <2>3. RowsNameEvents'
        BY DEF IInv, DurableInv
    <2> QED
        BY <2>1, <2>2, <2>3 DEF Terminal, EventIds, Claimed, RowsNameEvents
<1>3. CASE ~Claimed(j)
    BY <1>1, <1>3 DEF StageOf, ResultOf, Executed
<1>4. CASE Claimed(j)
    <2>1. TxOf(j)' = TxOf(j) /\ TxOf(j).intent = j
        BY <1>4 DEF TxOf, Claimed
    <2>2. Mined(TxOf(j))' <=> Mined(TxOf(j))
        BY <2>1 DEF Mined, ReceiptsOf
    <2>3. ASSUME Mined(TxOf(j)) PROVE ReceiptOf(j)' = ReceiptOf(j)
        <3>1. ReceiptOf(j) \in mined /\ ReceiptOf(j).tx = TxOf(j)
            BY <2>3 DEF Mined, ReceiptOf
        <3>2. ReceiptOf(j)' \in mined' /\ (ReceiptOf(j)').tx = TxOf(j)'
            BY <2>2, <2>3 DEF Mined, ReceiptOf
        <3>3. ReceiptOf(j) \in mined'
            BY <2>1, <3>1 DEF ReceiptsOf
        <3> QED
            BY <2>1, <3>1, <3>2, <3>3 DEF IInv, DurableInv, ReceiptsUnique
    <2>4. Terminal(j)' <=> Terminal(j)
        BY <1>1, <1>2, <1>4 DEF Claimed
    <2>5. Executed(j)' <=> Executed(j)
        BY <1>1, <2>2 DEF Executed
    <2> QED
        BY <1>1, <2>3, <2>4, <2>5 DEF StageOf, ResultOf, Executed
<1> QED
    BY <1>3, <1>4

\* Every payment but i keeps its abstract state.
Others(i) ==
    \A j \in Intents : j # i =>
        StageOf(j)' = StageOf(j) /\ ResultOf(j)' = ResultOf(j) /\ fresh'[j] = fresh[j]

\* A step that moves no payment is a stutter of the abstract specification.
LEMMA OnceStutter ==
    ASSUME IInv, IInv', UNCHANGED <<rows, mined, fresh>>
    PROVE  UNCHANGED Once!vars
<1>1. \A j \in Intents : StageOf(j)' = StageOf(j) /\ ResultOf(j)' = ResultOf(j)
    <2> TAKE j \in Intents
    <2>1. ReceiptsOf(j)' = ReceiptsOf(j)
        BY DEF ReceiptsOf
    <2> QED
        BY <2>1, PointStutter
<1>2. /\ [j \in Intents |-> StageOf(j)]' = [j \in Intents |-> StageOf(j)]
      /\ [j \in Intents |-> ResultOf(j)]' = [j \in Intents |-> ResultOf(j)]
    BY <1>1
<1>3. [j \in Intents |-> fresh[j] > 0]' = [j \in Intents |-> fresh[j] > 0]
    OBVIOUS
<1> QED
    BY <1>2, <1>3 DEF Once!vars

\* A durable claim commits its payment: nothing of it was on the chain before.
LEMMA OnceCommit ==
    ASSUME IInv, IInv', NEW i \in Intents, ClaimPrepared(i)
    PROVE  Once!Commit(i)
<1>1. PICK w \in Reservations : Claim(i, op[i].nonce, w) /\ UNCHANGED <<mempool, mined, fresh>>
    BY DEF ClaimPrepared, chainVars
<1>2. /\ i \notin DOMAIN rows /\ DOMAIN rows' = DOMAIN rows \cup {i}
      /\ rows'[i].event = 0 /\ \A j \in DOMAIN rows : rows'[j] = rows[j]
    BY <1>1 DEF Claim, Claimed
<1>3. \A r \in mined : r.tx.intent # i
    BY <1>2 DEF IInv, DurableInv, BroadcastIsJournaled, Claimed
<1>4. StageOf(i) = "unseen" /\ ResultOf(i) = "open"
    BY <1>2 DEF StageOf, ResultOf, Executed, Claimed
<1>5. ~Mined(TxOf(i))'
    BY <1>1, <1>3 DEF Mined, TxOf
<1>6. ~Terminal(i)'
    <2>1. \A e \in ledger' : e.id # 0
        BY DEF IInv, TypeInv, TypeOK, JournalTypeOK, Event
    <2> QED
        BY <1>2, <2>1 DEF Terminal, EventIds
<1>7. StageOf(i)' = "committed" /\ ResultOf(i)' = "open"
    BY <1>2, <1>5, <1>6 DEF StageOf, ResultOf, Executed, Claimed
<1>8. Others(i)
    <2> SUFFICES ASSUME NEW j \in Intents, j # i
                 PROVE  StageOf(j)' = StageOf(j) /\ ResultOf(j)' = ResultOf(j)
        BY <1>1 DEF Others
    <2>1. ReceiptsOf(j)' = ReceiptsOf(j)
        BY <1>1 DEF ReceiptsOf
    <2> QED
        BY <1>2, <2>1, PointStutter
<1>9. [j \in Intents |-> StageOf(j)]' = [[j \in Intents |-> StageOf(j)] EXCEPT ![i] = "committed"]
    BY <1>7, <1>8 DEF Others
<1>10. [j \in Intents |-> ResultOf(j)]' = [j \in Intents |-> ResultOf(j)]
    BY <1>4, <1>7, <1>8 DEF Others
<1>11. [j \in Intents |-> fresh[j] > 0]' = [j \in Intents |-> fresh[j] > 0]
    BY <1>1
<1> QED
    BY <1>4, <1>9, <1>10, <1>11 DEF Once!Commit

\* The chain executing a transaction executes its payment: it was claimed, and it had no
\* receipt and no terminal event yet.
LEMMA OnceExecute ==
    ASSUME IInv, IInv', NEW t \in mempool, Mine(t)
    PROVE  t.intent \in Intents /\ Once!Execute(t.intent)
<1> DEFINE i == t.intent
<1>1. PICK o \in ReceiptOutcomes, c \in ActualCosts(i) :
          mined' = mined \cup {[tx |-> t, outcome |-> o, cost |-> c]}
    BY DEF Mine
<1>2. UNCHANGED <<rows, ledger, fresh>>
    BY DEF Mine, journalVars, processVars
<1>3. t \in Tx /\ i \in Intents /\ Claimed(i) /\ t = TxOf(i)
    BY DEF IInv, TypeInv, TypeOK, DurableInv, BroadcastIsJournaled, Tx
<1>4. ~Mined(t)
    BY DEF IInv, DurableInv, ReceiptsUnique
<1>5. ~Terminal(i)
    <2>1. Terminal(i) => \E r \in mined : r.tx = TxOf(i)
        BY <1>3, TerminalOutcome DEF IInv, TypeInv, DurableInv
    <2> QED
        BY <1>3, <1>4, <2>1 DEF Mined
<1>6. StageOf(i) = "committed"
    BY <1>3, <1>4, <1>5 DEF StageOf, Executed
<1>7. TxOf(i)' = TxOf(i) /\ Claimed(i)' /\ ~Terminal(i)'
    BY <1>2, <1>3, <1>5 DEF TxOf, Claimed, Terminal, EventIds
<1>8. ReceiptOf(i)' = [tx |-> t, outcome |-> o, cost |-> c] /\ Mined(TxOf(i))'
    <2> DEFINE r == [tx |-> t, outcome |-> o, cost |-> c]
    <2>1. r \in mined' /\ r.tx = t
        BY <1>1
    <2>2. \A s \in mined' : s.tx = t => s = r
        BY <1>1, <1>4 DEF Mined
    <2> HIDE DEF r
    <2> QED
        BY <1>3, <1>7, <2>1, <2>2 DEF ReceiptOf, Mined, r
<1>9. StageOf(i)' = "executed" /\ ResultOf(i)' = o
    BY <1>7, <1>8 DEF StageOf, ResultOf, Executed
<1>10. Others(i)
    <2> SUFFICES ASSUME NEW j \in Intents, j # i
                 PROVE  StageOf(j)' = StageOf(j) /\ ResultOf(j)' = ResultOf(j)
        BY <1>2 DEF Others
    <2>1. ReceiptsOf(j)' = ReceiptsOf(j)
        BY <1>1 DEF ReceiptsOf
    <2> QED
        BY <1>2, <2>1, PointStutter
<1> HIDE DEF i
<1>11. [j \in Intents |-> StageOf(j)]' = [[j \in Intents |-> StageOf(j)] EXCEPT ![i] = "executed"]
    BY <1>3, <1>9, <1>10 DEF Others
<1>12. \E x \in Once!Outcome :
          [j \in Intents |-> ResultOf(j)]' = [[j \in Intents |-> ResultOf(j)] EXCEPT ![i] = x]
    <2>1. o \in Once!Outcome
        BY DEF ReceiptOutcomes, Once!Outcome
    <2>2. [j \in Intents |-> ResultOf(j)]' = [[j \in Intents |-> ResultOf(j)] EXCEPT ![i] = o]
        BY <1>3, <1>9, <1>10 DEF Others
    <2> QED
        BY <2>1, <2>2
<1>13. [j \in Intents |-> fresh[j] > 0]' = [j \in Intents |-> fresh[j] > 0]
    BY <1>2
<1>14. Once!Execute(i)
    BY <1>3, <1>6, <1>11, <1>12, <1>13 DEF Once!Execute
<1> QED
    BY <1>3, <1>14 DEF i

\* Journalling a receipt accounts for its payment, and the one unmarked answer is given
\* in that very step or never.
LEMMA OnceAccount ==
    ASSUME IInv, IInv', NEW i \in Intents, Conclude(i),
           \A j \in Intents : j # i => fresh'[j] = fresh[j]
    PROVE  Once!Account(i)
<1>1. /\ Finish(i, ReceiptOf(i).cost, LedgerOutcome(ReceiptOf(i).outcome))
      /\ Mined(TxOf(i)) /\ UNCHANGED mined
    BY DEF Conclude, chainVars
<1>2. i \in DOMAIN rows /\ ~Terminal(i) /\ rows \in [DOMAIN rows -> Row]
    BY <1>1 DEF Finish, Claimed, IInv, TypeInv, TypeOK, JournalTypeOK
<1>3. /\ rows' = [rows EXCEPT ![i].event = NextEventId, ![i].cost = ReceiptOf(i).cost]
      /\ [id |-> NextEventId, at |-> day,
          outcome |-> LedgerOutcome(ReceiptOf(i).outcome), intent |-> i] \in ledger'
    BY <1>1 DEF Finish
<1>4. /\ DOMAIN rows' = DOMAIN rows /\ rows'[i].event = NextEventId
      /\ rows'[i].nonce = rows[i].nonce /\ rows'[i].reserved = rows[i].reserved
      /\ \A j \in DOMAIN rows : j # i => rows'[j] = rows[j]
    BY <1>2, <1>3 DEF Row
<1>5. Terminal(i)' /\ Claimed(i)'
    <2>1. NextEventId \in {e.id : e \in ledger'}
        BY <1>3
    <2> QED
        BY <1>2, <1>4, <2>1 DEF Terminal, Claimed, EventIds
<1>6. TxOf(i)' = TxOf(i)
    BY <1>4 DEF TxOf
<1>7. ReceiptOf(i)' = ReceiptOf(i) /\ Mined(TxOf(i))'
    BY <1>1, <1>6 DEF ReceiptOf, Mined
<1>8. /\ StageOf(i) = "executed" /\ StageOf(i)' = "accounted"
      /\ ResultOf(i)' = ResultOf(i)
    BY <1>1, <1>2, <1>5, <1>7 DEF StageOf, ResultOf, Executed, Claimed
<1>9. Others(i)
    <2> SUFFICES ASSUME NEW j \in Intents, j # i
                 PROVE  StageOf(j)' = StageOf(j) /\ ResultOf(j)' = ResultOf(j)
        BY DEF Others
    <2>1. ReceiptsOf(j)' = ReceiptsOf(j)
        BY <1>1 DEF ReceiptsOf
    <2> QED
        BY <1>4, <2>1, PointStutter
<1>10. [j \in Intents |-> StageOf(j)]' = [[j \in Intents |-> StageOf(j)] EXCEPT ![i] = "accounted"]
    BY <1>8, <1>9 DEF Others
<1>11. [j \in Intents |-> ResultOf(j)]' = [j \in Intents |-> ResultOf(j)]
    BY <1>8, <1>9 DEF Others
<1>12. \E a \in BOOLEAN :
          [j \in Intents |-> fresh[j] > 0]' = [[j \in Intents |-> fresh[j] > 0] EXCEPT ![i] = a]
    <2> DEFINE a == fresh'[i] > 0
    <2>1. a \in BOOLEAN
        BY DEF IInv, TypeInv, TypeOK
    <2>2. \A j \in Intents : j # i => (fresh'[j] > 0) = (fresh[j] > 0)
        OBVIOUS
    <2>3. [j \in Intents |-> fresh[j] > 0]' = [[j \in Intents |-> fresh[j] > 0] EXCEPT ![i] = a]
        BY <2>2
    <2> QED
        BY <2>1, <2>3
<1> QED
    BY <1>8, <1>10, <1>11, <1>12 DEF Once!Account

\* A step other than a claim, a receipt journalled or a transaction executed leaves the
\* rows, the receipts and the history of unmarked answers alone.
LEMMA QuietSteps ==
    ASSUME IInv, [Next]_vars,
           \A i \in Intents : ~ClaimPrepared(i) /\ ~Conclude(i),
           \A t \in mempool : ~Mine(t)
    PROVE  UNCHANGED <<rows, mined, fresh>>
<1>1. ASSUME NEW i \in Intents, LookUp(i) PROVE UNCHANGED <<rows, mined, fresh>>
    <2> DEFINE n == Cardinality(Unmarked(i, TRUE))
    <2>1. /\ fresh' = fresh \/ fresh' = [fresh EXCEPT ![i] = @ + n]
          /\ UNCHANGED rows /\ UNCHANGED mined
        BY <1>1, Zenon DEF LookUp, ResolveTerminal, journalVars, chainVars
    <2>2. TRUE \in BOOLEAN /\ fresh \in [Intents -> Nat]
        BY DEF IInv, TypeInv, TypeOK
    <2>3. n = 0
        BY <2>2, UnmarkedCount, Zenon
    <2> HIDE DEF n
    <2> QED
        BY <2>1, <2>2, <2>3
<1>2. ASSUME NEW i \in Intents, Step(i), ~LookUp(i) PROVE UNCHANGED <<rows, mined, fresh>>
    BY <1>2 DEF Step, AllocateNonce, NotReady, RefuseRedemption, RefuseBudget, Resolve,
                ReceiptMissing, SendTaken, SendFailed, GiveUp, journalVars, chainVars
<1>3. CASE \E c \in Calls : Refuse(c) \/ Collect(c) \/ \E i \in Intents : Arrive(c, i)
    BY <1>3 DEF Refuse, RecordRejection, Collect, Arrive, journalVars, chainVars
<1>4. CASE (\E t \in mempool : Evict(t)) \/ Housekeeping \/ Crash \/ UNCHANGED vars
    BY <1>4 DEF Evict, Housekeeping, Prune, NextDay, Crash, journalVars, processVars, chainVars, vars
<1> QED
    BY <1>1, <1>2, <1>3, <1>4 DEF Next

\* The recovery engine, with its crashes, retries, prunes and lost answers, implements a
\* payment that is committed, executed and accounted for once (PaymentOnce).
THEOREM Refinement == Spec => ImplementsPaymentOnce
<1>1. Init => Once!Init
    <2> SUFFICES ASSUME Init PROVE Once!Init
        OBVIOUS
    <2>1. /\ DOMAIN rows = {}
          /\ \A i \in Intents : fresh[i] = 0
        BY DEF Init, JournalInit
    <2>2. \A i \in Intents : StageOf(i) = "unseen" /\ ResultOf(i) = "open"
        BY <2>1 DEF StageOf, ResultOf, Executed, Claimed
    <2>3. \A i \in Intents : (fresh[i] > 0) = FALSE
        BY <2>1
    <2> QED
        BY <2>2, <2>3 DEF Once!Init
<1>2. ASSUME IInv, IInv', [Next]_vars PROVE [Once!Next]_(Once!vars)
    <2>1. ASSUME NEW i \in Intents, ClaimPrepared(i) PROVE Once!Next
        BY <1>2, <2>1, OnceCommit DEF Once!Next
    <2>2. ASSUME NEW t \in mempool, Mine(t) PROVE Once!Next
        BY <1>2, <2>2, OnceExecute DEF Once!Next
    <2>3. ASSUME NEW i \in Intents, Conclude(i) PROVE Once!Next
        <3>1. fresh' = [fresh EXCEPT ![i] = @ + Cardinality(Unmarked(i, op[i].replayed))]
            BY <2>3, Zenon DEF Conclude, ResolveTerminal
        <3>2. \A j \in Intents : j # i => fresh'[j] = fresh[j]
            BY <1>2, <3>1 DEF IInv, TypeInv, TypeOK
        <3> QED
            BY <1>2, <2>3, <3>2, OnceAccount DEF Once!Next
    <2>4. ASSUME UNCHANGED <<rows, mined, fresh>> PROVE UNCHANGED Once!vars
        BY <1>2, <2>4, OnceStutter
    <2> QED
        BY <1>2, <2>1, <2>2, <2>3, <2>4, QuietSteps
<1> QED
    BY <1>1, <1>2, InductiveInvariant, PTL DEF Spec, ImplementsPaymentOnce, Once!Spec

-----------------------------------------------------------------------------
(***************************************************************************)
(* The daily budgets.  The two counters of a day are the sums of what the  *)
(* rows of that day reserve or spent; a receipt that costs no more than    *)
(* the reservation keeps them under the limits.                            *)
(***************************************************************************)

\* What a step does to the rows and budgets: one claim, one finish, or nothing.
LEMMA JournalSteps ==
    ASSUME IInv, [Next]_vars
    PROVE  \/ \E i \in Intents, n \in Nat, w \in Reservations : Claim(i, n, w) /\ UNCHANGED mined
           \/ \E i \in Intents, r \in mined : /\ r.tx = TxOf(i)
                                              /\ Finish(i, r.cost, LedgerOutcome(r.outcome))
                                              /\ UNCHANGED mined
           \/ UNCHANGED <<rows, budget>>
<1>1. ASSUME NEW i \in Intents, Step(i) PROVE
           \/ \E n \in Nat, w \in Reservations : Claim(i, n, w) /\ UNCHANGED mined
           \/ \E r \in mined : /\ r.tx = TxOf(i) /\ Finish(i, r.cost, LedgerOutcome(r.outcome)) /\ UNCHANGED mined
           \/ UNCHANGED <<rows, budget>>
    <2>1. CASE LookUp(i)
        <3>1. UNCHANGED journalVars
            BY <2>1, Zenon DEF LookUp
        <3> QED
            BY <3>1 DEF journalVars
    <2>2. CASE AllocateNonce(i) \/ NotReady(i) \/ RefuseRedemption(i) \/ RefuseBudget(i)
        BY <2>2 DEF AllocateNonce, NotReady, RefuseRedemption, RefuseBudget, journalVars
    <2>3. CASE ClaimPrepared(i)
        <3>1. op[i].nonce \in Nat
            BY DEF IInv, TypeInv, TypeOK, Operation
        <3>2. PICK w \in Reservations : Claim(i, op[i].nonce, w)
            BY <2>3 DEF ClaimPrepared
        <3>3. UNCHANGED mined
            BY <2>3 DEF ClaimPrepared, chainVars
        <3> QED
            BY <3>1, <3>2, <3>3
    <2>4. CASE ReceiptMissing(i) \/ SendTaken(i) \/ SendFailed(i) \/ GiveUp(i)
        BY <2>4 DEF ReceiptMissing, SendTaken, SendFailed, GiveUp, journalVars
    <2>5. CASE Conclude(i)
        <3>1. /\ Mined(TxOf(i)) /\ UNCHANGED mined
              /\ Finish(i, ReceiptOf(i).cost, LedgerOutcome(ReceiptOf(i).outcome))
            BY <2>5 DEF Conclude, chainVars
        <3>2. ReceiptOf(i) \in mined /\ ReceiptOf(i).tx = TxOf(i)
            BY <3>1 DEF Mined, ReceiptOf
        <3> QED
            BY <3>1, <3>2
    <2> QED
        BY <1>1, <2>1, <2>2, <2>3, <2>4, <2>5 DEF Step
<1>2. CASE \E c \in Calls, i \in Intents : Arrive(c, i)
    BY <1>2 DEF Arrive, journalVars
<1>3. CASE \E c \in Calls : Refuse(c) \/ Collect(c)
    BY <1>3 DEF Refuse, Collect, RecordRejection, journalVars
<1>4. CASE (\E t \in mempool : Mine(t) \/ Evict(t)) \/ Housekeeping \/ Crash \/ UNCHANGED vars
    BY <1>4 DEF Mine, Evict, Housekeeping, Prune, NextDay, Crash, vars, journalVars
<1> QED
    BY <1>1, <1>2, <1>3, <1>4 DEF Next

\* What each row contributes, as a function to sum.
Contribution == [i \in DOMAIN rows |-> Spent(i)]

BudgetInv == IsFiniteSet(DOMAIN rows) /\ BudgetExact

\* A contribution is the reservation of an open row and the cost of a finished one.
ContributionOK ==
    \A i \in DOMAIN rows : /\ Contribution[i] = IF rows[i].event # 0 THEN rows[i].cost ELSE rows[i].reserved
                           /\ Contribution[i] \in Nat

LEMMA ContributionType == IInv => ContributionOK
<1> SUFFICES ASSUME IInv, NEW i \in DOMAIN rows
             PROVE  /\ Contribution[i] = IF rows[i].event # 0 THEN rows[i].cost ELSE rows[i].reserved
                    /\ Contribution[i] \in Nat
    BY DEF ContributionOK
<1>1. i \in Intents /\ rows[i] \in Row
    BY DEF IInv, TypeInv, TypeOK, JournalTypeOK
<1>2. Terminal(i) <=> rows[i].event # 0
    BY <1>1, TerminalIsEvent DEF IInv, TypeInv, DurableInv, Claimed
<1> QED
    BY <1>1, <1>2 DEF Contribution, Spent, Row

\* claim() adds its reservation to the two scopes it charges, on its day.
LEMMA BudgetClaim ==
    ASSUME IInv, IInv', BudgetInv, NEW i \in Intents, NEW n \in Nat, NEW w \in Reservations, Claim(i, n, w)
    PROVE  BudgetInv'
<1>1. /\ i \notin DOMAIN rows /\ DOMAIN rows' = DOMAIN rows \cup {i}
      /\ \A j \in DOMAIN rows : rows'[j] = rows[j]
      /\ rows'[i].event = 0 /\ rows'[i].reserved = w /\ rows'[i].day = day
      /\ w \in Nat /\ day \in Days
    BY JournalAssumption DEF Claim, Claimed, IInv, TypeInv, TypeOK, JournalTypeOK
<1>2. IsFiniteSet(DOMAIN rows')
    BY <1>1, FS_AddElement DEF BudgetInv
<1>3. /\ \A j \in DOMAIN rows : Contribution'[j] = Contribution[j] /\ Contribution[j] \in Nat
      /\ Contribution'[i] = w
    <2>1. \A j \in DOMAIN rows' : Contribution'[j] = IF rows'[j].event # 0 THEN rows'[j].cost ELSE rows'[j].reserved
        <3>1. ContributionOK'
            BY ContributionType, PTL
        <3> QED
            BY <3>1 DEF ContributionOK
    <2> QED
        BY <1>1, <2>1, ContributionType DEF ContributionOK
<1>4. ASSUME NEW s \in Scopes, NEW d \in Days
      PROVE  budget'[s][d] = SumFunctionOnSet(Contribution', ChargedTo(s, d)')
    <2> DEFINE old == ChargedTo(s, d)
    <2>1. budget[s][d] = SumFunctionOnSet(Contribution, old) /\ budget[s] \in [Days -> Nat]
        BY DEF BudgetInv, BudgetExact, Contribution, IInv, TypeInv, TypeOK, JournalTypeOK
    <2>2. old \subseteq DOMAIN rows /\ i \notin old /\ IsFiniteSet(old)
        BY <1>1, FS_Subset DEF ChargedTo, BudgetInv
    <2>3. ChargedTo(s, d)' = IF s \in Charge(i) /\ d = day THEN old \cup {i} ELSE old
        BY <1>1 DEF ChargedTo, Charge
    <2>4. budget'[s][d] = IF s \in Charge(i) /\ d = day THEN budget[s][d] + w ELSE budget[s][d]
        BY <2>1 DEF Claim
    <2> HIDE DEF old
    <2>5. SumFunctionOnSet(Contribution', old) = SumFunctionOnSet(Contribution, old)
        <3>1. \A x \in old : Contribution[x] \in Nat /\ Contribution'[x] = Contribution[x]
            BY <1>3, <2>2
        <3> QED
            BY <2>2, <3>1, SumAgree
    <2>6. SumFunctionOnSet(Contribution', old \cup {i}) = SumFunctionOnSet(Contribution', old) + w
        <3>1. \A x \in old \cup {i} : Contribution'[x] \in Nat
            BY <1>1, <1>3, <2>2
        <3>2. SumFunctionOnSet(Contribution', old \cup {i}) = SumFunctionOnSet(Contribution', old) + Contribution'[i]
            BY <2>2, <3>1, SumAdd
        <3> QED
            BY <1>3, <3>2
    <2> QED
        BY <2>1, <2>3, <2>4, <2>5, <2>6
<1> QED
    BY <1>2, <1>4 DEF BudgetInv, BudgetExact, Contribution

\* finish() replaces the reservation by the cost in the same two scopes, on the day of the
\* reservation.
LEMMA BudgetFinish ==
    ASSUME IInv, IInv', BudgetInv, NEW i \in Intents, NEW r \in mined,
           Finish(i, r.cost, LedgerOutcome(r.outcome))
    PROVE  BudgetInv'
<1>1. /\ i \in DOMAIN rows /\ DOMAIN rows' = DOMAIN rows
      /\ \A j \in DOMAIN rows \ {i} : rows'[j] = rows[j]
      /\ rows'[i].day = rows[i].day /\ rows'[i].event # 0 /\ rows'[i].cost = r.cost
      /\ rows[i].event = 0 /\ r.cost \in Nat /\ rows[i].reserved \in Nat /\ rows[i].day \in Days
    <2>1. Claimed(i) /\ ~Terminal(i) /\ rows' = [rows EXCEPT ![i].event = NextEventId, ![i].cost = r.cost]
        BY DEF Finish
    <2>2. rows \in [DOMAIN rows -> Row] /\ r \in Receipt
        BY DEF IInv, TypeInv, TypeOK, JournalTypeOK
    <2>3. rows[i].event = 0
        BY <2>1, TerminalIsEvent DEF IInv, TypeInv, DurableInv
    <2>4. NextEventId # 0
        BY NextEventIdFresh DEF IInv, TypeInv, TypeOK
    <2>5. i \in DOMAIN rows /\ rows[i] \in Row
        BY <2>1, <2>2 DEF Claimed
    <2>6. rows'[i] = [[rows[i] EXCEPT !.event = NextEventId] EXCEPT !.cost = r.cost]
        BY <2>1, <2>2, <2>5 DEF Row
    <2>7. DOMAIN rows' = DOMAIN rows /\ \A j \in DOMAIN rows \ {i} : rows'[j] = rows[j]
        BY <2>1, <2>2
    <2>8. rows'[i].day = rows[i].day /\ rows'[i].event = NextEventId /\ rows'[i].cost = r.cost
        BY <2>5, <2>6 DEF Row
    <2> QED
        BY <2>2, <2>3, <2>4, <2>5, <2>7, <2>8 DEF Row, Receipt
<1>2. /\ \A j \in DOMAIN rows \ {i} : Contribution'[j] = Contribution[j]
      /\ \A j \in DOMAIN rows : Contribution[j] \in Nat /\ Contribution'[j] \in Nat
      /\ Contribution[i] = rows[i].reserved /\ Contribution'[i] = r.cost
    <2>1. \A j \in DOMAIN rows' : /\ Contribution'[j] = IF rows'[j].event # 0 THEN rows'[j].cost ELSE rows'[j].reserved
                                  /\ Contribution'[j] \in Nat
        <3>1. ContributionOK'
            BY ContributionType, PTL
        <3> QED
            BY <3>1 DEF ContributionOK
    <2> QED
        BY <1>1, <2>1, ContributionType DEF ContributionOK
<1>3. ASSUME NEW s \in Scopes, NEW d \in Days
      PROVE  budget'[s][d] = SumFunctionOnSet(Contribution', ChargedTo(s, d)')
    <2> DEFINE S == ChargedTo(s, d)
    <2>1. budget[s][d] = SumFunctionOnSet(Contribution, S) /\ budget[s] \in [Days -> Nat]
        BY DEF BudgetInv, BudgetExact, Contribution, IInv, TypeInv, TypeOK, JournalTypeOK
    <2>2. S \subseteq DOMAIN rows /\ IsFiniteSet(S) /\ (i \in S <=> s \in Charge(i) /\ d = rows[i].day)
        BY <1>1, FS_Subset DEF ChargedTo, BudgetInv
    <2>3. ChargedTo(s, d)' = S
        BY <1>1 DEF ChargedTo, Charge
    <2>4. budget'[s][d] = IF s \in Charge(i) /\ d = rows[i].day THEN budget[s][d] - rows[i].reserved + r.cost ELSE budget[s][d]
        BY <2>1 DEF Finish
    <2> HIDE DEF S
    <2>5. \A x \in S : Contribution[x] \in Nat /\ Contribution'[x] \in Nat /\ (x # i => Contribution'[x] = Contribution[x])
        BY <1>2, <2>2
    <2>6. CASE i \in S
        <3>1. \A y \in S \ {i} : Contribution'[y] = Contribution[y]
            BY <2>5
        <3>2. SumFunctionOnSet(Contribution', S) = SumFunctionOnSet(Contribution, S) - Contribution[i] + Contribution'[i]
            BY <2>2, <2>5, <2>6, <3>1, SumUpdate
        <3> QED
            BY <1>2, <2>1, <2>2, <2>3, <2>4, <2>6, <3>2
    <2>7. CASE i \notin S
        <3>1. \A x \in S : Contribution[x] \in Nat /\ Contribution'[x] = Contribution[x]
            BY <2>5, <2>7
        <3>2. SumFunctionOnSet(Contribution', S) = SumFunctionOnSet(Contribution, S)
            BY <2>2, <3>1, SumAgree
        <3> QED
            BY <2>1, <2>2, <2>3, <2>4, <2>7, <3>2
    <2> QED
        BY <2>6, <2>7
<1> QED
    BY <1>1, <1>3 DEF BudgetInv, BudgetExact, Contribution

LEMMA BudgetNext == ASSUME IInv, IInv', BudgetInv, [Next]_vars PROVE BudgetInv'
<1>1. CASE UNCHANGED <<rows, budget>>
    <2>1. DOMAIN Contribution = DOMAIN rows /\ DOMAIN Contribution' = DOMAIN rows
        BY <1>1 DEF Contribution
    <2>2. \A j \in DOMAIN rows : Contribution'[j] = Contribution[j]
        <3>1. \A j \in DOMAIN rows' : Contribution'[j] = IF rows'[j].event # 0 THEN rows'[j].cost ELSE rows'[j].reserved
            <4>1. ContributionOK'
                BY ContributionType, PTL
            <4> QED
                BY <4>1 DEF ContributionOK
        <3> QED
            BY <1>1, <3>1, ContributionType DEF ContributionOK
    <2>3. Contribution' = Contribution
        BY <1>1, <2>1, <2>2 DEF Contribution
    <2>4. \A s, d : ChargedTo(s, d)' = ChargedTo(s, d)
        BY <1>1 DEF ChargedTo, Charge
    <2> QED
        BY <1>1, <2>3, <2>4 DEF BudgetInv, BudgetExact, Contribution
<1> QED
    BY <1>1, JournalSteps, BudgetClaim, BudgetFinish

\* The counters of every scope and day are the sums of what the rows of that day reserve or
\* spent, whatever happened in between (claim and finish of settlement.ts).
THEOREM BudgetsExact == Spec => []BudgetExact
<1>1. Init => BudgetInv
    <2> SUFFICES ASSUME Init PROVE BudgetInv
        OBVIOUS
    <2>1. DOMAIN rows = {} /\ \A s, d : ChargedTo(s, d) = {}
        BY DEF Init, JournalInit, ChargedTo
    <2>2. \A s \in Scopes, d \in Days : budget[s][d] = 0
        BY DEF Init, JournalInit
    <2>3. \A s \in Scopes, d \in Days : SumFunctionOnSet(Contribution, ChargedTo(s, d)) = 0
        BY <2>1, SumEmpty
    <2> QED
        BY <2>1, <2>2, <2>3, FS_EmptySet DEF BudgetInv, BudgetExact, Contribution
<1>2. IInv /\ IInv' /\ BudgetInv /\ [Next]_vars => BudgetInv'
    BY BudgetNext
<1>3. BudgetInv => BudgetExact
    BY DEF BudgetInv
<1> QED
    BY <1>1, <1>2, <1>3, InductiveInvariant, PTL DEF Spec

\* Without an L1 fee a receipt costs at most what its row reserved.
CostInv == \A r \in mined : r.cost <= r.tx.reserved
CapsInv == CostInv /\ SpentWithinCaps

LEMMA CapsNext == ASSUME L1Fees = {0}, IInv, CapsInv, [Next]_vars PROVE CapsInv'
<1> USE JournalAssumption
<1>0. /\ budget \in [Scopes -> [Days -> Nat]] /\ day \in Days
      /\ "total" \in Scopes /\ \A p \in Payers : p \in Scopes /\ p # "total"
      /\ \A d \in Days : budget["total"][d] \in Nat /\ \A p \in Payers : budget[p][d] \in Nat
    BY DEF IInv, TypeInv, TypeOK, JournalTypeOK, Scopes
<1>1. CostInv'
    <2>1. CASE UNCHANGED mined
        BY <2>1 DEF CapsInv, CostInv
    <2>2. ASSUME NEW t \in mempool, Mine(t) PROVE CostInv'
        <3>1. PICK o \in ReceiptOutcomes, c \in ActualCosts(t.intent) :
                mined' = mined \cup {[tx |-> t, outcome |-> o, cost |-> c]}
            BY <2>2 DEF Mine
        <3>2. t = TxOf(t.intent)
            BY DEF IInv, DurableInv, BroadcastIsJournaled
        <3>3. t.reserved = rows[t.intent].reserved /\ t \in Tx
            BY <3>2 DEF TxOf, IInv, TypeInv, TypeOK
        <3>4. c <= t.reserved
            BY <3>3 DEF ActualCosts, Tx
        <3> QED
            BY <3>1, <3>4 DEF CapsInv, CostInv
    <2>3. mined' = mined \/ \E t \in mempool : Mine(t)
        <3>1. ASSUME NEW i \in Intents, Step(i) PROVE UNCHANGED mined
            <4>1. LookUp(i) => UNCHANGED mined
                BY Zenon DEF LookUp, chainVars
            <4> QED
                BY <3>1, <4>1 DEF Step, AllocateNonce, ClaimPrepared, NotReady, RefuseRedemption, RefuseBudget, ReceiptMissing,
                       SendTaken, SendFailed, Conclude, GiveUp, chainVars
        <3> QED
            BY <3>1 DEF Next, Arrive, Refuse, Collect, Evict, Housekeeping, Crash, vars, chainVars
    <2> QED
        BY <2>1, <2>2, <2>3
<1>2. SpentWithinCaps'
    <2>1. CASE UNCHANGED <<rows, budget>>
        BY <2>1 DEF CapsInv, SpentWithinCaps
    <2>2. ASSUME NEW i \in Intents, NEW n \in Nat, NEW w \in Reservations, Claim(i, n, w) PROVE SpentWithinCaps'
        <3>1. /\ budget[PayerOf[i]][day] + w <= PayerLimit /\ budget["total"][day] + w <= TotalLimit
              /\ PayerOf[i] \in Payers /\ w \in Nat
            <4>1. ~PayerExhausted(i, w) /\ ~TotalExhausted(i, w)
                BY <2>2 DEF Claim
            <4>2. PayerOf[i] \in Payers /\ w \in Nat /\ PayerLimit \in Nat /\ TotalLimit \in Nat
                OBVIOUS
            <4>3. budget[PayerOf[i]][day] \in Nat /\ budget["total"][day] \in Nat
                BY <1>0, <4>2
            <4> QED
                BY <4>1, <4>2, <4>3 DEF PayerExhausted, TotalExhausted
        <3>2. \A s \in Scopes, d \in Days : budget'[s][d] = IF s \in Charge(i) /\ d = day THEN budget[s][d] + w ELSE budget[s][d]
            BY <1>0, <2>2 DEF Claim
        <3>3. \A d \in Days : budget'["total"][d] <= TotalLimit
            BY <1>0, <3>1, <3>2 DEF CapsInv, SpentWithinCaps, Charge
        <3>4. \A d \in Days, p \in Payers : budget'[p][d] <= PayerLimit
            BY <1>0, <3>1, <3>2 DEF CapsInv, SpentWithinCaps, Charge
        <3> QED
            BY <3>3, <3>4 DEF SpentWithinCaps
    <2>3. ASSUME NEW i \in Intents, NEW r \in mined, r.tx = TxOf(i), Finish(i, r.cost, LedgerOutcome(r.outcome))
          PROVE  SpentWithinCaps'
        <3>1. r.cost <= rows[i].reserved /\ r.cost \in Nat /\ rows[i].reserved \in Nat
            BY <2>3 DEF CapsInv, CostInv, TxOf, IInv, TypeInv, TypeOK, Receipt, Tx
        <3>2. \A s \in Scopes, d \in Days :
                budget'[s][d] = IF s \in Charge(i) /\ d = rows[i].day THEN budget[s][d] - rows[i].reserved + r.cost ELSE budget[s][d]
            BY <1>0, <2>3 DEF Finish
        <3>3. \A d \in Days : budget'["total"][d] <= budget["total"][d] /\ \A p \in Payers : budget'[p][d] <= budget[p][d]
            <4>1. \A s \in Scopes, d \in Days : budget[s][d] \in Nat /\ budget'[s][d] <= budget[s][d]
                BY <1>0, <3>1, <3>2
            <4> QED
                BY <1>0, <4>1
        <3>4. \A d \in Days : /\ budget'["total"][d] \in Int /\ budget["total"][d] <= TotalLimit
                              /\ \A p \in Payers : budget'[p][d] \in Int /\ budget[p][d] <= PayerLimit
            BY <1>0, <3>1, <3>2 DEF CapsInv, SpentWithinCaps
        <3> QED
            BY <1>0, <3>3, <3>4 DEF SpentWithinCaps
    <2> QED
        BY <2>1, <2>2, <2>3, JournalSteps
<1> QED
    BY <1>1, <1>2 DEF CapsInv

\* On a chain without an L1 fee the relayer's daily budgets are exact and are never passed,
\* in total and for each payer (claim and finish of settlement.ts).
THEOREM BudgetsAlwaysHold ==
    ASSUME L1Fees = {0} PROVE Spec => []BudgetsHold
<1>1. Init => CapsInv
    BY JournalAssumption DEF Init, JournalInit, CapsInv, CostInv, SpentWithinCaps, Scopes
<1>2. IInv /\ CapsInv /\ [Next]_vars => CapsInv'
    BY CapsNext
<1>3. CapsInv /\ BudgetExact => BudgetsHold
    BY DEF CapsInv, BudgetsHold
<1> QED
    BY <1>1, <1>2, <1>3, InductiveInvariant, BudgetsExact, PTL DEF Spec

-----------------------------------------------------------------------------
(***************************************************************************)
(* Nothing is stranded.  NonceInv adds to NoNonceGap that the nonce an     *)
(* operation carries into its claim is the next one; OwnerInv and LineInv  *)
(* are QueueExact with the owner's type.                                   *)
(***************************************************************************)
Size == Cardinality(DOMAIN rows)

NonceInv ==
    /\ IsFiniteSet(DOMAIN rows)
    /\ \A i \in DOMAIN rows : rows[i].nonce < Size
    /\ \A n \in 0 .. Size - 1 : \E i \in DOMAIN rows : rows[i].nonce = n
    /\ \A i \in Intents : op[i].pc = "prepare" => op[i].nonce = Size

\* The chain never executed more transactions than there are rows.
LEMMA MinedBounded ==
    ASSUME IInv, IsFiniteSet(DOMAIN rows)
    PROVE  AccountNonce \in Nat /\ AccountNonce <= Size
<1> DEFINE f == [r \in mined |-> r.tx.intent]
<1>1. IsFiniteSet(mined)
    BY DEF IInv, TypeInv, Bounded
<1>2. f \in [mined -> DOMAIN rows]
    BY DEF IInv, DurableInv, BroadcastIsJournaled, Claimed
<1>3. \A r, q \in mined : f[r] = f[q] => r = q
    BY DEF IInv, DurableInv, BroadcastIsJournaled, ReceiptsUnique
<1>4. f \in Injection(mined, DOMAIN rows)
    BY <1>2, <1>3 DEF Injection, IsInjective
<1> HIDE DEF f
<1> QED
    BY <1>1, <1>4, FS_Injection, FS_CardinalityType DEF AccountNonce, Size

\* Whatever a node answers, the next nonce is the number of rows.
LEMMA NextNonceExact ==
    ASSUME IInv, NonceInv, NEW p \in PendingNonces
    PROVE  NextNonce(p) = Size
<1>0. Size \in Nat /\ \A i \in DOMAIN rows : rows[i].nonce \in Nat /\ i \in Intents
    BY FS_CardinalityType DEF NonceInv, Size, IInv, TypeInv, TypeOK, JournalTypeOK, Row
<1>1. AccountNonce \in Nat /\ AccountNonce <= Size
    BY MinedBounded DEF NonceInv
<1>2. p \in Nat /\ p <= Size
    <2>1. p \in Nat /\ p >= AccountNonce
        BY <1>1 DEF PendingNonces
    <2>2. CASE p = AccountNonce
        BY <1>1, <2>2
    <2>3. CASE p # AccountNonce
        <3>1. p - 1 \in AccountNonce .. p - 1
            BY <1>1, <2>1, <2>3
        <3>2. PICK t \in mempool : t.nonce = p - 1
            BY <3>1 DEF PendingNonces
        <3>3. Claimed(t.intent) /\ t = TxOf(t.intent)
            BY DEF IInv, DurableInv, BroadcastIsJournaled
        <3>4. t.nonce = rows[t.intent].nonce /\ t.intent \in DOMAIN rows
            BY <3>3 DEF TxOf, Claimed
        <3>5. p - 1 < Size
            BY <3>2, <3>4 DEF NonceInv
        <3> QED
            BY <1>0, <2>1, <3>5
    <2> QED
        BY <2>2, <2>3
<1> DEFINE S == {p} \cup {rows[j].nonce + 1 : j \in DOMAIN rows}
<1>3. S \in SUBSET Nat /\ S # {} /\ \A x \in S : x <= Size
    BY <1>0, <1>2 DEF NonceInv
<1>4. Size \in S
    <2>1. CASE Size = 0
        BY <1>2, <2>1
    <2>2. CASE Size # 0
        <3>1. Size - 1 \in 0 .. Size - 1
            BY <1>0, <2>2
        <3>2. PICK j \in DOMAIN rows : rows[j].nonce = Size - 1
            BY <3>1 DEF NonceInv
        <3>3. rows[j].nonce + 1 = Size
            BY <1>0, <3>2
        <3> QED
            BY <3>3
    <2> QED
        BY <2>1, <2>2
<1> HIDE DEF S
<1>5. Max(S) \in S /\ \A x \in S : x <= Max(S)
    BY <1>0, <1>3, MaxOfBounded
<1>6. Max(S) = Size
    <2>1. Max(S) \in Nat /\ Max(S) <= Size /\ Size <= Max(S)
        BY <1>3, <1>4, <1>5
    <2> QED
        BY <1>0, <2>1
<1> QED
    BY <1>6 DEF NextNonce, S

LEMMA NonceNext == ASSUME IInv, IInv', NonceInv, [Next]_vars PROVE NonceInv'
<1>0. op \in [Intents -> Operation]
    BY DEF IInv, TypeInv, TypeOK
<1>1. CASE /\ DOMAIN rows' = DOMAIN rows
           /\ \A i \in DOMAIN rows : rows'[i].nonce = rows[i].nonce
           /\ \A i \in Intents : op'[i].pc = "prepare" => op'[i].nonce = op[i].nonce /\ op[i].pc = "prepare"
    <2>1. Size' = Size
        BY <1>1 DEF Size
    <2> QED
        BY <1>1, <2>1 DEF NonceInv
<1>2. ASSUME NEW i \in Intents, AllocateNonce(i) PROVE NonceInv'
    <2>1. PICK p \in PendingNonces : op' = [op EXCEPT ![i].pc = "prepare", ![i].nonce = NextNonce(p)]
        BY <1>2 DEF AllocateNonce
    <2>2. NextNonce(p) = Size
        BY NextNonceExact
    <2>3. rows' = rows
        BY <1>2 DEF AllocateNonce, journalVars
    <2>4. \A j \in Intents : j # i => op'[j] = op[j]
        BY <1>0, <2>1
    <2>5. op'[i].nonce = Size
        BY <1>0, <2>1, <2>2 DEF Operation
    <2>6. Size' = Size
        BY <2>3 DEF Size
    <2> QED
        BY <2>3, <2>4, <2>5, <2>6 DEF NonceInv
<1>3. ASSUME NEW i \in Intents, ClaimPrepared(i) PROVE NonceInv'
    <2>1. PICK w \in Reservations : Claim(i, op[i].nonce, w)
        BY <1>3 DEF ClaimPrepared
    <2>2. /\ op[i].pc = "prepare" /\ op[i].nonce = Size
          /\ op' = [op EXCEPT ![i].pc = "receipt"] /\ Preparing(i)
        BY <1>3 DEF ClaimPrepared, NonceInv, IInv, TypeInv, InSection
    <2>3. /\ i \notin DOMAIN rows /\ DOMAIN rows' = DOMAIN rows \cup {i}
          /\ \A j \in DOMAIN rows : rows'[j] = rows[j]
          /\ rows'[i].nonce = Size
        BY <2>1, <2>2 DEF Claim, Claimed
    <2>4. Size \in Nat /\ IsFiniteSet(DOMAIN rows') /\ Size' = Size + 1
        BY <2>3, FS_AddElement, FS_CardinalityType DEF NonceInv, Size
    <2>5. \A j \in DOMAIN rows : rows[j].nonce < Size /\ rows[j].nonce \in Nat
        BY DEF NonceInv, IInv, TypeInv, TypeOK, JournalTypeOK, Row
    <2>6. \A j \in DOMAIN rows' : rows'[j].nonce < Size + 1
        BY <2>3, <2>4, <2>5
    <2>7. \A n \in 0 .. Size + 1 - 1 : \E j \in DOMAIN rows' : rows'[j].nonce = n
        <3> SUFFICES ASSUME NEW n \in 0 .. Size PROVE \E j \in DOMAIN rows' : rows'[j].nonce = n
            BY <2>4
        <3>1. CASE n = Size
            BY <2>3, <3>1
        <3>2. CASE n # Size
            <4>1. n \in 0 .. Size - 1
                BY <2>4, <3>2
            <4> QED
                BY <2>3, <4>1 DEF NonceInv
        <3> QED
            BY <3>1, <3>2
    <2>8. \A j \in Intents : op'[j].pc # "prepare"
        <3>1. op'[i].pc = "receipt"
            BY <1>0, <2>2 DEF Operation
        <3>2. \A j \in Intents : j # i => op'[j] = op[j]
            BY <1>0, <2>2
        <3>3. \A j \in Intents : j # i => op[j].pc # "prepare"
            BY <2>2, SectionExclusive DEF IInv
        <3> QED
            BY <3>1, <3>2, <3>3
    <2> QED
        BY <2>4, <2>6, <2>7, <2>8 DEF NonceInv
<1>4. ASSUME NEW i \in Intents, Step(i), ~AllocateNonce(i), ~ClaimPrepared(i) PROVE NonceInv'
    <2>1. /\ DOMAIN rows' = DOMAIN rows
          /\ \A j \in DOMAIN rows : rows'[j].nonce = rows[j].nonce
        <3>1. CASE Conclude(i)
            <4>1. /\ Claimed(i)
                  /\ rows' = [rows EXCEPT ![i].event = NextEventId, ![i].cost = ReceiptOf(i).cost]
                BY <3>1 DEF Conclude, Finish
            <4>2. rows \in [DOMAIN rows -> Row]
                BY DEF IInv, TypeInv, TypeOK, JournalTypeOK
            <4>3. DOMAIN rows' = DOMAIN rows /\ \A j \in DOMAIN rows \ {i} : rows'[j] = rows[j]
                BY <4>1, <4>2
            <4>4. rows'[i].nonce = rows[i].nonce
                BY <4>1, <4>2 DEF Row, Claimed
            <4> QED
                BY <4>3, <4>4
        <3>2. CASE ~Conclude(i)
            <4>1. LookUp(i) => UNCHANGED journalVars
                BY Zenon DEF LookUp
            <4>2. UNCHANGED journalVars
                BY <1>4, <3>2, <4>1 DEF Step, NotReady, RefuseRedemption, RefuseBudget, ReceiptMissing, SendTaken, SendFailed, GiveUp
            <4> QED
                BY <4>2 DEF journalVars
        <3> QED
            BY <3>1, <3>2
    <2>2. \A j \in Intents : op'[j].pc = "prepare" => op'[j] = op[j]
        <3>1. CASE LookUp(i)
            <4>1. \/ op' = [op EXCEPT ![i] = IdleOp]
                  \/ op' = [op EXCEPT ![i].pc = "receipt", ![i].replayed = TRUE]
                  \/ op' = [op EXCEPT ![i].pc = "nonce"]
                BY <3>1, Zenon DEF LookUp, ResolveTerminal
            <4> QED
                BY <1>0, <4>1 DEF Operation, IdleOp
        <3>2. CASE NotReady(i) \/ RefuseRedemption(i) \/ RefuseBudget(i) \/ GiveUp(i) \/ Conclude(i)
            <4>1. op' = [op EXCEPT ![i] = IdleOp]
                <5>1. Conclude(i) => op' = [op EXCEPT ![i] = IdleOp]
                    BY Zenon DEF Conclude, ResolveTerminal
                <5> QED
                    BY <3>2, <5>1 DEF NotReady, RefuseRedemption, RefuseBudget, GiveUp, Resolve
            <4> QED
                BY <1>0, <4>1 DEF IdleOp
        <3>3. CASE ReceiptMissing(i) \/ SendTaken(i) \/ SendFailed(i)
            <4>1. op' = [op EXCEPT ![i].pc = "sending"] \/ op' = [op EXCEPT ![i].pc = "waiting"]
                BY <3>3 DEF ReceiptMissing, SendTaken, SendFailed
            <4> QED
                BY <1>0, <4>1 DEF Operation
        <3> QED
            BY <1>4, <3>1, <3>2, <3>3 DEF Step
    <2> QED
        BY <1>1, <2>1, <2>2
<1>5. ASSUME NEW c \in Calls, NEW i \in Intents, Arrive(c, i) PROVE NonceInv'
    <2>1. rows' = rows /\ (op' = op \/ op' = [op EXCEPT ![i] = [IdleOp EXCEPT !.pc = "queued", !.owner = c]])
        BY <1>5 DEF Arrive, journalVars
    <2> QED
        BY <1>0, <1>1, <2>1 DEF IdleOp
<1>6. CASE (\E c \in Calls : Refuse(c) \/ Collect(c)) \/ (\E t \in mempool : Mine(t) \/ Evict(t)) \/ Housekeeping \/ UNCHANGED vars
    BY <1>1, <1>6 DEF Refuse, Collect, RecordRejection, Mine, Evict, Housekeeping, Prune, NextDay, vars, journalVars, processVars
<1>7. CASE Crash
    BY <1>1, <1>7 DEF Crash, journalVars, IdleOp
<1> QED
    BY <1>2, <1>3, <1>4, <1>5, <1>6, <1>7 DEF Next

\* An operation runs for calls that wait for it, its owner among them.
OwnerInv ==
    /\ \A i \in Intents : op[i].pc # "idle" => op[i].owner \in Calls /\ Waiting(op[i].owner, i)
    /\ \A c \in Calls : call[c].st = "waiting" => op[call[c].intent].pc # "idle"

\* The prepare queue holds the operations that have not claimed, each once.
LineInv ==
    /\ \A i \in Intents : op[i].pc \in Inside <=> \E k \in DOMAIN queue : queue[k] = i
    /\ \A k, l \in DOMAIN queue : queue[k] = queue[l] => k = l

\* An operation that resolves answers everyone who waits for it.
LEMMA OwnerResolve ==
    ASSUME IInv, OwnerInv, NEW i \in Intents,
           op' = [op EXCEPT ![i] = IdleOp],
           \A c \in Calls : IF Waiting(c, i) THEN call'[c].st # "waiting" ELSE call'[c] = call[c]
    PROVE  OwnerInv'
<1>0. op \in [Intents -> Operation] /\ \A c \in Calls : call[c].st # "idle" => call[c].intent \in Intents
    BY DEF IInv, TypeInv, TypeOK, CallsCarryIntents
<1>1. op'[i].pc = "idle" /\ \A j \in Intents : j # i => op'[j] = op[j]
    BY <1>0 DEF IdleOp
<1>2. ASSUME NEW j \in Intents, op'[j].pc # "idle"
      PROVE  op'[j].owner \in Calls /\ call'[op'[j].owner].st = "waiting" /\ call'[op'[j].owner].intent = j
    <2>1. j # i /\ op'[j] = op[j] /\ op[j].pc # "idle"
        BY <1>1, <1>2
    <2>2. op[j].owner \in Calls /\ Waiting(op[j].owner, j)
        BY <2>1 DEF OwnerInv
    <2>3. ~Waiting(op[j].owner, i)
        BY <2>1, <2>2 DEF Waiting
    <2> QED
        BY <2>1, <2>2, <2>3 DEF Waiting
<1>3. ASSUME NEW c \in Calls, call'[c].st = "waiting" PROVE op'[call'[c].intent].pc # "idle"
    <2>1. ~Waiting(c, i) /\ call'[c] = call[c] /\ call[c].intent \in Intents
        BY <1>0, <1>3
    <2>2. op[call[c].intent].pc # "idle" /\ call[c].intent # i
        BY <1>3, <2>1 DEF OwnerInv, Waiting
    <2> QED
        BY <1>1, <2>1, <2>2
<1> QED
    BY <1>2, <1>3 DEF OwnerInv, Waiting

\* Steps that keep every operation's owner and liveness and every waiting call.
LEMMA OwnerFrame ==
    ASSUME IInv, OwnerInv,
           \A j \in Intents : op'[j].owner = op[j].owner /\ (op'[j].pc = "idle" <=> op[j].pc = "idle"),
           \A c \in Calls : (call'[c].st = "waiting" <=> call[c].st = "waiting")
                            /\ (call[c].st = "waiting" => call'[c].intent = call[c].intent)
    PROVE  OwnerInv'
<1>0. \A c \in Calls : call[c].st = "waiting" => call[c].intent \in Intents
    BY DEF IInv, TypeInv, CallsCarryIntents
<1> QED
    BY <1>0 DEF OwnerInv, Waiting

\* The head leaves the queue, and its operation the section.
LEMMA LineLeave ==
    ASSUME IInv, LineInv, NEW i \in Intents, Preparing(i), LeaveQueue,
           op'[i].pc \notin Inside, \A j \in Intents : j # i => op'[j] = op[j]
    PROVE  LineInv'
<1>1. queue \in Seq(Intents) /\ queue # <<>> /\ Head(queue) = i /\ queue' = Tail(queue)
    BY DEF IInv, TypeInv, TypeOK, Preparing, LeaveQueue
<1>2. /\ queue[1] = i /\ 1 \in DOMAIN queue /\ DOMAIN queue = 1 .. Len(queue) /\ Len(queue) \in Nat
      /\ DOMAIN queue' = 1 .. Len(queue) - 1
      /\ \A k \in 1 .. Len(queue) - 1 : queue'[k] = queue[k + 1]
    BY <1>1
<1>3. ASSUME NEW j \in Intents PROVE (\E k \in DOMAIN queue' : queue'[k] = j) <=> j # i /\ \E k \in DOMAIN queue : queue[k] = j
    <2>1. ASSUME NEW k \in DOMAIN queue', queue'[k] = j PROVE j # i /\ \E l \in DOMAIN queue : queue[l] = j
        <3>1. k + 1 \in DOMAIN queue /\ k + 1 # 1 /\ queue[k + 1] = j
            BY <1>2, <2>1
        <3> QED
            BY <1>2, <3>1 DEF LineInv
    <2>2. ASSUME j # i, NEW k \in DOMAIN queue, queue[k] = j PROVE \E l \in DOMAIN queue' : queue'[l] = j
        <3>1. k # 1
            BY <1>2, <2>2
        <3>2. k - 1 \in 1 .. Len(queue) - 1 /\ (k - 1) + 1 = k
            BY <1>2, <3>1
        <3>3. queue'[k - 1] = queue[k]
            BY <1>2, <3>2
        <3> QED
            BY <1>2, <2>2, <3>2, <3>3
    <2> QED
        BY <2>1, <2>2
<1>4. ASSUME NEW k \in DOMAIN queue', NEW l \in DOMAIN queue', queue'[k] = queue'[l] PROVE k = l
    <2>1. k + 1 \in DOMAIN queue /\ l + 1 \in DOMAIN queue /\ queue[k + 1] = queue[l + 1] /\ k \in Nat /\ l \in Nat
        BY <1>2, <1>4
    <2>2. k + 1 = l + 1
        BY <2>1 DEF LineInv
    <2> QED
        BY <2>1, <2>2
<1>5. \A j \in Intents : op'[j].pc \in Inside <=> \E k \in DOMAIN queue' : queue'[k] = j
    BY <1>3 DEF LineInv
<1> QED
    BY <1>4, <1>5 DEF LineInv

LEMMA LineFrame ==
    ASSUME LineInv, queue' = queue, \A j \in Intents : op'[j].pc \in Inside <=> op[j].pc \in Inside
    PROVE  LineInv'
BY DEF LineInv

\* A request joins its operation or starts one at the end of the queue.
LEMMA StrandedArrive ==
    ASSUME IInv, OwnerInv, LineInv, NEW c \in Calls, NEW i \in Intents, Arrive(c, i)
    PROVE  OwnerInv' /\ LineInv'
<1>0. /\ op \in [Intents -> Operation] /\ call \in [Calls -> Call] /\ queue \in Seq(Intents)
      /\ \A b \in Calls : call[b].st = "waiting" => call[b].intent \in Intents
    BY DEF IInv, TypeInv, TypeOK, CallsCarryIntents
<1>1. /\ call[c].st = "idle"
      /\ call' = [call EXCEPT ![c] = [st |-> "waiting", intent |-> i, replayed |-> FALSE]]
    BY DEF Arrive
<1>2. /\ call'[c].st = "waiting" /\ call'[c].intent = i
      /\ \A b \in Calls : b # c => call'[b] = call[b]
    BY <1>0, <1>1
<1>3. \A j \in Intents : op[j].pc # "idle" => op[j].owner # c
    BY <1>1 DEF OwnerInv, Waiting
<1>4. CASE op[i].pc = "idle"
    <2>1. /\ op' = [op EXCEPT ![i] = [IdleOp EXCEPT !.pc = "queued", !.owner = c]]
          /\ queue' = Append(queue, i)
        BY <1>4 DEF Arrive
    <2>2. op'[i].pc = "queued" /\ op'[i].owner = c /\ \A j \in Intents : j # i => op'[j] = op[j]
        BY <1>0, <2>1 DEF IdleOp
    <2>3. OwnerInv'
        <3>1. ASSUME NEW j \in Intents, op'[j].pc # "idle"
              PROVE  op'[j].owner \in Calls /\ call'[op'[j].owner].st = "waiting" /\ call'[op'[j].owner].intent = j
            <4>1. CASE j = i
                BY <1>2, <2>2, <4>1
            <4>2. CASE j # i
                BY <1>2, <1>3, <2>2, <3>1, <4>2 DEF OwnerInv, Waiting
            <4> QED
                BY <4>1, <4>2
        <3>2. ASSUME NEW b \in Calls, call'[b].st = "waiting" PROVE op'[call'[b].intent].pc # "idle"
            <4>1. CASE b = c
                BY <1>2, <2>2, <4>1
            <4>2. CASE b # c
                BY <1>0, <1>2, <2>2, <3>2, <4>2 DEF OwnerInv
            <4> QED
                BY <4>1, <4>2
        <3> QED
            BY <3>1, <3>2 DEF OwnerInv, Waiting
    <2>4. LineInv'
        <3>1. /\ Len(queue) \in Nat /\ DOMAIN queue = 1 .. Len(queue)
              /\ DOMAIN queue' = 1 .. Len(queue) + 1 /\ queue'[Len(queue) + 1] = i
              /\ \A k \in 1 .. Len(queue) : queue'[k] = queue[k]
            BY <1>0, <2>1
        <3>2. \A k \in DOMAIN queue : queue[k] # i
            BY <1>4 DEF LineInv, Inside
        <3>3. \A j \in Intents : (\E k \in DOMAIN queue' : queue'[k] = j) <=> j = i \/ \E k \in DOMAIN queue : queue[k] = j
            BY <3>1
        <3>4. \A j \in Intents : op'[j].pc \in Inside <=> \E k \in DOMAIN queue' : queue'[k] = j
            BY <2>2, <3>3 DEF LineInv, Inside
        <3>5. \A k, l \in DOMAIN queue' : queue'[k] = queue'[l] => k = l
            BY <3>1, <3>2 DEF LineInv
        <3> QED
            BY <3>4, <3>5 DEF LineInv
    <2> QED
        BY <2>3, <2>4
<1>5. CASE op[i].pc # "idle"
    <2>1. op' = op /\ queue' = queue
        BY <1>5 DEF Arrive
    <2>2. \A j \in Intents : op[j].pc # "idle" => op[j].owner \in Calls /\ call'[op[j].owner].st = "waiting" /\ call'[op[j].owner].intent = j
        BY <1>2, <1>3 DEF OwnerInv, Waiting
    <2>3. \A b \in Calls : call'[b].st = "waiting" => op[call'[b].intent].pc # "idle"
        BY <1>2, <1>5 DEF OwnerInv
    <2>4. OwnerInv'
        BY <2>1, <2>2, <2>3 DEF OwnerInv, Waiting
    <2> QED
        BY <2>1, <2>4, LineFrame
<1> QED
    BY <1>4, <1>5

\* An operation's own step: it moves on, leaves the section or resolves.
LEMMA StrandedStep ==
    ASSUME IInv, OwnerInv, LineInv, NEW i \in Intents, Step(i)
    PROVE  OwnerInv' /\ LineInv'
<1>0. op \in [Intents -> Operation] /\ call \in [Calls -> Call]
    BY DEF IInv, TypeInv, TypeOK
<1>1. ASSUME op' = [op EXCEPT ![i] = IdleOp],
             \A c \in Calls : IF Waiting(c, i) THEN call'[c].st # "waiting" ELSE call'[c] = call[c],
             \/ Preparing(i) /\ LeaveQueue
             \/ op[i].pc \notin Inside /\ queue' = queue
      PROVE  OwnerInv' /\ LineInv'
    <2>1. OwnerInv'
        BY <1>1, OwnerResolve
    <2>2. op'[i].pc \notin Inside /\ \A j \in Intents : j # i => op'[j] = op[j]
        BY <1>0, <1>1 DEF IdleOp, Inside
    <2> QED
        BY <1>1, <2>1, <2>2, LineLeave, LineFrame
<1>2. ASSUME call' = call, NEW pc \in Stages \ {"idle"}, op[i].pc # "idle",
             op'[i].pc = pc, op'[i].owner = op[i].owner, \A j \in Intents : j # i => op'[j] = op[j],
             \/ pc \notin Inside /\ Preparing(i) /\ LeaveQueue
             \/ queue' = queue /\ (pc \in Inside <=> op[i].pc \in Inside)
      PROVE  OwnerInv' /\ LineInv'
    <2>1. \A j \in Intents : op'[j].owner = op[j].owner /\ (op'[j].pc = "idle" <=> op[j].pc = "idle")
        BY <1>2
    <2>2. OwnerInv'
        BY <1>2, <2>1, OwnerFrame
    <2> QED
        BY <1>2, <2>2, LineLeave, LineFrame
<1>3. ASSUME NEW st \in {"not_ready", "refused", "pending"}, Resolve(i, st)
      PROVE  /\ op' = [op EXCEPT ![i] = IdleOp]
             /\ \A c \in Calls : IF Waiting(c, i) THEN call'[c].st # "waiting" ELSE call'[c] = call[c]
    BY <1>0, <1>3 DEF Resolve, Call
<1>4. ASSUME NEW st \in {"settled", "error"}, NEW m, ResolveTerminal(i, st, m)
      PROVE  /\ op' = [op EXCEPT ![i] = IdleOp]
             /\ \A c \in Calls : IF Waiting(c, i) THEN call'[c].st # "waiting" ELSE call'[c] = call[c]
    <2>1. /\ op' = [op EXCEPT ![i] = IdleOp]
          /\ call' = [c \in Calls |-> IF Waiting(c, i) THEN [call[c] EXCEPT !.st = st, !.replayed = Marked(c, i, m)] ELSE call[c]]
        BY <1>4, Zenon DEF ResolveTerminal
    <2>2. ASSUME NEW c \in Calls, Waiting(c, i) PROVE call'[c].st # "waiting"
        <3>1. call'[c] = [[call[c] EXCEPT !.st = st] EXCEPT !.replayed = Marked(c, i, m)]
            BY <1>0, <2>1, <2>2 DEF Call
        <3>2. call[c] \in Call
            BY <1>0
        <3> QED
            BY <3>1, <3>2 DEF Call
    <2>3. ASSUME NEW c \in Calls, ~Waiting(c, i) PROVE call'[c] = call[c]
        BY <2>1, <2>3
    <2> QED
        BY <2>1, <2>2, <2>3
<1>5. op[i].pc \in {"nonce", "prepare"} => Preparing(i)
    BY DEF IInv, TypeInv, InSection
<1>6. CASE LookUp(i)
    <2>1. op[i].pc = "queued" /\ Preparing(i)
        BY <1>6 DEF LookUp
    <2>2. \/ Terminal(i) /\ LeaveQueue /\ ResolveTerminal(i, TerminalEvent(i).outcome, TRUE)
          \/ LeaveQueue /\ op' = [op EXCEPT ![i].pc = "receipt", ![i].replayed = TRUE] /\ call' = call
          \/ op' = [op EXCEPT ![i].pc = "nonce"] /\ queue' = queue /\ call' = call
        BY <1>6, Zenon DEF LookUp
    <2>3. CASE Terminal(i) /\ LeaveQueue /\ ResolveTerminal(i, TerminalEvent(i).outcome, TRUE)
        <3>1. TerminalEvent(i).outcome \in {"settled", "error"}
            BY <2>3, TerminalOutcome DEF IInv, TypeInv, DurableInv
        <3> QED
            BY <1>1, <1>4, <2>1, <2>3, <3>1
    <2>4. CASE LeaveQueue /\ op' = [op EXCEPT ![i].pc = "receipt", ![i].replayed = TRUE] /\ call' = call
        <3>1. op'[i] = [[op[i] EXCEPT !.pc = "receipt"] EXCEPT !.replayed = TRUE] /\ op[i] \in Operation
            BY <1>0, <2>4 DEF Operation
        <3>2. op'[i].pc = "receipt" /\ op'[i].owner = op[i].owner
            BY <3>1 DEF Operation
        <3>3. \A j \in Intents : j # i => op'[j] = op[j]
            BY <1>0, <2>4
        <3>4. "receipt" \in Stages \ {"idle"} /\ "receipt" \notin Inside /\ op[i].pc # "idle"
            BY <2>1 DEF Stages, Inside
        <3> QED
            BY <1>2, <2>1, <2>4, <3>2, <3>3, <3>4
    <2>5. CASE op' = [op EXCEPT ![i].pc = "nonce"] /\ queue' = queue /\ call' = call
        <3>1. op'[i].pc = "nonce" /\ op'[i].owner = op[i].owner /\ \A j \in Intents : j # i => op'[j] = op[j]
            BY <1>0, <2>5 DEF Operation
        <3>2. "nonce" \in Stages \ {"idle"} /\ "nonce" \in Inside /\ op[i].pc # "idle" /\ op[i].pc \in Inside
            BY <2>1 DEF Stages, Inside
        <3> QED
            BY <1>2, <2>5, <3>1, <3>2
    <2> QED
        BY <2>2, <2>3, <2>4, <2>5
<1>7. CASE AllocateNonce(i)
    <2>1. op[i].pc = "nonce" /\ queue' = queue /\ call' = call
        BY <1>7 DEF AllocateNonce
    <2>2. PICK p \in PendingNonces : op' = [op EXCEPT ![i].pc = "prepare", ![i].nonce = NextNonce(p)]
        BY <1>7 DEF AllocateNonce
    <2>3. op'[i] = [[op[i] EXCEPT !.pc = "prepare"] EXCEPT !.nonce = NextNonce(p)] /\ op[i] \in Operation
        BY <1>0, <2>2 DEF Operation
    <2>4. op'[i].pc = "prepare" /\ op'[i].owner = op[i].owner
        BY <2>3 DEF Operation
    <2>5. \A j \in Intents : j # i => op'[j] = op[j]
        BY <1>0, <2>2
    <2>6. "prepare" \in Stages \ {"idle"} /\ "prepare" \in Inside /\ "nonce" \in Inside
        BY DEF Stages, Inside
    <2> QED
        BY <1>2, <2>1, <2>4, <2>5, <2>6
<1>8. CASE ClaimPrepared(i)
    <2>1. op[i].pc = "prepare" /\ LeaveQueue /\ call' = call /\ op' = [op EXCEPT ![i].pc = "receipt"]
        BY <1>8 DEF ClaimPrepared
    <2>2. op'[i].pc = "receipt" /\ op'[i].owner = op[i].owner /\ \A j \in Intents : j # i => op'[j] = op[j]
        BY <1>0, <2>1 DEF Operation
    <2>3. "receipt" \in Stages \ {"idle"} /\ "receipt" \notin Inside /\ Preparing(i)
        BY <1>5, <2>1 DEF Stages, Inside
    <2> QED
        BY <1>2, <2>1, <2>2, <2>3
<1>9. CASE NotReady(i) \/ RefuseRedemption(i) \/ RefuseBudget(i)
    <2>1. PICK st \in {"not_ready", "refused", "pending"} : Resolve(i, st)
        BY <1>9 DEF NotReady, RefuseRedemption, RefuseBudget
    <2>2. Preparing(i) /\ LeaveQueue
        BY <1>5, <1>9 DEF NotReady, RefuseRedemption, RefuseBudget
    <2> QED
        BY <1>1, <1>3, <2>1, <2>2
<1>10. CASE ReceiptMissing(i) \/ SendTaken(i) \/ SendFailed(i)
    <2>1. /\ op[i].pc \in {"receipt", "sending"} /\ queue' = queue /\ call' = call
          /\ \E pc \in {"sending", "waiting"} : op' = [op EXCEPT ![i].pc = pc]
        BY <1>10 DEF ReceiptMissing, SendTaken, SendFailed
    <2>2. PICK pc \in {"sending", "waiting"} : op' = [op EXCEPT ![i].pc = pc]
        BY <2>1
    <2>3. op'[i].pc = pc /\ op'[i].owner = op[i].owner /\ \A j \in Intents : j # i => op'[j] = op[j]
        BY <1>0, <2>2 DEF Operation
    <2>4. pc \in Stages \ {"idle"} /\ pc \notin Inside /\ op[i].pc \notin Inside /\ op[i].pc # "idle"
        BY <2>1 DEF Stages, Inside
    <2> QED
        BY <1>2, <2>1, <2>3, <2>4
<1>11. CASE Conclude(i)
    <2>1. Mined(TxOf(i)) /\ queue' = queue /\ op[i].pc \notin Inside
        BY <1>11 DEF Conclude, Inside
    <2>2. ResolveTerminal(i, LedgerOutcome(ReceiptOf(i).outcome), op[i].replayed)
        BY <1>11, Zenon DEF Conclude
    <2>3. ReceiptOf(i) \in mined
        BY <2>1 DEF Mined, ReceiptOf
    <2>4. LedgerOutcome(ReceiptOf(i).outcome) \in {"settled", "error"}
        BY <2>3, LedgerOutcomeType DEF IInv, TypeInv, TypeOK, Receipt
    <2> QED
        BY <1>1, <1>4, <2>1, <2>2, <2>4
<1>12. CASE GiveUp(i)
    <2>1. Resolve(i, "pending") /\ queue' = queue /\ op[i].pc \notin Inside
        BY <1>12 DEF GiveUp, Inside
    <2> QED
        BY <1>1, <1>3, <2>1
<1> QED
    BY <1>6, <1>7, <1>8, <1>9, <1>10, <1>11, <1>12 DEF Step

LEMMA StrandedNext ==
    ASSUME IInv, OwnerInv, LineInv, [Next]_vars
    PROVE  OwnerInv' /\ LineInv'
<1>0. call \in [Calls -> Call]
    BY DEF IInv, TypeInv, TypeOK
<1>1. CASE op' = op /\ queue' = queue /\ call' = call
    BY <1>1, OwnerFrame, LineFrame
<1>2. ASSUME NEW c \in Calls, Refuse(c) \/ Collect(c) PROVE OwnerInv' /\ LineInv'
    <2>1. op' = op /\ queue' = queue
        BY <1>2 DEF Refuse, Collect
    <2>2. /\ call[c].st # "waiting" /\ call'[c].st # "waiting"
          /\ \A b \in Calls : b # c => call'[b] = call[b]
        BY <1>0, <1>2 DEF Refuse, Collect, Answers, Call, IdleCall
    <2> QED
        BY <2>1, <2>2, OwnerFrame, LineFrame
<1>3. CASE Crash
    <2>1. /\ queue' = <<>> /\ \A i \in Intents : op'[i].pc = "idle"
          /\ \A c \in Calls : call'[c].st = "idle"
        BY <1>3 DEF Crash, IdleOp, IdleCall
    <2> QED
        BY <2>1 DEF OwnerInv, LineInv, Inside
<1>4. CASE (\E t \in mempool : Mine(t) \/ Evict(t)) \/ Housekeeping \/ UNCHANGED vars
    BY <1>1, <1>4 DEF Mine, Evict, Housekeeping, vars, processVars
<1> QED
    BY <1>2, <1>3, <1>4, StrandedArrive, StrandedStep DEF Next

\* Under every interleaving of calls, crashes and lost answers, the prepare queue holds
\* exactly the operations still to claim, each has its owner waiting, and the rows' nonces
\* have no hole (SettlementCoordinator of index.ts, nextNonce of settlement.ts).
THEOREM NothingIsStranded == Spec => []NothingStranded
<1>1. Init => NonceInv /\ OwnerInv /\ LineInv
    <2> SUFFICES ASSUME Init PROVE NonceInv /\ OwnerInv /\ LineInv
        OBVIOUS
    <2>1. DOMAIN rows = {} /\ \A i \in Intents : op[i].pc = "idle"
        BY DEF Init, JournalInit, IdleOp
    <2>2. IsFiniteSet(DOMAIN rows) /\ Size = 0
        BY <2>1, FS_EmptySet DEF Size
    <2>3. NonceInv
        BY <2>1, <2>2 DEF NonceInv
    <2>4. OwnerInv /\ LineInv
        BY <2>1 DEF Init, OwnerInv, LineInv, IdleCall, Inside
    <2> QED
        BY <2>3, <2>4
<1>2. IInv /\ IInv' /\ NonceInv /\ OwnerInv /\ LineInv /\ [Next]_vars => NonceInv' /\ OwnerInv' /\ LineInv'
    BY NonceNext, StrandedNext
<1>3. IInv /\ NonceInv /\ OwnerInv /\ LineInv => NothingStranded
    <2> SUFFICES ASSUME IInv, NonceInv, OwnerInv, LineInv PROVE QueueExact /\ NoNonceGap
        BY DEF NothingStranded
    <2>1. NoNonceGap
        <3>1. Size \in Nat /\ \A i \in DOMAIN rows : rows[i].nonce \in Nat
            BY FS_CardinalityType DEF NonceInv, Size, IInv, TypeInv, TypeOK, JournalTypeOK, Row
        <3>2. {rows[i].nonce : i \in DOMAIN rows} = 0 .. Size - 1
            BY <3>1 DEF NonceInv
        <3> QED
            BY <3>2 DEF NoNonceGap, Size
    <2>2. \A i \in Intents : op[i].pc # "idle" <=> \E c \in Calls : Waiting(c, i)
        BY DEF OwnerInv, Waiting
    <2> QED
        BY <2>1, <2>2 DEF QueueExact, OwnerInv, LineInv, IInv, TypeInv, InSection
<1> QED
    BY <1>1, <1>2, <1>3, InductiveInvariant, PTL DEF Spec

=============================================================================
