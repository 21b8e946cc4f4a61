----------------------------- MODULE Guardians -----------------------------
(***************************************************************************)
(* The guardian collection (contracts/src/MapaeGuardians.sol).  A mint     *)
(* draws a token ID and asks Pyth for the randomness of its birth; the     *)
(* callback reveals it.  The Pyth contract and provider are fixed in the   *)
(* implementation, so an upgrade to another pair strands pending births    *)
(* until their minters ask again, and an old pair may come back later.     *)
(* Revealed guardians are transferred, grow by attested paid results and   *)
(* collect ranking honors.                                                 *)
(*                                                                         *)
(* A transaction is a step, except mint(): the receiver's hook runs inside *)
(* it, between the draw and the request, and may do whatever is not        *)
(* nonReentrant.  A call that reverts is a step that is not enabled.       *)
(***************************************************************************)
EXTENDS Integers, FiniteSets, FiniteSetsExt, SequencesExt

CONSTANTS
    Accounts,       \* holders
    Keys,           \* administrators and result signers
    Pairs,          \* Entropy contract and provider
    MaxSupply, MaxOwned, MaxMints,  \* MAX_SUPPLY, MAX_OWNED, MAX_LIFETIME_MINTS
    MaxBatch,       \* MAX_CLAIM_BATCH
    Results,        \* results the server may attest
    Honors,         \* honors it may attest
    HonorLanes,     \* the streak and the titles
    Games,
    FirstOwner, FirstSigner, FirstPair, FirstWeek,      \* at the deployment
    MaxSequence, MaxCalls, MaxEpoch, MaxWeek

ASSUME SizeAssumption == /\ {MaxSupply, MaxOwned, MaxMints, MaxBatch, FirstWeek, MaxSequence, MaxCalls, MaxEpoch, MaxWeek} \subseteq Nat
                         /\ MaxEpoch # 0 /\ FirstWeek <= MaxWeek
\* initialize() refuses a signer that is the owner.
ASSUME DeploymentAssumption == FirstOwner \in Keys /\ FirstSigner \in Keys \ {FirstOwner} /\ FirstPair \in Pairs
\* A result is of a token of the supply and of a known game, or _result reverts.
ASSUME ResultAssumption == IsFiniteSet(Games) /\ \A r \in Results : r.token \in 1 .. MaxSupply /\ r.game \in Games
\* The zero address neither holds nor administers.
ASSUME NobodyAssumption == "nobody" \notin Accounts \cup Keys

VARIABLES
    accounts,   \* Account: pendingMint, minted, owned
    tokens,     \* Token, with its owner
    drawn, idPool,
    requestToken,   \* the request each pair's sequence stands for
    pair,       \* entropy and entropyProvider of the implementation
    pyth,       \* requests Pyth has not delivered, and each pair's next sequence number
    minting,    \* the token whose mint is in its receiver's hook
    growth, claimedPayments, honors,
    admin,      \* owner, pendingOwner, resultSigner, mintPaused
    week,       \* ranking weeks sealed so far
    calls       \* upgrades and administrative calls so far

births == <<tokens, drawn, idPool, requestToken, pyth>>
claims == <<growth, claimedPayments, honors>>
vars == <<accounts, births, pair, minting, claims, admin, week, calls>>

None == 0
Nobody == "nobody"
Tokens == 1 .. MaxSupply
NoRequest == [token |-> 0, attempt |-> 0]
NoToken == [owner |-> Nobody, seed |-> NoRequest, sequence |-> 0, epoch |-> 0, revealed |-> FALSE, attempt |-> 0]

Init ==
    /\ accounts = [a \in Accounts |-> [pendingMint |-> None, minted |-> 0, owned |-> [l \in 1 .. MaxOwned |-> None]]]
    /\ tokens = [t \in Tokens |-> NoToken]
    /\ drawn = 0
    /\ idPool = [s \in 0 .. MaxSupply - 1 |-> None]
    /\ requestToken = [p \in Pairs |-> [n \in 1 .. MaxSequence |-> NoRequest]]
    /\ pair = FirstPair
    /\ pyth = [waiting |-> {}, next |-> [p \in Pairs |-> 1]]
    /\ minting = None
    /\ growth = [t \in Tokens |-> [g \in Games |-> [plays |-> 0, victories |-> 0, best |-> 0]]]
    /\ claimedPayments = {}
    /\ honors = [t \in Tokens |-> [week |-> 0, lanes |-> [l \in HonorLanes |-> 0]]]
    /\ admin = [owner |-> FirstOwner, pendingOwner |-> Nobody, signer |-> FirstSigner, mintPaused |-> TRUE]
    /\ week = FirstWeek
    /\ calls = 0

-----------------------------------------------------------------------------
(* Owned lanes and ownership.                                              *)

FreeLanes(owned) == {l \in 1 .. MaxOwned : owned[l] = None}
Owned(a) == {accounts[a].owned[l] : l \in 1 .. MaxOwned} \ {None}

\* Mutant: the lane the token leaves is not cleared.
WithoutMut(owned, t) == owned

Without(owned, t) == [l \in 1 .. MaxOwned |-> IF owned[l] = t THEN None ELSE owned[l]]
\* The token goes to the first free lane.
With(owned, t) == LET l == Min(FreeLanes(owned)) IN [owned EXCEPT ![l] = t]

Transferable(t) == tokens[t].owner # Nobody /\ tokens[t].revealed

\* _update of a token that has an owner: a transfer to oneself only moves the epoch.
Transfer(t, to) ==
    LET from == tokens[t].owner IN
    /\ Transferable(t)
    /\ tokens[t].epoch < MaxEpoch
    /\ IF from = to THEN UNCHANGED accounts
       ELSE /\ FreeLanes(accounts[to].owned) # {}
            /\ accounts' = [accounts EXCEPT ![from].owned = Without(@, t), ![to].owned = With(@, t)]
    /\ tokens' = [tokens EXCEPT ![t].owner = to, ![t].epoch = @ + 1]
    /\ UNCHANGED <<drawn, idPool, requestToken, pyth, pair, minting, claims, admin, week, calls>>

-----------------------------------------------------------------------------
(* Births.                                                                 *)

\* A lane never written holds its default ID.
PoolAt(slot) == IF idPool[slot] = None THEN slot + 1 ELSE idPool[slot]

\* _drawTokenId: the last ID of the remaining pool takes the place of the drawn one.
PoolAfter(slot) ==
    LET last == MaxSupply - drawn - 1 IN
    IF slot = last THEN idPool ELSE [idPool EXCEPT ![slot] = PoolAt(last)]

MintLimit(a) == drawn >= MaxSupply \/ accounts[a].minted >= MaxMints \/ FreeLanes(accounts[a].owned) = {}

\* mint() up to the receiver's hook.
Mint(a, slot) ==
    LET t == PoolAt(slot) IN
    /\ minting = None
    /\ ~admin.mintPaused
    /\ accounts[a].pendingMint = None
    /\ ~MintLimit(a)
    /\ slot < MaxSupply - drawn
    /\ idPool' = PoolAfter(slot)
    /\ drawn' = drawn + 1
    /\ accounts' = [accounts EXCEPT ![a] = [pendingMint |-> t, minted |-> @.minted + 1, owned |-> With(@.owned, t)]]
    /\ tokens' = [tokens EXCEPT ![t].owner = a, ![t].epoch = @ + 1]
    /\ minting' = t
    /\ UNCHANGED <<requestToken, pyth, pair, claims, admin, week, calls>>

\* _requestBirth: Pyth numbers the requests of a pair from 1.
RequestBirth(t) ==
    LET seq == pyth.next[pair]
        request == [token |-> t, attempt |-> tokens[t].attempt + 1] IN
    /\ seq <= MaxSequence
    /\ requestToken[pair][seq] = NoRequest
    /\ requestToken' = [requestToken EXCEPT ![pair][seq] = request]
    /\ tokens' = [tokens EXCEPT ![t].sequence = seq, ![t].attempt = request.attempt]
    /\ pyth' = [waiting |-> pyth.waiting \cup {[pair |-> pair, sequence |-> seq, request |-> request]},
                next |-> [pyth.next EXCEPT ![pair] = @ + 1]]

\* The rest of mint(), after the hook accepted the token.
FinishMint ==
    /\ minting # None
    /\ RequestBirth(minting)
    /\ minting' = None
    /\ UNCHANGED <<accounts, drawn, idPool, pair, claims, admin, week, calls>>

\* Mutant: any request of the token under the current pair counts.
StillLiveMut(t) == tokens[t].sequence # 0 /\ requestToken[pair][tokens[t].sequence].token = t

\* The current pair can still deliver the token's latest request.
StillLive(t) == requestToken[pair][tokens[t].sequence] = [token |-> t, attempt |-> tokens[t].attempt]

RerequestBirth(a) ==
    /\ minting = None
    /\ accounts[a].pendingMint # None
    /\ ~StillLive(accounts[a].pendingMint)
    /\ RequestBirth(accounts[a].pendingMint)
    /\ UNCHANGED <<accounts, drawn, idPool, pair, minting, claims, admin, week, calls>>

\* Mutant: any request of a pending token will do.
DeliverableAnyMut(p, seq) ==
    LET request == requestToken[pair][seq] IN
    /\ p = pair
    /\ request.token # 0 /\ ~tokens[request.token].revealed

\* What entropyCallback accepts of Pyth: the current pair and the token's latest attempt.
Deliverable(p, seq) ==
    LET request == requestToken[pair][seq] IN
    /\ p = pair
    /\ request.token # 0 /\ ~tokens[request.token].revealed
    /\ request.attempt = tokens[request.token].attempt

\* The random number stands for the request Pyth drew it for.
EntropyCallback(r) ==
    LET t == requestToken[pair][r.sequence].token IN
    /\ r \in pyth.waiting
    /\ Deliverable(r.pair, r.sequence)
    /\ requestToken' = [requestToken EXCEPT ![pair][r.sequence] = NoRequest]
    /\ tokens' = [tokens EXCEPT ![t].seed = r.request, ![t].revealed = TRUE]
    /\ accounts' = [accounts EXCEPT ![tokens[t].owner].pendingMint = None]
    /\ pyth' = [pyth EXCEPT !.waiting = @ \ {r}]
    /\ UNCHANGED <<drawn, idPool, pair, minting, claims, admin, week, calls>>

-----------------------------------------------------------------------------
(* Results and honors.                                                     *)

\* What _result verifies before it looks at the payment; a result of an earlier owner counts.
ValidResult(r) == /\ tokens[r.token].revealed
                  /\ r.epoch \in 1 .. tokens[r.token].epoch
                  /\ r.signer = admin.signer

ValidHonor(h) == /\ tokens[h.token].revealed
                 /\ h.week \in 1 .. week
                 /\ h.signer = admin.signer

\* Mutant: only payments claimed by earlier transactions are skipped.
AppliedMut(rs) == {i \in DOMAIN rs : rs[i].payment \notin claimedPayments}

\* The entries whose payment is claimed neither earlier in the call nor elsewhere.
Applied(rs) == {i \in DOMAIN rs : /\ rs[i].payment \notin claimedPayments
                                  /\ \A k \in 1 .. i - 1 : rs[k].payment # rs[i].payment}

Grown(rs) ==
    [t \in Tokens |-> [g \in Games |->
        LET new == {i \in Applied(rs) : rs[i].token = t /\ rs[i].game = g} IN
        [plays |-> growth[t][g].plays + Cardinality(new),
         victories |-> growth[t][g].victories + Cardinality({i \in new : rs[i].victory}),
         best |-> Max({growth[t][g].best} \cup {rs[i].score : i \in new})]]]

\* An honor of a newer week keeps the lane-wise maximum.
Honor(all, h) ==
    IF h.week <= all[h.token].week THEN all
    ELSE [all EXCEPT ![h.token] = [week |-> h.week,
                                   lanes |-> [l \in HonorLanes |-> Max({h.lanes[l], @.lanes[l]})]]]

\* All entries are valid and at least one applies, or the call reverts.
Claim(rs, hs) ==
    /\ minting = None
    /\ Len(rs) + Len(hs) \in 1 .. MaxBatch
    /\ \A i \in DOMAIN rs : ValidResult(rs[i])
    /\ \A i \in DOMAIN hs : ValidHonor(hs[i])
    /\ growth' = Grown(rs)
    /\ claimedPayments' = claimedPayments \cup {rs[i].payment : i \in DOMAIN rs}
    /\ honors' = FoldLeft(Honor, honors, hs)
    /\ <<growth', honors'>> # <<growth, honors>>
    /\ UNCHANGED <<accounts, births, pair, minting, admin, week, calls>>

-----------------------------------------------------------------------------
(* Administration.                                                         *)

Administer(new) ==
    /\ minting = None
    /\ admin.owner # Nobody
    /\ calls < MaxCalls
    /\ admin' = new
    /\ calls' = calls + 1
    /\ UNCHANGED <<accounts, births, pair, minting, claims, week>>

\* Opening the mint is not counted among the calls; it is idempotent.
OpenMint ==
    /\ admin.mintPaused /\ admin.owner # Nobody /\ minting = None
    /\ admin' = [admin EXCEPT !.mintPaused = FALSE]
    /\ UNCHANGED <<accounts, births, pair, minting, claims, week, calls>>

PauseMint == ~admin.mintPaused /\ Administer([admin EXCEPT !.mintPaused = TRUE])

SetResultSigner(k) == k \notin {admin.owner, admin.pendingOwner} /\ Administer([admin EXCEPT !.signer = k])

\* Ownable2Step; renouncing also goes through _transferOwnership.
TransferOwnership(k) == Administer([admin EXCEPT !.pendingOwner = k])
RenounceOwnership == Administer([admin EXCEPT !.owner = Nobody, !.pendingOwner = Nobody])

\* _transferOwnership refuses the signer.
MayOwn(k) == k # admin.signer

AcceptOwnership ==
    /\ admin.pendingOwner # Nobody
    /\ MayOwn(admin.pendingOwner)
    /\ Administer([admin EXCEPT !.owner = admin.pendingOwner, !.pendingOwner = Nobody])

\* An implementation built for another pair; storage stays.
Upgrade(p) ==
    /\ minting = None
    /\ admin.owner # Nobody
    /\ p # pair /\ calls < MaxCalls
    /\ pair' = p
    /\ calls' = calls + 1
    /\ UNCHANGED <<accounts, births, minting, claims, admin, week>>

\* A ranking week and its grace are over.
SealWeek ==
    /\ week < MaxWeek /\ minting = None
    /\ week' = week + 1
    /\ UNCHANGED <<accounts, births, pair, minting, claims, admin, calls>>

Next == \/ \E t \in Tokens, to \in Accounts : Transfer(t, to)
        \/ \E a \in Accounts : RerequestBirth(a) \/ \E slot \in 0 .. MaxSupply - 1 : Mint(a, slot)
        \/ FinishMint
        \/ \E r \in pyth.waiting : EntropyCallback(r)
        \/ \E rs \in SeqOf(Results, MaxBatch), hs \in SeqOf(Honors, MaxBatch) : Claim(rs, hs)
        \/ OpenMint \/ PauseMint \/ AcceptOwnership \/ RenounceOwnership
        \/ \E k \in Keys : SetResultSigner(k) \/ TransferOwnership(k)
        \/ \E p \in Pairs : Upgrade(p)
        \/ SealWeek

\* A mint is one transaction; Pyth delivers what is accepted; a minter asks again when the
\* contract lets it.
Fairness == /\ WF_vars(FinishMint)
            /\ WF_vars(\E r \in pyth.waiting : EntropyCallback(r))
            /\ \A a \in Accounts : WF_vars(RerequestBirth(a))

Spec == Init /\ [][Next]_vars
FairSpec == Spec /\ Fairness

-----------------------------------------------------------------------------
(* Properties.                                                             *)

\* The variables keep their types.
TypeOK ==
    /\ \A a \in Accounts : /\ accounts[a].pendingMint \in Tokens \cup {None}
                           /\ accounts[a].minted \in 0 .. MaxMints
                           /\ accounts[a].owned \in [1 .. MaxOwned -> Tokens \cup {None}]
    /\ \A t \in Tokens : tokens[t].owner \in Accounts \cup {Nobody} /\ tokens[t].epoch \in 0 .. MaxEpoch
    /\ drawn \in 0 .. MaxSupply /\ idPool \in [0 .. MaxSupply - 1 -> Tokens \cup {None}]
    /\ pair \in Pairs /\ minting \in Tokens \cup {None} /\ week \in 0 .. MaxWeek

\* Drawing without replacement: what is left of the pool is exactly the IDs never minted,
\* so no draw can return an ID twice however slots were swapped before.
PoolExact ==
    LET left == {PoolAt(s) : s \in 0 .. MaxSupply - drawn - 1} IN
    /\ left = {t \in Tokens : tokens[t].owner = Nobody}
    /\ Cardinality(left) = MaxSupply - drawn

\* The packed lanes are the ownership, through mints with a transfer in their hook too:
\* tokensOfOwner agrees with ownerOf, the cap on owned tokens is real, and _update's
\* assert cannot fail.
LanesExact ==
    \A a \in Accounts :
        /\ Owned(a) = {t \in Tokens : tokens[t].owner = a}
        /\ Cardinality(Owned(a)) + Cardinality(FreeLanes(accounts[a].owned)) = MaxOwned

\* A pending token is its minter's only pending token and cannot leave before its reveal.
PendingHeld ==
    \A t \in Tokens : tokens[t].owner # Nobody =>
        (~tokens[t].revealed <=> accounts[tokens[t].owner].pendingMint = t)

\* "Only a token's latest request can ever reveal it": the seed is the randomness of the
\* last request made for this token, although sequence numbers repeat between pairs and
\* an old pair may be reinstated with its requests still waiting at Pyth.
BornOfLatest == \A t \in Tokens : tokens[t].revealed => tokens[t].seed = [token |-> t, attempt |-> tokens[t].attempt]

\* A minter never holds two draws to choose between.
OneLiveDraw ==
    \A r, s \in pyth.waiting :
        /\ Deliverable(r.pair, r.sequence) /\ Deliverable(s.pair, s.sequence)
        /\ r.request.token = s.request.token
        => r = s

\* Each payment grows one result, duplicates within a batch included.
PaymentsGrowOnce ==
    SumFunction([x \in Tokens \X Games |-> growth[x[1]][x[2]].plays]) = Cardinality(claimedPayments)

\* The key that attests results never holds the collection.
SignerIsNotOwner == admin.signer # admin.owner

\* The contract's standing invariants: the pool, the lanes, the pending mints and the two
\* keys, after every call and inside a mint's hook.
HoldingsSound == TypeOK /\ PoolExact /\ LanesExact /\ PendingHeld /\ SignerIsNotOwner

\* A re-requested birth never has "two live draws": only its latest request reveals it, and
\* while that waits no other request of the token could.
LatestDrawOnly == BornOfLatest /\ OneLiveDraw

\* A birth stranded by an upgrade is revealed in the end, an old pair reinstated included.
BirthsRevealed == \A a \in Accounts : accounts[a].pendingMint # None ~> accounts[a].pendingMint = None
=============================================================================
