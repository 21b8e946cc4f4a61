-------------------------- MODULE GuardiansProofs --------------------------
(***************************************************************************)
(* Proofs about the guardian collection for every supply, every number of  *)
(* lanes, holders, keys and Entropy pairs.                                 *)
(***************************************************************************)
EXTENDS Guardians, SumTheorems

-----------------------------------------------------------------------------
(***************************************************************************)
(* The inductive invariant, in named parts.                                *)
(***************************************************************************)
Request == [token : Tokens \cup {None}, attempt : Nat]
Account == [pendingMint : Tokens \cup {None}, minted : 0 .. MaxMints, owned : [1 .. MaxOwned -> Tokens \cup {None}]]
Token == [owner : Accounts \cup {Nobody}, seed : Request, sequence : 0 .. MaxSequence, epoch : 0 .. MaxEpoch,
          revealed : BOOLEAN, attempt : Nat]
Delivery == [pair : Pairs, sequence : 1 .. MaxSequence, request : Request]

TypeInv ==
    /\ accounts \in [Accounts -> Account]
    /\ tokens \in [Tokens -> Token]
    /\ drawn \in 0 .. MaxSupply
    /\ idPool \in [0 .. MaxSupply - 1 -> Tokens \cup {None}]
    /\ requestToken \in [Pairs -> [1 .. MaxSequence -> Request]]
    /\ pair \in Pairs
    /\ pyth \in [waiting : SUBSET Delivery, next : [Pairs -> Nat \ {0}]]
    /\ minting \in Tokens \cup {None}
    /\ week \in 0 .. MaxWeek

\* A token nobody owns was never touched.
Unborn == \A t \in Tokens : tokens[t].owner = Nobody => tokens[t] = NoToken

\* The remaining slots list the unminted IDs, each once.
Remaining == 0 .. MaxSupply - drawn - 1
PoolInv ==
    /\ \A s \in Remaining : PoolAt(s) \in Tokens /\ tokens[PoolAt(s)].owner = Nobody
    /\ \A t \in Tokens : tokens[t].owner = Nobody => \E s \in Remaining : PoolAt(s) = t
    /\ \A s, u \in Remaining : PoolAt(s) = PoolAt(u) => s = u

\* An account's lanes list its tokens, each once.
LaneInv ==
    \A a \in Accounts :
        /\ \A l \in 1 .. MaxOwned : accounts[a].owned[l] # None => tokens[accounts[a].owned[l]].owner = a
        /\ \A t \in Tokens : tokens[t].owner = a => \E l \in 1 .. MaxOwned : accounts[a].owned[l] = t
        /\ \A k, l \in 1 .. MaxOwned : accounts[a].owned[k] = accounts[a].owned[l] /\ accounts[a].owned[k] # None => k = l

\* pendingMint and the unrevealed tokens name each other.
PendingInv ==
    /\ \A a \in Accounts : accounts[a].pendingMint # None =>
            /\ tokens[accounts[a].pendingMint].owner = a
            /\ ~tokens[accounts[a].pendingMint].revealed
    /\ \A t \in Tokens : tokens[t].owner # Nobody /\ ~tokens[t].revealed => accounts[tokens[t].owner].pendingMint = t
    /\ minting # None => tokens[minting].owner # Nobody /\ ~tokens[minting].revealed /\ tokens[minting].attempt = 0

\* A sequence stands for one request of one token, no later than its latest; every
\* request is filed once; and what Pyth still holds is what the contract filed.
DrawInv ==
    /\ \A p \in Pairs, n \in 1 .. MaxSequence : requestToken[p][n] # NoRequest =>
            /\ n < pyth.next[p]
            /\ requestToken[p][n].token \in Tokens
            /\ tokens[requestToken[p][n].token].owner # Nobody
            /\ requestToken[p][n].attempt \in 1 .. tokens[requestToken[p][n].token].attempt
    /\ \A p, q \in Pairs, n, m \in 1 .. MaxSequence :
            requestToken[p][n] = requestToken[q][m] /\ requestToken[p][n] # NoRequest => p = q /\ n = m
    /\ \A r \in pyth.waiting : requestToken[r.pair][r.sequence] = r.request /\ r.request # NoRequest

KeysInv == admin \in [owner : Keys \cup {Nobody}, pendingOwner : Keys \cup {Nobody}, signer : Keys, mintPaused : BOOLEAN]

IInv == TypeInv /\ Unborn /\ PoolInv /\ LaneInv /\ PendingInv /\ DrawInv /\ BornOfLatest /\ KeysInv /\ SignerIsNotOwner

\* An account with other lanes.
LEMMA OwnedSet ==
    ASSUME NEW v \in Account, NEW o \in [1 .. MaxOwned -> Tokens \cup {None}]
    PROVE  LET w == [v EXCEPT !.owned = o] IN w \in Account /\ w.pendingMint = v.pendingMint /\ w.owned = o
BY DEF Account

LEMMA InitInv == Init => IInv
<1> SUFFICES ASSUME Init PROVE IInv
    OBVIOUS
<1> USE SizeAssumption, DeploymentAssumption, NobodyAssumption DEF None, Nobody
<1>1. TypeInv
    <2>1. NoRequest \in Request /\ NoToken \in Token
        BY DEF Request, Token, NoToken, NoRequest
    <2>2. accounts \in [Accounts -> Account]
        BY DEF Init, Account
    <2>3. tokens \in [Tokens -> Token] /\ requestToken \in [Pairs -> [1 .. MaxSequence -> Request]]
        BY <2>1, Zenon DEF Init
    <2>4. /\ pyth \in [waiting : SUBSET Delivery, next : [Pairs -> Nat \ {0}]]
          /\ idPool \in [0 .. MaxSupply - 1 -> Tokens \cup {None}]
          /\ pair \in Pairs /\ minting \in Tokens \cup {None}
        BY DEF Init
    <2>5. drawn \in 0 .. MaxSupply /\ week \in 0 .. MaxWeek
        BY DEF Init
    <2> QED
        BY <2>2, <2>3, <2>4, <2>5 DEF TypeInv
<1>2. Unborn
    BY DEF Init, Unborn
<1>3. PoolInv
    <2>1. \A u \in Remaining : PoolAt(u) = u + 1 /\ u + 1 \in Tokens
        BY DEF Init, Remaining, PoolAt, Tokens
    <2>2. \A t \in Tokens : t - 1 \in Remaining /\ tokens[t].owner = Nobody
        BY DEF Init, Remaining, Tokens, NoToken
    <2>3. \A u \in Remaining : u \in Int
        BY DEF Remaining
    <2> QED
        <3>1. \A t \in Tokens : PoolAt(t - 1) = t
            BY <2>1, <2>2 DEF Tokens
        <3> QED
            BY <2>1, <2>2, <2>3, <3>1 DEF PoolInv
<1>4. LaneInv
    BY DEF Init, LaneInv, Tokens, NoToken
<1>5. PendingInv
    BY DEF Init, PendingInv, Tokens, NoToken
<1>6. DrawInv
    BY DEF Init, DrawInv
<1>7. BornOfLatest
    BY DEF Init, BornOfLatest, Tokens, NoToken
<1>8. KeysInv /\ SignerIsNotOwner
    BY DEF Init, KeysInv, SignerIsNotOwner
<1> QED
    BY <1>1, <1>2, <1>3, <1>4, <1>5, <1>6, <1>7, <1>8 DEF IInv

-----------------------------------------------------------------------------
(* Lanes.                                                                  *)

\* A set of naturals has a least member.
LEMMA LeastIndex ==
    ASSUME NEW n, NEW L \in SUBSET (1 .. n), n \in Nat, L # {}
    PROVE  \E k \in L : \A m \in L : k <= m
<1> DEFINE LT == {ss \in Nat \X Nat : ss[1] < ss[2]}
<1>1. LT = OpToRel(<, Nat)
    BY Zenon DEF OpToRel
<1>2. IsWellFoundedOn(LT, Nat)
    BY <1>1, NatLessThanWellFounded, Zenon
<1> HIDE DEF LT
<1>3. L \subseteq Nat
    OBVIOUS
<1>4. PICK k \in L : \A m \in L : ~ (<<m, k>> \in LT)
    BY <1>2, <1>3, WFMin, Zenon
<1>5. ASSUME NEW m \in L, ~(k <= m) PROVE FALSE
    <2>1. <<m, k>> \in Nat \X Nat /\ <<m, k>>[1] = m /\ <<m, k>>[2] = k /\ m < k
        BY <1>3, <1>5
    <2>2. <<m, k>> \in LT
        BY <2>1, Zenon DEF LT
    <2> QED
        BY <1>4, <2>2
<1> QED
    BY <1>5

\* Min of a non-empty set of lanes is one of them.
LEMMA MinLane ==
    ASSUME NEW L \in SUBSET (1 .. MaxOwned), L # {} PROVE Min(L) \in L
<1>1. PICK m \in L : \A n \in L : m <= n
    BY SizeAssumption, LeastIndex
<1> QED
    BY <1>1 DEF Min

\* Without clears the lanes that held the token; With fills one free lane.
LEMMA WithoutLanes ==
    ASSUME NEW owned \in [1 .. MaxOwned -> Tokens \cup {None}], NEW t
    PROVE  /\ Without(owned, t) \in [1 .. MaxOwned -> Tokens \cup {None}]
           /\ \A l \in 1 .. MaxOwned : Without(owned, t)[l] = IF owned[l] = t THEN None ELSE owned[l]
BY DEF Without

LEMMA WithLanes ==
    ASSUME NEW owned \in [1 .. MaxOwned -> Tokens \cup {None}], NEW t \in Tokens, FreeLanes(owned) # {}
    PROVE  /\ With(owned, t) \in [1 .. MaxOwned -> Tokens \cup {None}]
           /\ \E k \in 1 .. MaxOwned :
                /\ owned[k] = None
                /\ \A l \in 1 .. MaxOwned : With(owned, t)[l] = IF l = k THEN t ELSE owned[l]
<1>1. Min(FreeLanes(owned)) \in FreeLanes(owned)
    BY MinLane DEF FreeLanes
<1> DEFINE k == Min(FreeLanes(owned))
<1>2. k \in 1 .. MaxOwned /\ owned[k] = None
    BY <1>1 DEF FreeLanes
<1> HIDE DEF k
<1>3. With(owned, t) = [owned EXCEPT ![k] = t]
    BY DEF With, k
<1>4. \A l \in 1 .. MaxOwned : With(owned, t)[l] = IF l = k THEN t ELSE owned[l]
    BY <1>2, <1>3
<1> QED
    BY <1>2, <1>3, <1>4

-----------------------------------------------------------------------------
(* One lemma per action.                                                   *)

LEMMA TransferInv ==
    ASSUME IInv, NEW t \in Tokens, NEW to \in Accounts, Transfer(t, to)
    PROVE  IInv'
<1> USE SizeAssumption, NobodyAssumption DEF None, Nobody
<1> DEFINE from == tokens[t].owner
<1>1. /\ from \in Accounts /\ tokens[t].revealed /\ tokens[t].epoch < MaxEpoch
      /\ UNCHANGED <<drawn, idPool, requestToken, pyth, pair, minting, admin, week>>
    BY DEF Transfer, Transferable, IInv, TypeInv, Token, claims
<1>0. tokens \in [Tokens -> Token] /\ accounts \in [Accounts -> Account]
    BY DEF IInv, TypeInv
<1>2. \A u \in Tokens : /\ tokens'[u].owner = IF u = t THEN to ELSE tokens[u].owner
                        /\ tokens'[u].revealed = tokens[u].revealed
                        /\ tokens'[u].seed = tokens[u].seed
                        /\ tokens'[u].attempt = tokens[u].attempt
                        /\ u # t => tokens'[u] = tokens[u]
    BY <1>0 DEF Transfer, Token
<1>3. tokens' \in [Tokens -> Token]
    BY <1>0, <1>1 DEF Transfer, Token
<1>4. /\ accounts' \in [Accounts -> Account]
      /\ \A a \in Accounts : accounts'[a].pendingMint = accounts[a].pendingMint
      /\ LaneInv'
    <2>1. CASE from = to
        <3>1. accounts' = accounts
            BY <2>1 DEF Transfer
        <3> QED
            <4>1. /\ \A a \in Accounts, l \in 1 .. MaxOwned : accounts[a].owned[l] \in Tokens \cup {None}
                  /\ \A u \in Tokens : tokens'[u].owner = tokens[u].owner
                BY <1>0, <1>2, <2>1 DEF Account
            <4>2. LaneInv'
                BY <3>1, <4>1 DEF IInv, LaneInv
            <4> QED
                BY <1>0, <3>1, <4>2
    <2>2. CASE from # to
        <3>1. /\ FreeLanes(accounts[to].owned) # {}
              /\ accounts' = [accounts EXCEPT ![from].owned = Without(@, t), ![to].owned = With(@, t)]
            BY <2>2 DEF Transfer
        <3>2. /\ accounts[from].owned \in [1 .. MaxOwned -> Tokens \cup {None}]
              /\ accounts[to].owned \in [1 .. MaxOwned -> Tokens \cup {None}]
            BY <1>1 DEF IInv, TypeInv, Account
        <3> HIDE DEF from
        <3> DEFINE less == Without(accounts[from].owned, t)
                   more == With(accounts[to].owned, t)
        <3>3. /\ less \in [1 .. MaxOwned -> Tokens \cup {None}]
              /\ \A l \in 1 .. MaxOwned : less[l] = IF accounts[from].owned[l] = t THEN None ELSE accounts[from].owned[l]
            <4>1. PICK o \in [1 .. MaxOwned -> Tokens \cup {None}] : o = accounts[from].owned
                BY <3>2
            <4>2. /\ Without(o, t) \in [1 .. MaxOwned -> Tokens \cup {None}]
                  /\ \A l \in 1 .. MaxOwned : Without(o, t)[l] = IF o[l] = t THEN None ELSE o[l]
                BY WithoutLanes
            <4> QED
                BY <4>1, <4>2
        <3>4. more \in [1 .. MaxOwned -> Tokens \cup {None}]
            BY <3>1, <3>2, WithLanes
        <3>5. PICK k \in 1 .. MaxOwned :
                /\ accounts[to].owned[k] = None
                /\ \A l \in 1 .. MaxOwned : more[l] = IF l = k THEN t ELSE accounts[to].owned[l]
            BY <3>1, <3>2, WithLanes, ZenonT(30)
        <3> HIDE DEF less, more
        <3>6. /\ accounts' \in [Accounts -> Account]
              /\ \A a \in Accounts : /\ accounts'[a].pendingMint = accounts[a].pendingMint
                                     /\ accounts'[a].owned = IF a = from THEN less ELSE IF a = to THEN more ELSE accounts[a].owned
            <4>1. accounts' = [accounts EXCEPT ![from].owned = less, ![to].owned = more]
                BY <1>0, <1>1, <2>2, <3>1 DEF from, less, more, Account
            <4>2. from \in Accounts
                BY <1>1 DEF from
            <4>3. /\ DOMAIN accounts' = Accounts
                  /\ accounts'[from] = [accounts[from] EXCEPT !.owned = less]
                  /\ accounts'[to] = [accounts[to] EXCEPT !.owned = more]
                  /\ \A a \in Accounts \ {from, to} : accounts'[a] = accounts[a]
                BY <1>0, <2>2, <4>1, <4>2
            <4>4. /\ accounts'[from] \in Account /\ accounts'[from].pendingMint = accounts[from].pendingMint /\ accounts'[from].owned = less
                  /\ accounts'[to] \in Account /\ accounts'[to].pendingMint = accounts[to].pendingMint /\ accounts'[to].owned = more
                BY <1>0, <3>3, <3>4, <4>2, <4>3, OwnedSet
            <4>5. \A a \in Accounts : accounts'[a] \in Account
                BY <1>0, <4>3, <4>4
            <4>6. accounts' = [a \in Accounts |-> accounts'[a]]
                BY <4>1, <1>0
            <4>7. accounts' \in [Accounts -> Account]
                BY <4>5, <4>6, Zenon
            <4>8. \A a \in Accounts : /\ accounts'[a].pendingMint = accounts[a].pendingMint
                                      /\ accounts'[a].owned = IF a = from THEN less ELSE IF a = to THEN more ELSE accounts[a].owned
                BY <2>2, <4>3, <4>4
            <4> QED
                BY <4>7, <4>8
        <3>7. LaneInv'
            <4> SUFFICES ASSUME NEW a \in Accounts
                         PROVE  /\ \A l \in 1 .. MaxOwned : accounts'[a].owned[l] # None => tokens'[accounts'[a].owned[l]].owner = a
                                /\ \A u \in Tokens : tokens'[u].owner = a => \E l \in 1 .. MaxOwned : accounts'[a].owned[l] = u
                                /\ \A m, l \in 1 .. MaxOwned : accounts'[a].owned[m] = accounts'[a].owned[l] /\ accounts'[a].owned[m] # None => m = l
                BY DEF LaneInv
            <4>1. /\ \A l \in 1 .. MaxOwned : accounts[a].owned[l] \in Tokens \cup {None}
                  /\ \A l \in 1 .. MaxOwned : accounts[a].owned[l] # None => tokens[accounts[a].owned[l]].owner = a
                  /\ \A u \in Tokens : tokens[u].owner = a => \E l \in 1 .. MaxOwned : accounts[a].owned[l] = u
                  /\ \A m, l \in 1 .. MaxOwned : accounts[a].owned[m] = accounts[a].owned[l] /\ accounts[a].owned[m] # None => m = l
                <5>1. \A l \in 1 .. MaxOwned : accounts[a].owned[l] \in Tokens \cup {None}
                    BY <1>0 DEF Account
                <5> QED
                    BY <5>1 DEF IInv, LaneInv
            <4>2. tokens[t].owner = from
                BY DEF from
            <4>3. CASE a = from
                <5>1. \A l \in 1 .. MaxOwned : accounts'[a].owned[l] = IF accounts[a].owned[l] = t THEN None ELSE accounts[a].owned[l]
                    BY <3>3, <3>6, <4>3
                <5>2. \A u \in Tokens : tokens'[u].owner = a <=> tokens[u].owner = a /\ u # t
                    BY <1>2, <2>2, <4>2, <4>3
                <5> QED
                    BY <4>1, <5>1, <5>2
            <4>4. CASE a = to
                BY <1>2, <2>2, <3>5, <3>6, <4>1, <4>2, <4>4 DEF Tokens
            <4>5. CASE a # from /\ a # to
                BY <1>2, <3>6, <4>1, <4>2, <4>5
            <4> QED
                BY <4>3, <4>4, <4>5
        <3> QED
            BY <3>6, <3>7
    <2> QED
        BY <2>1, <2>2
<1>5. Unborn'
    BY <1>2 DEF IInv, Unborn
<1>6. PoolInv'
    BY <1>1, <1>2 DEF IInv, PoolInv, Remaining, PoolAt
<1>7. PendingInv'
    <2>1. /\ \A a \in Accounts : accounts'[a].pendingMint = accounts[a].pendingMint /\ accounts[a].pendingMint \in Tokens \cup {None}
          /\ \A u \in Tokens : tokens[u].owner \in Accounts \cup {Nobody}
          /\ minting' = minting /\ minting \in Tokens \cup {None}
        BY <1>0, <1>1, <1>4 DEF IInv, TypeInv, Account, Token
    <2> QED
        BY <1>1, <1>2, <2>1 DEF IInv, PendingInv
<1>8. DrawInv'
    BY <1>1, <1>2 DEF IInv, DrawInv
<1>9. BornOfLatest'
    BY <1>1, <1>2 DEF IInv, BornOfLatest
<1>10. TypeInv'
    BY <1>1, <1>3, <1>4 DEF IInv, TypeInv
<1>11. KeysInv' /\ SignerIsNotOwner'
    BY <1>1 DEF IInv, KeysInv, SignerIsNotOwner
<1> QED
    BY <1>4, <1>5, <1>6, <1>7, <1>8, <1>9, <1>10, <1>11 DEF IInv

\* mint() up to the hook draws an ID nobody has and files it in a free lane.
LEMMA MintInv ==
    ASSUME IInv, NEW a \in Accounts, NEW slot \in 0 .. MaxSupply - 1, Mint(a, slot)
    PROVE  IInv'
<1> USE SizeAssumption, NobodyAssumption DEF None, Nobody
<1> DEFINE t == PoolAt(slot)
           last == MaxSupply - drawn - 1
<1>0. /\ tokens \in [Tokens -> Token] /\ accounts \in [Accounts -> Account]
      /\ drawn \in 0 .. MaxSupply /\ idPool \in [0 .. MaxSupply - 1 -> Tokens \cup {None}]
      /\ minting = None
    BY DEF IInv, TypeInv, Mint
<1>1. /\ slot < MaxSupply - drawn
      /\ accounts[a].pendingMint = None
      /\ drawn' = drawn + 1 /\ minting' = t
      /\ UNCHANGED <<requestToken, pyth, pair, admin, week>>
      /\ idPool' = IF slot = last THEN idPool ELSE [idPool EXCEPT ![slot] = PoolAt(last)]
    BY DEF Mint, PoolAfter, claims
<1>2. slot \in Remaining /\ last \in Remaining /\ last \in 0 .. MaxSupply - 1
    BY <1>0, <1>1 DEF Remaining
<1>3. /\ t \in Tokens /\ tokens[t].owner = Nobody /\ tokens[t] = NoToken
      /\ PoolAt(last) \in Tokens
    BY <1>2 DEF IInv, PoolInv, Unborn
<1> HIDE DEF t
<1>4. /\ tokens' \in [Tokens -> Token]
      /\ tokens'[t].owner = a /\ ~tokens'[t].revealed
      /\ tokens'[t].attempt = tokens[t].attempt
      /\ \A u \in Tokens \ {t} : tokens'[u] = tokens[u]
    <2>1. tokens' = [tokens EXCEPT ![t].owner = a, ![t].epoch = @ + 1]
        BY DEF Mint, t
    <2>2. tokens[t].epoch = 0 /\ ~tokens[t].revealed
        BY <1>3 DEF NoToken
    <2>3. /\ DOMAIN tokens' = Tokens
          /\ \A u \in Tokens \ {t} : tokens'[u] = tokens[u]
        BY <1>0, <2>1
    <2>4. tokens'[t] = [[tokens[t] EXCEPT !.owner = a] EXCEPT !.epoch = tokens[t].epoch + 1]
        BY <1>0, <1>3, <2>1 DEF Token
    <2>5. tokens[t] \in Token
        BY <1>0, <1>3
    <2>6. tokens'[t] \in Token /\ tokens'[t].owner = a /\ tokens'[t].revealed = tokens[t].revealed /\ tokens'[t].attempt = tokens[t].attempt
        <3>1. tokens[t].epoch + 1 \in 0 .. MaxEpoch
            BY <2>2
        <3> QED
            BY <2>4, <2>5, <3>1 DEF Token
    <2> QED
        BY <1>0, <2>1, <2>2, <2>3, <2>6
<1>5. PICK k \in 1 .. MaxOwned :
        /\ accounts' \in [Accounts -> Account]
        /\ accounts'[a].pendingMint = t
        /\ accounts[a].owned[k] = None
        /\ \A l \in 1 .. MaxOwned : accounts'[a].owned[l] = IF l = k THEN t ELSE accounts[a].owned[l]
        /\ \A b \in Accounts \ {a} : accounts'[b] = accounts[b]
    <2>1. /\ FreeLanes(accounts[a].owned) # {} /\ accounts[a].minted < MaxMints
          /\ accounts' = [accounts EXCEPT ![a] = [pendingMint |-> t, minted |-> @.minted + 1, owned |-> With(@.owned, t)]]
        BY <1>0, SMTT(30) DEF Mint, MintLimit, t, Account
    <2> DEFINE more == With(accounts[a].owned, t)
    <2>2. accounts[a].owned \in [1 .. MaxOwned -> Tokens \cup {None}] /\ accounts[a].minted + 1 \in 0 .. MaxMints
        BY <1>0, <2>1 DEF Account
    <2>3. more \in [1 .. MaxOwned -> Tokens \cup {None}]
        BY <1>3, <2>1, <2>2, WithLanes
    <2>4. PICK k \in 1 .. MaxOwned :
            /\ accounts[a].owned[k] = None
            /\ \A l \in 1 .. MaxOwned : more[l] = IF l = k THEN t ELSE accounts[a].owned[l]
        BY <1>3, <2>1, <2>2, WithLanes
    <2>5. accounts' = [accounts EXCEPT ![a] = [pendingMint |-> t, minted |-> accounts[a].minted + 1, owned |-> more]]
        BY <1>0, <2>1
    <2> HIDE DEF more
    <2>6. accounts' \in [Accounts -> Account] /\ accounts'[a].pendingMint = t /\ accounts'[a].owned = more
          /\ \A b \in Accounts \ {a} : accounts'[b] = accounts[b]
        BY <1>0, <1>3, <2>2, <2>3, <2>5 DEF Account
    <2> QED
        BY <2>4, <2>6
<1>6. TypeInv'
    <2>1. idPool' \in [0 .. MaxSupply - 1 -> Tokens \cup {None}]
        BY <1>0, <1>1, <1>3
    <2>2. drawn' \in 0 .. MaxSupply
        BY <1>0, <1>1, SMTT(30)
    <2> QED
        BY <1>1, <1>3, <1>4, <1>5, <2>1, <2>2 DEF IInv, TypeInv
<1>7. Unborn'
    BY <1>0, <1>3, <1>4 DEF IInv, Unborn
<1>8. PoolInv'
    <2>1. Remaining' = Remaining \ {last}
        <3>1. \A u : u \in Remaining' <=> u \in Remaining /\ u # last
            <4>1. drawn' = drawn + 1 /\ drawn \in Int /\ MaxSupply \in Int
                BY <1>0, <1>1
            <4>2. MaxSupply - drawn' - 1 = last - 1 /\ last \in Int
                BY <4>1
            <4>3. Remaining = 0 .. last /\ Remaining' = 0 .. last - 1
                BY <4>2 DEF Remaining
            <4> HIDE DEF last
            <4> QED
                BY <4>2, <4>3, SMTT(30)
        <3> QED
            BY <3>1
    <2>2. \A u \in Remaining : u \in 0 .. MaxSupply - 1
        BY <1>0, SMTT(30) DEF Remaining
    <2>3. \A u \in Remaining' : PoolAt(u)' = IF u = slot THEN PoolAt(last) ELSE PoolAt(u)
        <3> SUFFICES ASSUME NEW u \in Remaining \ {last} PROVE PoolAt(u)' = IF u = slot THEN PoolAt(last) ELSE PoolAt(u)
            BY <2>1
        <3>1. idPool'[u] = IF u = slot THEN PoolAt(last) ELSE idPool[u]
            BY <1>0, <1>1, <1>2, <2>2
        <3>2. PoolAt(last) # 0
            BY <1>3 DEF Tokens
        <3> QED
            BY <3>1, <3>2 DEF PoolAt
    <2>4. \A u, v \in Remaining : PoolAt(u) = PoolAt(v) => u = v
        BY DEF IInv, PoolInv
    <2>5. \A u \in Remaining : PoolAt(u) \in Tokens /\ tokens[PoolAt(u)].owner = Nobody
        BY DEF IInv, PoolInv
    <2>6. \A v \in Tokens : tokens[v].owner = Nobody => \E u \in Remaining : PoolAt(u) = v
        BY DEF IInv, PoolInv
    <2>7. \A v \in Tokens : tokens'[v].owner = Nobody <=> tokens[v].owner = Nobody /\ v # t
        BY <1>3, <1>4
    <2>8. t = PoolAt(slot)
        BY DEF t
    <2>9. ASSUME NEW u \in Remaining'
          PROVE  PoolAt(u)' \in Tokens /\ tokens'[PoolAt(u)'].owner = Nobody
        BY <1>2, <2>1, <2>3, <2>4, <2>5, <2>7, <2>8
    <2>10. ASSUME NEW v \in Tokens, tokens'[v].owner = Nobody
           PROVE  \E u \in Remaining' : PoolAt(u)' = v
        <3>1. PICK u \in Remaining : PoolAt(u) = v
            BY <2>6, <2>7, <2>10
        <3>2. u # slot
            BY <2>7, <2>8, <2>10, <3>1
        <3>3. CASE u = last
            BY <1>2, <2>1, <2>3, <3>1, <3>2, <3>3
        <3>4. CASE u # last
            BY <2>1, <2>3, <3>1, <3>2, <3>4
        <3> QED
            BY <3>3, <3>4
    <2>11. ASSUME NEW u \in Remaining', NEW v \in Remaining', PoolAt(u)' = PoolAt(v)' PROVE u = v
        BY <1>2, <2>1, <2>3, <2>4, <2>11
    <2> QED
        BY <2>9, <2>10, <2>11 DEF PoolInv
<1>9. LaneInv'
    <2> SUFFICES ASSUME NEW b \in Accounts
                 PROVE  /\ \A l \in 1 .. MaxOwned : accounts'[b].owned[l] # None => tokens'[accounts'[b].owned[l]].owner = b
                        /\ \A u \in Tokens : tokens'[u].owner = b => \E l \in 1 .. MaxOwned : accounts'[b].owned[l] = u
                        /\ \A m, l \in 1 .. MaxOwned : accounts'[b].owned[m] = accounts'[b].owned[l] /\ accounts'[b].owned[m] # None => m = l
        BY DEF LaneInv
    <2>1. /\ \A l \in 1 .. MaxOwned : accounts[b].owned[l] \in Tokens \cup {None}
          /\ \A l \in 1 .. MaxOwned : accounts[b].owned[l] # None => tokens[accounts[b].owned[l]].owner = b
          /\ \A u \in Tokens : tokens[u].owner = b => \E l \in 1 .. MaxOwned : accounts[b].owned[l] = u
          /\ \A m, l \in 1 .. MaxOwned : accounts[b].owned[m] = accounts[b].owned[l] /\ accounts[b].owned[m] # None => m = l
        <3>1. \A l \in 1 .. MaxOwned : accounts[b].owned[l] \in Tokens \cup {None}
            <4>1. accounts[b] \in Account
                BY <1>0
            <4> QED
                BY <4>1 DEF Account
        <3> QED
            BY <3>1 DEF IInv, LaneInv
    <2>2. \A l \in 1 .. MaxOwned : accounts[b].owned[l] # t
        BY <1>3, <2>1 DEF Tokens
    <2>3. CASE b = a
        <3>1. \A l \in 1 .. MaxOwned : accounts'[b].owned[l] = IF l = k THEN t ELSE accounts[b].owned[l]
            BY <1>5, <2>3
        <3>2. accounts[b].owned[k] = None /\ t # None
            BY <1>3, <1>5, <2>3 DEF Tokens
        <3>3. \A u \in Tokens : tokens'[u].owner = b <=> tokens[u].owner = b \/ u = t
            BY <1>3, <1>4, <2>3
        <3> QED
            <4>1. ASSUME NEW l \in 1 .. MaxOwned, accounts'[b].owned[l] # None
                  PROVE  tokens'[accounts'[b].owned[l]].owner = b
                BY <1>3, <2>1, <3>1, <3>3, <4>1
            <4>2. ASSUME NEW u \in Tokens, tokens'[u].owner = b
                  PROVE  \E l \in 1 .. MaxOwned : accounts'[b].owned[l] = u
                <5>1. CASE u = t
                    BY <3>1, <5>1
                <5>2. CASE u # t
                    <6>1. PICK l \in 1 .. MaxOwned : accounts[b].owned[l] = u
                        BY <2>1, <3>3, <4>2, <5>2
                    <6>2. l # k
                        BY <3>2, <6>1 DEF Tokens
                    <6> QED
                        BY <3>1, <6>1, <6>2
                <5> QED
                    BY <5>1, <5>2
            <4>3. ASSUME NEW m \in 1 .. MaxOwned, NEW l \in 1 .. MaxOwned,
                         accounts'[b].owned[m] = accounts'[b].owned[l], accounts'[b].owned[m] # None
                  PROVE  m = l
                BY <2>1, <2>2, <3>1, <4>3
            <4> QED
                BY <4>1, <4>2, <4>3
    <2>4. CASE b # a
        BY <1>3, <1>4, <1>5, <2>1, <2>2, <2>4
    <2> QED
        BY <2>3, <2>4
<1>10. PendingInv'
    <2>1. \A b \in Accounts : accounts[b].pendingMint \in Tokens \cup {None}
        BY <1>0 DEF Account
    <2>2. \A u \in Tokens : tokens[u].owner \in Accounts \cup {Nobody}
        BY <1>0 DEF Token
    <2>3. ASSUME NEW b \in Accounts, accounts'[b].pendingMint # None
          PROVE  tokens'[accounts'[b].pendingMint].owner = b /\ ~tokens'[accounts'[b].pendingMint].revealed
        BY <1>3, <1>4, <1>5, <2>1, <2>3 DEF IInv, PendingInv
    <2>4. ASSUME NEW u \in Tokens, tokens'[u].owner # Nobody, ~tokens'[u].revealed
          PROVE  accounts'[tokens'[u].owner].pendingMint = u
        <3>1. CASE u = t
            BY <1>4, <1>5, <3>1
        <3>2. CASE u # t
            <4>1. accounts[tokens[u].owner].pendingMint = u /\ tokens'[u] = tokens[u]
                BY <1>4, <2>4, <3>2 DEF IInv, PendingInv
            <4>2. tokens[u].owner # a /\ tokens[u].owner \in Accounts
                BY <1>1, <1>4, <2>2, <2>4, <3>2, <4>1 DEF Tokens
            <4> QED
                BY <1>5, <4>1, <4>2
        <3> QED
            BY <3>1, <3>2
    <2>5. tokens'[t].attempt = 0 /\ a # Nobody
        BY <1>3, <1>4 DEF NoToken
    <2>6. minting' # None => tokens'[minting'].owner # Nobody /\ ~tokens'[minting'].revealed /\ tokens'[minting'].attempt = 0
        BY <1>1, <1>4, <2>5
    <2> QED
        BY <2>3, <2>4, <2>6 DEF PendingInv
<1>11. DrawInv'
    <2>1. ASSUME NEW p \in Pairs, NEW n \in 1 .. MaxSequence, requestToken[p][n] # NoRequest
          PROVE  requestToken[p][n].token # t
        BY <1>3, <2>1 DEF IInv, DrawInv
    <2> QED
        BY <1>1, <1>4, <2>1 DEF IInv, DrawInv
<1>12. BornOfLatest'
    BY <1>4 DEF IInv, BornOfLatest
<1>13. KeysInv' /\ SignerIsNotOwner'
    BY <1>1 DEF IInv, KeysInv, SignerIsNotOwner
<1> QED
    BY <1>6, <1>7, <1>8, <1>9, <1>10, <1>11, <1>12, <1>13 DEF IInv

\* A request is filed under a fresh sequence as the token's latest.
LEMMA RequestInv ==
    ASSUME IInv, NEW t \in Tokens, tokens[t].owner # Nobody, ~tokens[t].revealed, RequestBirth(t)
    PROVE  /\ tokens' \in [Tokens -> Token]
           /\ requestToken' \in [Pairs -> [1 .. MaxSequence -> Request]]
           /\ pyth' \in [waiting : SUBSET Delivery, next : [Pairs -> Nat \ {0}]]
           /\ \A u \in Tokens : /\ tokens'[u].owner = tokens[u].owner
                                /\ tokens'[u].revealed = tokens[u].revealed
                                /\ u # t => tokens'[u] = tokens[u]
           /\ DrawInv' /\ BornOfLatest'
<1> USE SizeAssumption, NobodyAssumption DEF None, Nobody
<1> DEFINE seq == pyth.next[pair]
           request == [token |-> t, attempt |-> tokens[t].attempt + 1]
<1>0. /\ tokens \in [Tokens -> Token] /\ requestToken \in [Pairs -> [1 .. MaxSequence -> Request]]
      /\ pyth \in [waiting : SUBSET Delivery, next : [Pairs -> Nat \ {0}]] /\ pair \in Pairs
    BY DEF IInv, TypeInv
<1>1. seq \in 1 .. MaxSequence /\ requestToken[pair][seq] = NoRequest
    BY <1>0 DEF RequestBirth
<1>2. request \in Request /\ request # NoRequest /\ request.token = t /\ request.attempt = tokens[t].attempt + 1 /\ tokens[t].attempt \in Nat
    BY <1>0, SMTT(30) DEF Request, NoRequest, Tokens, Token
<1> HIDE DEF seq, request
<1>3. /\ requestToken' = [requestToken EXCEPT ![pair][seq] = request]
      /\ tokens' = [tokens EXCEPT ![t].sequence = seq, ![t].attempt = request.attempt]
      /\ pyth' = [waiting |-> pyth.waiting \cup {[pair |-> pair, sequence |-> seq, request |-> request]},
                  next |-> [pyth.next EXCEPT ![pair] = @ + 1]]
    BY DEF RequestBirth, seq, request
<1>4. /\ tokens' \in [Tokens -> Token]
      /\ tokens'[t].attempt = tokens[t].attempt + 1
      /\ \A u \in Tokens : /\ tokens'[u].owner = tokens[u].owner
                           /\ tokens'[u].revealed = tokens[u].revealed
                           /\ u # t => tokens'[u] = tokens[u]
    <2>1. /\ DOMAIN tokens' = Tokens
          /\ \A u \in Tokens \ {t} : tokens'[u] = tokens[u]
        BY <1>0, <1>3
    <2>2. tokens'[t] = [[tokens[t] EXCEPT !.sequence = seq] EXCEPT !.attempt = request.attempt]
        BY <1>0, <1>3 DEF Token
    <2>3. tokens[t] \in Token /\ seq \in 0 .. MaxSequence /\ request.attempt \in Nat
        BY <1>0, <1>1, <1>2, SMTT(30)
    <2>4. /\ tokens'[t] \in Token /\ tokens'[t].attempt = request.attempt
          /\ tokens'[t].owner = tokens[t].owner /\ tokens'[t].revealed = tokens[t].revealed
        BY <2>2, <2>3 DEF Token
    <2>5. tokens' = [u \in Tokens |-> tokens'[u]]
        BY <1>0, <1>3
    <2> QED
        BY <1>0, <1>2, <2>1, <2>4, <2>5
<1>5. /\ requestToken' \in [Pairs -> [1 .. MaxSequence -> Request]]
      /\ \A p \in Pairs, n \in 1 .. MaxSequence :
            requestToken'[p][n] = IF p = pair /\ n = seq THEN request ELSE requestToken[p][n]
    BY <1>0, <1>1, <1>2, <1>3
<1>6. /\ pyth' \in [waiting : SUBSET Delivery, next : [Pairs -> Nat \ {0}]]
      /\ \A p \in Pairs : pyth'.next[p] = IF p = pair THEN seq + 1 ELSE pyth.next[p]
      /\ pyth'.waiting = pyth.waiting \cup {[pair |-> pair, sequence |-> seq, request |-> request]}
    <2>1. [pair |-> pair, sequence |-> seq, request |-> request] \in Delivery
        BY <1>0, <1>1, <1>2 DEF Delivery
    <2> QED
        BY <1>0, <1>1, <1>3, <2>1 DEF seq
<1>7. DrawInv'
    <2>1. ASSUME NEW p \in Pairs, NEW n \in 1 .. MaxSequence, requestToken'[p][n] # NoRequest
          PROVE  /\ n < pyth'.next[p]
                 /\ requestToken'[p][n].token \in Tokens
                 /\ tokens'[requestToken'[p][n].token].owner # Nobody
                 /\ requestToken'[p][n].attempt \in 1 .. tokens'[requestToken'[p][n].token].attempt
        <3>1. CASE p = pair /\ n = seq
            <4>1. requestToken'[p][n] = request /\ pyth'.next[p] = seq + 1
                BY <1>5, <1>6, <3>1
            <4>2. /\ tokens'[t].owner # Nobody
                  /\ request.attempt = tokens'[t].attempt /\ request.attempt \in Nat \ {0}
                BY <1>2, <1>4
            <4>3. n < seq + 1
                BY <3>1
            <4> QED
                BY <1>2, <4>1, <4>2, <4>3
        <3>2. CASE ~(p = pair /\ n = seq)
            <4>1. /\ n < pyth.next[p]
                  /\ requestToken[p][n].token \in Tokens
                  /\ tokens[requestToken[p][n].token].owner # Nobody
                  /\ requestToken[p][n].attempt \in 1 .. tokens[requestToken[p][n].token].attempt
                BY <1>5, <2>1, <3>2 DEF IInv, DrawInv
            <4>2. requestToken[p][n].attempt \in Nat
                BY <1>0 DEF Request
            <4>3. n < pyth'.next[p]
                BY <1>1, <1>6, <4>1 DEF seq
            <4>4. requestToken'[p][n] = requestToken[p][n]
                BY <1>5, <3>2
            <4>5. \A u \in Tokens : tokens[u].attempt \in Nat /\ tokens'[u].attempt >= tokens[u].attempt
                <5>1. \A u \in Tokens : tokens[u].attempt \in Nat
                    BY <1>0 DEF Token
                <5> QED
                    BY <1>4, <5>1
            <4>6. tokens'[requestToken[p][n].token].attempt \in Nat
                BY <1>4, <4>1 DEF Token
            <4> QED
                BY <1>4, <4>1, <4>2, <4>3, <4>4, <4>5, <4>6
        <3> QED
            BY <3>1, <3>2
    <2>2. ASSUME NEW p \in Pairs, NEW n \in 1 .. MaxSequence, requestToken[p][n] # NoRequest
          PROVE  requestToken[p][n] # request
        <3>1. requestToken[p][n].attempt \in 1 .. tokens[requestToken[p][n].token].attempt
            BY <2>2 DEF IInv, DrawInv
        <3> QED
            BY <1>2, <3>1
    <2>3. ASSUME NEW p \in Pairs, NEW q \in Pairs, NEW n \in 1 .. MaxSequence, NEW m \in 1 .. MaxSequence,
                 requestToken'[p][n] = requestToken'[q][m], requestToken'[p][n] # NoRequest
          PROVE  p = q /\ n = m
        <3>1. CASE requestToken'[p][n] = request
            <4>1. \A v \in Pairs, j \in 1 .. MaxSequence : requestToken'[v][j] = request => v = pair /\ j = seq
                <5> SUFFICES ASSUME NEW v \in Pairs, NEW j \in 1 .. MaxSequence, ~(v = pair /\ j = seq)
                             PROVE  requestToken'[v][j] # request
                    OBVIOUS
                <5>1. requestToken'[v][j] = requestToken[v][j]
                    BY <1>5
                <5> QED
                    BY <1>2, <2>2, <5>1
            <4> QED
                BY <2>3, <3>1, <4>1
        <3>2. CASE requestToken'[p][n] # request
            <4>1. requestToken'[p][n] = requestToken[p][n] /\ requestToken'[q][m] = requestToken[q][m]
                BY <1>5, <2>3, <3>2
            <4> QED
                <5>1. \A v, w \in Pairs, i, j \in 1 .. MaxSequence :
                        requestToken[v][i] = requestToken[w][j] /\ requestToken[v][i] # NoRequest => v = w /\ i = j
                    BY DEF IInv, DrawInv
                <5>2. requestToken[p][n] = requestToken[q][m] /\ requestToken[p][n] # NoRequest
                    BY <2>3, <4>1
                <5> QED
                    BY <5>1, <5>2
        <3> QED
            BY <3>1, <3>2
    <2>4. ASSUME NEW r \in pyth'.waiting
          PROVE  requestToken'[r.pair][r.sequence] = r.request /\ r.request # NoRequest
        <3>1. CASE r \in pyth.waiting
            <4>1. r.pair \in Pairs /\ r.sequence \in 1 .. MaxSequence
                BY <1>0, <3>1 DEF Delivery
            <4>2. requestToken[r.pair][r.sequence] = r.request /\ r.request # NoRequest
                BY <3>1 DEF IInv, DrawInv
            <4> QED
                BY <1>1, <1>5, <4>1, <4>2
        <3>2. CASE r = [pair |-> pair, sequence |-> seq, request |-> request]
            BY <1>0, <1>1, <1>2, <1>5, <3>2
        <3> QED
            BY <1>6, <2>4, <3>1, <3>2
    <2> QED
        BY <2>1, <2>3, <2>4 DEF DrawInv
<1>8. BornOfLatest'
    BY <1>4 DEF IInv, BornOfLatest
<1> QED
    BY <1>4, <1>5, <1>6, <1>7, <1>8

\* The request of a fresh mint and a repeated request differ only in who asks.
LEMMA AskInv ==
    ASSUME IInv, NEW t \in Tokens, tokens[t].owner # Nobody, ~tokens[t].revealed, RequestBirth(t),
           UNCHANGED <<accounts, drawn, idPool, pair, admin, week>>, minting' = None
    PROVE  IInv'
<1> USE DEF None, Nobody
<1>1. /\ tokens' \in [Tokens -> Token]
      /\ requestToken' \in [Pairs -> [1 .. MaxSequence -> Request]]
      /\ pyth' \in [waiting : SUBSET Delivery, next : [Pairs -> Nat \ {0}]]
      /\ \A u \in Tokens : /\ tokens'[u].owner = tokens[u].owner
                           /\ tokens'[u].revealed = tokens[u].revealed
                           /\ u # t => tokens'[u] = tokens[u]
      /\ DrawInv' /\ BornOfLatest'
    BY RequestInv
<1>2. TypeInv'
    BY <1>1 DEF IInv, TypeInv
<1>3. Unborn'
    BY <1>1 DEF IInv, Unborn
<1>4. PoolInv'
    <2>1. Remaining' = Remaining /\ \A u : PoolAt(u)' = PoolAt(u)
        BY DEF Remaining, PoolAt
    <2> QED
        BY <1>1, <2>1 DEF IInv, PoolInv
<1>5. LaneInv'
    <2>1. \A a \in Accounts, l \in 1 .. MaxOwned : accounts[a].owned[l] \in Tokens \cup {None}
        <3>1. accounts \in [Accounts -> Account]
            BY DEF IInv, TypeInv
        <3> QED
            BY <3>1 DEF Account
    <2>2. \A u \in Tokens : tokens'[u].owner = tokens[u].owner
        BY <1>1
    <2>3. accounts' = accounts
        OBVIOUS
    <2>4. LaneInv
        BY DEF IInv
    <2> QED
        BY <2>1, <2>2, <2>3, <2>4 DEF LaneInv
<1>6. PendingInv'
    <2>1. \A a \in Accounts : accounts[a].pendingMint \in Tokens \cup {None}
        BY DEF IInv, TypeInv, Account
    <2> QED
        BY <1>1, <2>1 DEF IInv, PendingInv
<1>7. KeysInv' /\ SignerIsNotOwner'
    BY DEF IInv, KeysInv, SignerIsNotOwner
<1> QED
    BY <1>1, <1>2, <1>3, <1>4, <1>5, <1>6, <1>7 DEF IInv

LEMMA FinishMintInv ==
    ASSUME IInv, FinishMint PROVE IInv'
<1>1. minting \in Tokens /\ tokens[minting].owner # Nobody /\ ~tokens[minting].revealed
    BY DEF FinishMint, IInv, TypeInv, PendingInv
<1> QED
    BY <1>1, AskInv DEF FinishMint

LEMMA RerequestInv ==
    ASSUME IInv, NEW a \in Accounts, RerequestBirth(a) PROVE IInv'
<1> DEFINE t == accounts[a].pendingMint
<1>1. t \in Tokens /\ tokens[t].owner = a /\ ~tokens[t].revealed
    <2>1. t \in Tokens \cup {None} /\ t # None
        BY DEF RerequestBirth, IInv, TypeInv, Account
    <2> QED
        BY <2>1 DEF IInv, PendingInv
<1>2. tokens[t].owner # Nobody
    BY <1>1, NobodyAssumption DEF Nobody
<1>3. RequestBirth(t) /\ UNCHANGED <<accounts, drawn, idPool, pair, admin, week>> /\ minting' = None
    BY DEF RerequestBirth
<1> HIDE DEF t
<1> QED
    BY <1>1, <1>2, <1>3, AskInv

\* The callback reveals the token with the randomness of its latest request.
LEMMA CallbackInv ==
    ASSUME IInv, NEW r \in pyth.waiting, EntropyCallback(r) PROVE IInv'
<1> USE SizeAssumption, NobodyAssumption DEF None, Nobody
<1> DEFINE t == requestToken[pair][r.sequence].token
           a == tokens[t].owner
<1>0. /\ tokens \in [Tokens -> Token] /\ accounts \in [Accounts -> Account]
      /\ requestToken \in [Pairs -> [1 .. MaxSequence -> Request]]
      /\ pyth \in [waiting : SUBSET Delivery, next : [Pairs -> Nat \ {0}]] /\ pair \in Pairs
      /\ minting \in Tokens \cup {None}
    BY DEF IInv, TypeInv
<1>1. r \in Delivery /\ r.pair = pair /\ r.sequence \in 1 .. MaxSequence /\ r.request \in Request
    BY <1>0 DEF EntropyCallback, Deliverable, Delivery
<1>2. requestToken[pair][r.sequence] = r.request /\ r.request # NoRequest
    BY <1>1 DEF IInv, DrawInv
<1>3. /\ t \in Tokens /\ ~tokens[t].revealed /\ a # Nobody
      /\ r.request.attempt = tokens[t].attempt
    BY <1>0, <1>1, <1>2 DEF EntropyCallback, Deliverable, IInv, DrawInv
<1>4. r.request = [token |-> t, attempt |-> tokens[t].attempt]
    BY <1>1, <1>2, <1>3 DEF Request
<1>5. a \in Accounts /\ accounts[a].pendingMint = t
    <2>1. a \in Accounts \cup {Nobody}
        BY <1>0, <1>3 DEF Token
    <2>2. accounts[a].pendingMint = t
        BY <1>3 DEF IInv, PendingInv
    <2> QED
        BY <1>3, <2>1, <2>2
<1>6. /\ requestToken' = [requestToken EXCEPT ![pair][r.sequence] = NoRequest]
      /\ tokens' = [tokens EXCEPT ![t].seed = r.request, ![t].revealed = TRUE]
      /\ accounts' = [accounts EXCEPT ![a].pendingMint = None]
      /\ pyth' = [pyth EXCEPT !.waiting = @ \ {r}]
      /\ UNCHANGED <<drawn, idPool, pair, minting, admin, week>>
    BY DEF EntropyCallback, claims
<1> HIDE DEF t, a
<1>7. /\ tokens' \in [Tokens -> Token]
      /\ tokens'[t].owner = a /\ tokens'[t].revealed /\ tokens'[t].seed = r.request /\ tokens'[t].attempt = tokens[t].attempt
      /\ \A u \in Tokens \ {t} : tokens'[u] = tokens[u]
    <2>1. \A u \in Tokens \ {t} : tokens'[u] = tokens[u]
        BY <1>0, <1>6
    <2>2. tokens'[t] = [[tokens[t] EXCEPT !.seed = r.request] EXCEPT !.revealed = TRUE]
        BY <1>0, <1>3, <1>6 DEF Token
    <2>3. tokens[t] \in Token /\ tokens[t].owner = a
        BY <1>0, <1>3 DEF a
    <2>4. /\ tokens'[t] \in Token /\ tokens'[t].owner = a /\ tokens'[t].revealed
          /\ tokens'[t].seed = r.request /\ tokens'[t].attempt = tokens[t].attempt
        BY <1>1, <2>2, <2>3 DEF Token
    <2>5. tokens' = [u \in Tokens |-> tokens'[u]]
        BY <1>0, <1>6
    <2> QED
        BY <1>0, <2>1, <2>4, <2>5
<1>8. /\ accounts' \in [Accounts -> Account]
      /\ accounts'[a].pendingMint = None
      /\ \A b \in Accounts : accounts'[b].owned = accounts[b].owned /\ (b # a => accounts'[b] = accounts[b])
    <2>1. accounts' = [accounts EXCEPT ![a].pendingMint = None]
        BY <1>6
    <2>2. accounts[a] \in Account
        BY <1>0, <1>5
    <2> QED
        BY <1>0, <1>5, <2>1, <2>2 DEF Account
<1>9. /\ requestToken' \in [Pairs -> [1 .. MaxSequence -> Request]]
      /\ \A p \in Pairs, n \in 1 .. MaxSequence :
            requestToken'[p][n] = IF p = pair /\ n = r.sequence THEN NoRequest ELSE requestToken[p][n]
    <2>1. NoRequest \in Request
        BY DEF NoRequest, Request
    <2> QED
        BY <1>0, <1>1, <1>6, <2>1
<1>10. /\ pyth' \in [waiting : SUBSET Delivery, next : [Pairs -> Nat \ {0}]]
       /\ pyth'.next = pyth.next /\ pyth'.waiting = pyth.waiting \ {r}
    BY <1>0, <1>6
<1>11. \A u \in Tokens : tokens'[u].owner = tokens[u].owner /\ tokens'[u].attempt = tokens[u].attempt
    BY <1>7 DEF a
<1>12. TypeInv'
    BY <1>6, <1>7, <1>8, <1>9, <1>10 DEF IInv, TypeInv
<1>13. Unborn'
    BY <1>5, <1>7 DEF IInv, Unborn
<1>14. PoolInv'
    BY <1>6, <1>11, ZenonT(30) DEF IInv, PoolInv, Remaining, PoolAt
<1>15. LaneInv'
    <2>1. \A b \in Accounts, l \in 1 .. MaxOwned : accounts[b].owned[l] \in Tokens \cup {None}
        BY <1>0 DEF Account
    <2> QED
        BY <1>8, <1>11, <2>1 DEF IInv, LaneInv
<1>16. PendingInv'
    <2>1. \A b \in Accounts : accounts[b].pendingMint \in Tokens \cup {None}
        BY <1>0 DEF Account
    <2>2. \A u \in Tokens : tokens[u].owner \in Accounts \cup {Nobody}
        BY <1>0 DEF Token
    <2>3. ASSUME NEW b \in Accounts, accounts'[b].pendingMint # None
          PROVE  tokens'[accounts'[b].pendingMint].owner = b /\ ~tokens'[accounts'[b].pendingMint].revealed
        <3>1. b # a /\ accounts'[b].pendingMint = accounts[b].pendingMint
            BY <1>8, <2>3
        <3>2. tokens[accounts[b].pendingMint].owner = b /\ ~tokens[accounts[b].pendingMint].revealed
            BY <2>3, <3>1 DEF IInv, PendingInv
        <3>3. accounts[b].pendingMint # t
            BY <3>1, <3>2 DEF a
        <3> QED
            BY <1>7, <2>1, <2>3, <3>1, <3>2, <3>3
    <2>4. ASSUME NEW u \in Tokens, tokens'[u].owner # Nobody, ~tokens'[u].revealed
          PROVE  accounts'[tokens'[u].owner].pendingMint = u
        <3>1. u # t /\ tokens'[u] = tokens[u]
            BY <1>7, <2>4
        <3>2. accounts[tokens[u].owner].pendingMint = u
            BY <2>4, <3>1 DEF IInv, PendingInv
        <3>3. tokens[u].owner # a
            BY <1>5, <3>1, <3>2
        <3> QED
            BY <1>8, <2>2, <2>4, <3>1, <3>2, <3>3
    <2>5. minting # None => minting # t
        <3>1. r.request.attempt \in 1 .. tokens[t].attempt
            BY <1>0, <1>1, <1>2 DEF IInv, DrawInv, t
        <3> QED
            BY <1>0, <1>3, <3>1 DEF IInv, PendingInv, Token
    <2>6. minting' # None => tokens'[minting'].owner # Nobody /\ ~tokens'[minting'].revealed /\ tokens'[minting'].attempt = 0
        BY <1>0, <1>6, <1>7, <2>5 DEF IInv, PendingInv
    <2> QED
        BY <2>3, <2>4, <2>6 DEF PendingInv
<1>17. DrawInv'
    <2>1. ASSUME NEW s \in pyth'.waiting
          PROVE  requestToken'[s.pair][s.sequence] = s.request /\ s.request # NoRequest
        <3>1. s \in pyth.waiting /\ s # r /\ s \in Delivery
            BY <1>0, <1>10
        <3>2. requestToken[s.pair][s.sequence] = s.request /\ s.request # NoRequest
            BY <3>1 DEF IInv, DrawInv
        <3>3. ~(s.pair = pair /\ s.sequence = r.sequence)
            BY <1>1, <1>2, <3>1, <3>2 DEF Delivery
        <3> QED
            BY <1>9, <3>1, <3>2, <3>3 DEF Delivery
    <2>2. \A p \in Pairs, n \in 1 .. MaxSequence : requestToken'[p][n] # NoRequest => requestToken'[p][n] = requestToken[p][n]
        BY <1>9
    <2> QED
        BY <1>10, <1>11, <2>1, <2>2, SMTT(30) DEF IInv, DrawInv
<1>18. BornOfLatest'
    BY <1>4, <1>7 DEF IInv, BornOfLatest
<1>19. KeysInv' /\ SignerIsNotOwner'
    BY <1>6 DEF IInv, KeysInv, SignerIsNotOwner
<1> QED
    BY <1>12, <1>13, <1>14, <1>15, <1>16, <1>17, <1>18, <1>19 DEF IInv

\* Nothing else touches births, lanes or requests.
LEMMA FrameInv ==
    ASSUME IInv, UNCHANGED <<accounts, births, minting>>, pair' \in Pairs, week' \in 0 .. MaxWeek,
           KeysInv', SignerIsNotOwner'
    PROVE  IInv'
<1> USE DEF births
<1>1. TypeInv'
    BY DEF IInv, TypeInv
<1>2. PoolInv'
    <2>1. Remaining' = Remaining /\ \A u : PoolAt(u)' = PoolAt(u)
        BY DEF Remaining, PoolAt
    <2> QED
        BY <2>1 DEF IInv, PoolInv
<1>3. Unborn' /\ LaneInv' /\ PendingInv'
    BY DEF IInv, Unborn, LaneInv, PendingInv
<1>4. DrawInv' /\ BornOfLatest'
    BY DEF IInv, DrawInv, BornOfLatest
<1> QED
    BY <1>1, <1>2, <1>3, <1>4 DEF IInv

\* The owner's calls leave the keys apart.
LEMMA AdministerInv ==
    ASSUME IInv, NEW new, Administer(new),
           new \in [owner : Keys \cup {Nobody}, pendingOwner : Keys \cup {Nobody}, signer : Keys, mintPaused : BOOLEAN],
           new.signer # new.owner
    PROVE  IInv'
<1>1. KeysInv' /\ SignerIsNotOwner'
    BY DEF Administer, KeysInv, SignerIsNotOwner
<1>2. pair' \in Pairs /\ week' \in 0 .. MaxWeek
    BY DEF Administer, IInv, TypeInv
<1> QED
    BY <1>1, <1>2, FrameInv DEF Administer

LEMMA NextInv == IInv /\ [Next]_vars => IInv'
<1> SUFFICES ASSUME IInv, [Next]_vars PROVE IInv'
    OBVIOUS
<1>0. /\ pair \in Pairs /\ week \in 0 .. MaxWeek
      /\ admin \in [owner : Keys \cup {Nobody}, pendingOwner : Keys \cup {Nobody}, signer : Keys, mintPaused : BOOLEAN]
      /\ admin.signer # admin.owner
    BY DEF IInv, TypeInv, KeysInv, SignerIsNotOwner
<1>1. CASE UNCHANGED vars
    BY <1>0, <1>1, FrameInv DEF vars, IInv, KeysInv, SignerIsNotOwner
<1>2. ASSUME NEW t \in Tokens, NEW to \in Accounts, Transfer(t, to) PROVE IInv'
    BY <1>2, TransferInv
<1>3. ASSUME NEW a \in Accounts, RerequestBirth(a) PROVE IInv'
    BY <1>3, RerequestInv
<1>4. ASSUME NEW a \in Accounts, NEW slot \in 0 .. MaxSupply - 1, Mint(a, slot) PROVE IInv'
    BY <1>4, MintInv
<1>5. CASE FinishMint
    BY <1>5, FinishMintInv
<1>6. ASSUME NEW r \in pyth.waiting, EntropyCallback(r) PROVE IInv'
    BY <1>6, CallbackInv
<1>7. ASSUME NEW rs, NEW hs, Claim(rs, hs) PROVE IInv'
    <2>1. UNCHANGED <<accounts, births, pair, minting, admin, week>>
        BY <1>7 DEF Claim
    <2> QED
        BY <1>0, <2>1, FrameInv DEF IInv, KeysInv, SignerIsNotOwner
<1>8. CASE OpenMint
    <2>1. UNCHANGED <<accounts, births, pair, minting, week>> /\ admin' = [admin EXCEPT !.mintPaused = FALSE]
        BY <1>8 DEF OpenMint
    <2>2. KeysInv' /\ SignerIsNotOwner'
        BY <1>0, <2>1 DEF KeysInv, SignerIsNotOwner
    <2> QED
        BY <1>0, <2>1, <2>2, FrameInv
<1>9. CASE PauseMint
    <2>1. Administer([admin EXCEPT !.mintPaused = TRUE])
        BY <1>9 DEF PauseMint
    <2> QED
        BY <1>0, <2>1, AdministerInv
<1>10. CASE AcceptOwnership
    <2>1. /\ Administer([admin EXCEPT !.owner = admin.pendingOwner, !.pendingOwner = Nobody])
          /\ admin.pendingOwner # admin.signer
        BY <1>10 DEF AcceptOwnership, MayOwn
    <2> QED
        BY <1>0, <2>1, AdministerInv
<1>11. CASE RenounceOwnership
    <2>1. Administer([admin EXCEPT !.owner = Nobody, !.pendingOwner = Nobody])
        BY <1>11 DEF RenounceOwnership
    <2>2. admin.signer # Nobody
        BY <1>0, NobodyAssumption DEF Nobody
    <2> QED
        BY <1>0, <2>1, <2>2, AdministerInv
<1>12. ASSUME NEW k \in Keys, SetResultSigner(k) PROVE IInv'
    <2>1. Administer([admin EXCEPT !.signer = k]) /\ k # admin.owner
        BY <1>12 DEF SetResultSigner
    <2> QED
        BY <1>0, <2>1, AdministerInv
<1>13. ASSUME NEW k \in Keys, TransferOwnership(k) PROVE IInv'
    <2>1. Administer([admin EXCEPT !.pendingOwner = k])
        BY <1>13 DEF TransferOwnership
    <2> QED
        BY <1>0, <2>1, AdministerInv
<1>14. ASSUME NEW p \in Pairs, Upgrade(p) PROVE IInv'
    <2>1. UNCHANGED <<accounts, births, minting, admin, week>> /\ pair' = p
        BY <1>14 DEF Upgrade
    <2> QED
        BY <1>0, <2>1, FrameInv DEF IInv, KeysInv, SignerIsNotOwner
<1>15. CASE SealWeek
    <2>1. UNCHANGED <<accounts, births, pair, minting, admin>> /\ week' = week + 1 /\ week < MaxWeek
        BY <1>15 DEF SealWeek
    <2>2. week' \in 0 .. MaxWeek
        BY <1>0, <2>1, SizeAssumption
    <2> QED
        BY <1>0, <2>1, <2>2, FrameInv DEF IInv, KeysInv, SignerIsNotOwner
<1> QED
    BY <1>1, <1>2, <1>3, <1>4, <1>5, <1>6, <1>7, <1>8, <1>9, <1>10, <1>11, <1>12, <1>13, <1>14, <1>15 DEF Next

\* The inductive invariant holds in every reachable state.
THEOREM Invariance == Spec => []IInv
BY InitInv, NextInv, PTL DEF Spec

-----------------------------------------------------------------------------
(* What the invariant gives.                                               *)

\* The remaining slots count the unminted IDs.
LEMMA PoolCount == IInv => PoolExact
<1> SUFFICES ASSUME IInv PROVE PoolExact
    OBVIOUS
<1> USE SizeAssumption
<1>0. drawn \in 0 .. MaxSupply
    BY DEF IInv, TypeInv
<1> DEFINE at == [u \in Remaining |-> PoolAt(u)]
           left == {at[u] : u \in Remaining}
<1>1. IsFiniteSet(Remaining) /\ Cardinality(Remaining) = MaxSupply - drawn
    <2>1. 0 \in Int /\ MaxSupply - drawn - 1 \in Int /\ MaxSupply - drawn >= 0
        BY <1>0
    <2>2. IsFiniteSet(Remaining) /\ Cardinality(Remaining) = IF 0 > MaxSupply - drawn - 1 THEN 0 ELSE MaxSupply - drawn - 1 - 0 + 1
        BY <2>1, FS_Interval DEF Remaining
    <2> QED
        BY <1>0, <2>1, <2>2
<1>2. \A u, v \in Remaining : at[u] = at[v] => u = v
    BY DEF IInv, PoolInv
<1>3. Cardinality(left) = MaxSupply - drawn
    <2> HIDE DEF at
    <2> QED
        BY <1>1, <1>2, CountImage
<1>4. left = {PoolAt(u) : u \in 0 .. MaxSupply - drawn - 1}
    BY DEF Remaining
<1>5. left = {t \in Tokens : tokens[t].owner = Nobody}
    BY DEF IInv, PoolInv
<1> HIDE DEF left
<1> QED
    BY <1>3, <1>4, <1>5 DEF PoolExact

\* The taken lanes count the tokens held.
LEMMA LaneCount == IInv => LanesExact
<1> SUFFICES ASSUME IInv, NEW a \in Accounts
             PROVE  /\ Owned(a) = {t \in Tokens : tokens[t].owner = a}
                    /\ Cardinality(Owned(a)) + Cardinality(FreeLanes(accounts[a].owned)) = MaxOwned
    BY DEF LanesExact
<1> USE SizeAssumption
<1> DEFINE owned == accounts[a].owned
           Taken == {l \in 1 .. MaxOwned : owned[l] # None}
           Free == FreeLanes(owned)
<1>1. \A l \in 1 .. MaxOwned : owned[l] \in Tokens \cup {None}
    <2>1. accounts \in [Accounts -> Account]
        BY DEF IInv, TypeInv
    <2> QED
        BY <2>1 DEF Account
<1>2. /\ \A l \in 1 .. MaxOwned : owned[l] # None => tokens[owned[l]].owner = a
      /\ \A t \in Tokens : tokens[t].owner = a => \E l \in 1 .. MaxOwned : owned[l] = t
      /\ \A k, l \in 1 .. MaxOwned : owned[k] = owned[l] /\ owned[k] # None => k = l
    BY DEF IInv, LaneInv
<1>3. Owned(a) = {owned[l] : l \in Taken}
    BY DEF Owned
<1>4. Owned(a) = {t \in Tokens : tokens[t].owner = a}
    <2>1. ASSUME NEW t \in Tokens, tokens[t].owner = a PROVE t \in Owned(a)
        <3>1. t # None
            BY DEF Tokens, None
        <3> QED
            BY <1>2, <2>1, <3>1 DEF Owned
    <2>2. ASSUME NEW t \in Owned(a) PROVE t \in Tokens /\ tokens[t].owner = a
        <3>1. PICK l \in 1 .. MaxOwned : t = owned[l] /\ t # None
            BY <2>2 DEF Owned
        <3> QED
            BY <1>1, <1>2, <3>1
    <2> QED
        BY <2>1, <2>2
<1>5. IsFiniteSet(1 .. MaxOwned) /\ Cardinality(1 .. MaxOwned) = MaxOwned /\ MaxOwned \in Nat
    <2>1. MaxOwned \in Nat /\ 1 \in Int /\ MaxOwned \in Int
        OBVIOUS
    <2>2. IsFiniteSet(1 .. MaxOwned) /\ Cardinality(1 .. MaxOwned) = IF 1 > MaxOwned THEN 0 ELSE MaxOwned - 1 + 1
        BY <2>1, FS_Interval
    <2> QED
        BY <2>1, <2>2
<1>6. IsFiniteSet(Taken) /\ IsFiniteSet(Free)
    BY <1>5, FS_Subset DEF FreeLanes
<1>7. Taken \cup Free = 1 .. MaxOwned /\ Taken \cap Free = {}
    BY DEF FreeLanes
<1>8. \A k, l \in Taken : owned[k] = owned[l] => k = l
    BY <1>2
<1> HIDE DEF owned, Taken, Free
<1>9. Cardinality(Owned(a)) = Cardinality(Taken)
    BY <1>3, <1>6, <1>8, CountImage, SMTT(30)
<1>10. Cardinality(Taken \cup Free) = Cardinality(Taken) + Cardinality(Free) - Cardinality(Taken \cap Free)
    BY <1>6, FS_Union
<1>11. Cardinality(Taken \cap Free) = 0 /\ Cardinality(Taken) \in Nat /\ Cardinality(Free) \in Nat
    BY <1>6, <1>7, FS_EmptySet, FS_CardinalityType
<1>12. Cardinality(Taken) + Cardinality(Free) = MaxOwned
    <2>1. Cardinality(Taken \cup Free) = MaxOwned
        BY <1>5, <1>7
    <2> QED
        BY <1>10, <1>11, <2>1
<1> QED
    BY <1>4, <1>9, <1>12 DEF owned, Free

LEMMA InvHoldings == IInv => HoldingsSound
<1> SUFFICES ASSUME IInv PROVE HoldingsSound
    OBVIOUS
<1>1. TypeOK
    <2>1. /\ accounts \in [Accounts -> Account] /\ tokens \in [Tokens -> Token]
          /\ drawn \in 0 .. MaxSupply /\ idPool \in [0 .. MaxSupply - 1 -> Tokens \cup {None}]
          /\ pair \in Pairs /\ minting \in Tokens \cup {None} /\ week \in 0 .. MaxWeek
        BY DEF IInv, TypeInv
    <2>2. \A a \in Accounts : accounts[a] \in Account
        BY <2>1
    <2>3. \A t \in Tokens : tokens[t] \in Token
        BY <2>1
    <2> QED
        BY <2>1, <2>2, <2>3 DEF TypeOK, Account, Token
<1>2. PendingHeld
    <2> SUFFICES ASSUME NEW t \in Tokens, tokens[t].owner # Nobody
                 PROVE  ~tokens[t].revealed <=> accounts[tokens[t].owner].pendingMint = t
        BY DEF PendingHeld
    <2>1. tokens[t].owner \in Accounts /\ tokens[t].revealed \in BOOLEAN
        BY DEF IInv, TypeInv, Token
    <2>2. t # None
        BY DEF Tokens, None
    <2> QED
        BY <2>1, <2>2 DEF IInv, PendingInv
<1>3. PoolExact /\ LanesExact /\ SignerIsNotOwner
    BY PoolCount, LaneCount DEF IInv
<1> QED
    BY <1>1, <1>2, <1>3 DEF HoldingsSound

LEMMA InvDraws == IInv => LatestDrawOnly
<1> SUFFICES ASSUME IInv, NEW r \in pyth.waiting, NEW q \in pyth.waiting,
                    Deliverable(r.pair, r.sequence), Deliverable(q.pair, q.sequence),
                    r.request.token = q.request.token
             PROVE  r = q
    BY DEF LatestDrawOnly, OneLiveDraw, IInv
<1>1. pyth.waiting \subseteq Delivery
    BY DEF IInv, TypeInv
<1>2. /\ r.pair = pair /\ r.sequence \in 1 .. MaxSequence /\ r.request \in Request /\ pair \in Pairs
      /\ q.pair = pair /\ q.sequence \in 1 .. MaxSequence /\ q.request \in Request
    BY <1>1 DEF Deliverable, Delivery
<1>3. /\ requestToken[pair][r.sequence] = r.request /\ r.request # NoRequest
      /\ requestToken[pair][q.sequence] = q.request
    BY <1>2 DEF IInv, DrawInv
<1>4. r.request.attempt = q.request.attempt
    BY <1>2, <1>3 DEF Deliverable
<1>5. r.request = q.request
    BY <1>2, <1>4 DEF Request
<1>6. r.sequence = q.sequence
    BY <1>2, <1>3, <1>5 DEF IInv, DrawInv
<1> QED
    BY <1>1, <1>2, <1>5, <1>6 DEF Delivery

\* For every supply and every number of lanes: the pool is the unminted IDs, the lanes are
\* the ownership, a pending token stays with its minter until its reveal, and the signer is
\* never the owner; inside a mint's hook as well (MapaeGuardians mint, _update,
\* entropyCallback, rerequestBirth).
THEOREM HoldingsAlwaysSound == Spec => []HoldingsSound
BY Invariance, InvHoldings, PTL

\* Over any sequence of upgrades between any pairs: the latest request alone reveals a
\* token, and no other waiting request of it could (MapaeGuardians rerequestBirth,
\* entropyCallback).
THEOREM LatestDrawAlwaysOnly == Spec => []LatestDrawOnly
BY Invariance, InvDraws, PTL

-----------------------------------------------------------------------------
(* Payments.                                                               *)

Plays == [x \in Tokens \X Games |-> growth[x[1]][x[2]].plays]
GrowInv == /\ \A x \in Tokens \X Games : growth[x[1]][x[2]].plays \in Nat
           /\ IsFiniteSet(claimedPayments)
           /\ SumFunctionOnSet(Plays, Tokens \X Games) = Cardinality(claimedPayments)

LEMMA CellsFinite == IsFiniteSet(Tokens \X Games)
<1>1. IsFiniteSet(Tokens)
    <2>1. 1 \in Int /\ MaxSupply \in Int
        BY SizeAssumption
    <2> QED
        BY <2>1, FS_Interval DEF Tokens
<1> QED
    BY <1>1, ResultAssumption, FS_Product

LEMMA InitGrow == Init => GrowInv
<1> SUFFICES ASSUME Init PROVE GrowInv
    OBVIOUS
<1>1. \A x \in Tokens \X Games : growth[x[1]][x[2]].plays = 0 /\ Plays[x] = 0
    BY DEF Init, Plays
<1>2. SumFunctionOnSet(Plays, Tokens \X Games) = 0
    <2>1. \A x \in Tokens \X Games : Plays[x] = 0
        BY <1>1
    <2> QED
        BY <2>1, CellsFinite, SumZero
<1>3. claimedPayments = {}
    BY DEF Init
<1> QED
    BY <1>1, <1>2, <1>3, FS_EmptySet DEF GrowInv

\* Of the entries of a call with one payment the first applies, unless it was claimed before.
LEMMA AppliedCount ==
    ASSUME NEW n \in Nat, NEW rs \in [1 .. n -> Results], IsFiniteSet(claimedPayments)
    PROVE  LET paid == claimedPayments \cup {rs[i].payment : i \in DOMAIN rs} IN
           /\ IsFiniteSet(Applied(rs)) /\ IsFiniteSet(paid)
           /\ Cardinality(paid) = Cardinality(claimedPayments) + Cardinality(Applied(rs))
<1> DEFINE pay == [i \in 1 .. n |-> rs[i].payment]
           A == Applied(rs)
           fresh == {pay[i] : i \in A}
<1>0. DOMAIN rs = 1 .. n
    OBVIOUS
<1>1. A \subseteq 1 .. n /\ IsFiniteSet(A)
    <2>1. A \subseteq 1 .. n
        BY <1>0 DEF Applied
    <2>2. IsFiniteSet(1 .. n)
        BY FS_Interval
    <2> QED
        BY <2>1, <2>2, FS_Subset
<1>2. \A i \in 1 .. n : i \in A <=> pay[i] \notin claimedPayments /\ \A k \in 1 .. i - 1 : pay[k] # pay[i]
    <2> SUFFICES ASSUME NEW i \in 1 .. n
                 PROVE  i \in A <=> pay[i] \notin claimedPayments /\ \A k \in 1 .. i - 1 : pay[k] # pay[i]
        OBVIOUS
    <2>1. \A k \in 1 .. i - 1 : k \in 1 .. n
        OBVIOUS
    <2>2. \A k \in 1 .. n : pay[k] = rs[k].payment
        OBVIOUS
    <2>3. i \in A <=> rs[i].payment \notin claimedPayments /\ \A k \in 1 .. i - 1 : rs[k].payment # rs[i].payment
        BY <1>0 DEF Applied
    <2> HIDE DEF pay, A
    <2> QED
        BY <2>1, <2>2, <2>3
<1>3. \A i, j \in A : pay[i] = pay[j] => i = j
    <2>1. ASSUME NEW i \in A, NEW j \in A, pay[i] = pay[j], i < j PROVE FALSE
        <3>1. i \in 1 .. j - 1 /\ j \in 1 .. n
            BY <1>1, <2>1
        <3> HIDE DEF pay, A
        <3> QED
            BY <1>2, <2>1, <3>1
    <2>2. A \subseteq Int
        BY <1>1
    <2> HIDE DEF pay, A
    <2> QED
        <3>1. \A i, j \in A : i < j \/ j < i \/ i = j
            BY <2>2
        <3> QED
            BY <2>1, <3>1
<1>4. ASSUME NEW i \in 1 .. n, pay[i] \notin claimedPayments PROVE pay[i] \in fresh
    <2> DEFINE Same == {k \in 1 .. n : pay[k] = pay[i]}
    <2>1. Same \in SUBSET (1 .. n) /\ i \in Same
        OBVIOUS
    <2>2. PICK k \in Same : \A m \in Same : k <= m
        <3> HIDE DEF Same
        <3> QED
            BY <2>1, LeastIndex
    <2>3. \A m \in 1 .. k - 1 : pay[m] # pay[k]
        BY <2>2
    <2>4. k \in A
        BY <1>2, <1>4, <2>2, <2>3
    <2> QED
        BY <2>2, <2>4
<1>5. /\ claimedPayments \cup {rs[i].payment : i \in DOMAIN rs} = claimedPayments \cup fresh
      /\ claimedPayments \cap fresh = {}
    <2>1. {rs[i].payment : i \in DOMAIN rs} = {pay[i] : i \in 1 .. n}
        BY <1>0
    <2>2. fresh \subseteq {pay[i] : i \in 1 .. n}
        BY <1>1
    <2>3. \A x \in {pay[i] : i \in 1 .. n} : x \in claimedPayments \cup fresh
        BY <1>4
    <2>4. claimedPayments \cap fresh = {}
        BY <1>1, <1>2
    <2> HIDE DEF fresh, pay
    <2> QED
        BY <2>1, <2>2, <2>3, <2>4
<1>6. IsFiniteSet(fresh) /\ Cardinality(fresh) = Cardinality(A)
    <2> HIDE DEF A, pay
    <2> QED
        BY <1>1, <1>3, CountImage
<1> HIDE DEF fresh, A
<1>7. /\ IsFiniteSet(claimedPayments \cup fresh)
      /\ Cardinality(claimedPayments \cup fresh)
            = Cardinality(claimedPayments) + Cardinality(fresh) - Cardinality(claimedPayments \cap fresh)
    BY <1>6, FS_Union
<1>8. Cardinality(claimedPayments \cap fresh) = 0 /\ Cardinality(claimedPayments) \in Nat /\ Cardinality(fresh) \in Nat
    BY <1>5, <1>6, FS_EmptySet, FS_CardinalityType
<1>9. Cardinality(claimedPayments \cup fresh) = Cardinality(claimedPayments) + Cardinality(A)
    BY <1>6, <1>7, <1>8
<1> QED
    BY <1>1, <1>5, <1>7, <1>9 DEF A

LEMMA ClaimGrow ==
    ASSUME GrowInv, NEW rs \in SeqOf(Results, MaxBatch), NEW hs, Claim(rs, hs)
    PROVE  GrowInv'
<1>1. PICK n \in Nat : rs \in [1 .. n -> Results]
    BY SizeAssumption DEF SeqOf
<1> DEFINE A == Applied(rs)
           cell == [i \in A |-> <<rs[i].token, rs[i].game>>]
           Cells == Tokens \X Games
           of(x) == {i \in A : cell[i] = x}
<1>2. /\ IsFiniteSet(A) /\ IsFiniteSet(claimedPayments')
      /\ Cardinality(claimedPayments') = Cardinality(claimedPayments) + Cardinality(A)
    BY <1>1, AppliedCount DEF Claim, GrowInv
<1>3. A \subseteq 1 .. n
    BY <1>1 DEF Applied
<1>4. \A i \in A : cell[i] \in Cells
    <2>1. \A i \in A : rs[i] \in Results
        BY <1>1, <1>3
    <2> QED
        BY <2>1, ResultAssumption DEF Tokens
<1>5. ASSUME NEW x \in Cells
      PROVE  /\ Cardinality(of(x)) \in Nat
             /\ growth'[x[1]][x[2]].plays = growth[x[1]][x[2]].plays + Cardinality(of(x))
    <2>1. x[1] \in Tokens /\ x[2] \in Games /\ x = <<x[1], x[2]>>
        OBVIOUS
    <2>2. of(x) = {i \in A : rs[i].token = x[1] /\ rs[i].game = x[2]}
        BY <2>1
    <2>3. IsFiniteSet(of(x))
        BY <1>2, FS_Subset
    <2>4. growth' = Grown(rs)
        BY DEF Claim
    <2>5. growth'[x[1]][x[2]].plays = growth[x[1]][x[2]].plays + Cardinality({i \in A : rs[i].token = x[1] /\ rs[i].game = x[2]})
        BY <2>1, <2>4 DEF Grown
    <2> QED
        BY <2>2, <2>3, <2>5, FS_CardinalityType
<1>6. \A x \in Cells : growth[x[1]][x[2]].plays \in Nat
    BY DEF GrowInv
<1>7. \A x \in Cells : growth'[x[1]][x[2]].plays \in Nat
    <2> HIDE DEF of, Cells
    <2> QED
        BY <1>5, <1>6
<1>8. \A x \in Cells : Plays[x] \in Nat /\ Plays'[x] = Plays[x] + Cardinality({i \in A : cell[i] = x})
    <2>1. \A x \in Cells : Plays[x] = growth[x[1]][x[2]].plays /\ Plays'[x] = growth'[x[1]][x[2]].plays
        BY DEF Plays
    <2> HIDE DEF Cells, cell, A
    <2> QED
        BY <1>5, <1>6, <2>1
<1>9. SumFunctionOnSet(Plays', Cells) = SumFunctionOnSet(Plays, Cells) + Cardinality(A)
    <2>1. IsFiniteSet(Cells)
        BY CellsFinite
    <2> HIDE DEF Cells, cell, A
    <2> QED
        BY <1>2, <1>4, <1>8, <2>1, SumFibres
<1>10. SumFunctionOnSet(Plays, Cells) = Cardinality(claimedPayments)
    BY DEF GrowInv
<1>11. SumFunctionOnSet(Plays', Cells) = Cardinality(claimedPayments')
    <2> HIDE DEF A, Cells
    <2> QED
        BY <1>2, <1>9, <1>10
<1> QED
    BY <1>2, <1>7, <1>11 DEF GrowInv

\* However results are batched, repeated and interleaved with transfers: the plays counted
\* over all guardians and games are the payments claimed, each once (claim and _result).
THEOREM PaymentsAlwaysGrowOnce == Spec => []PaymentsGrowOnce
<1>1. Init => GrowInv
    BY InitGrow
<1>2. GrowInv /\ [Next]_vars => GrowInv'
    <2> SUFFICES ASSUME GrowInv, [Next]_vars PROVE GrowInv'
        OBVIOUS
    <2>1. CASE \E rs \in SeqOf(Results, MaxBatch), hs \in SeqOf(Honors, MaxBatch) : Claim(rs, hs)
        BY <2>1, ClaimGrow
    <2>2. CASE UNCHANGED claims
        <3>1. Plays' = Plays /\ growth' = growth /\ claimedPayments' = claimedPayments
            BY <2>2 DEF claims, Plays
        <3> QED
            BY <3>1 DEF GrowInv
    <2>3. UNCHANGED claims \/ \E rs \in SeqOf(Results, MaxBatch), hs \in SeqOf(Honors, MaxBatch) : Claim(rs, hs)
        BY DEF Next, vars, Transfer, RerequestBirth, Mint, FinishMint, EntropyCallback, OpenMint, PauseMint, AcceptOwnership,
               RenounceOwnership, SetResultSigner, TransferOwnership, Upgrade, SealWeek, Administer
    <2> QED
        BY <2>1, <2>2, <2>3
<1>3. GrowInv => PaymentsGrowOnce
    <2>1. DOMAIN Plays = Tokens \X Games
        BY DEF Plays
    <2> QED
        BY <2>1 DEF GrowInv, PaymentsGrowOnce, Plays, SumFunction
<1> QED
    BY <1>1, <1>2, <1>3, PTL DEF Spec

=============================================================================
