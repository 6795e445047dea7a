--------------------------- MODULE RelayerRegistry ---------------------------
(***************************************************************************)
(* The DAO contracts a sponsored withdrawal passes through before it       *)
(* reaches the pool: SandboxRelayerRegistry (masters, workers, stakes), the *)
(* cached fee of SandboxFeeManager, the burn that TornadoRouter.withdraw   *)
(* starts and the TORN kept by SandboxStakingRewards.  Each action is one  *)
(* transaction; a reverted transaction is no step.                         *)
(*                                                                         *)
(* address(0) is an address like another to a mapping: NoAddress.          *)
(***************************************************************************)
EXTENDS Integers, FiniteSets, Functions

CONSTANTS
    Accounts,          \* every sender: relayers, the paymaster, anyone
    NoAddress,         \* address(0)
    Names,             \* ENS nodes: the hashes of names
    NoName,            \* bytes32(0): the hash of the empty name, and of none
    Pools,             \* instances enabled at the InstanceRegistry
    Routers,
    Fees, Stakes, Limits,                     \* what an instance enumerates
    MaxTorn, MaxPaidIn, MaxTime               \* bounds of the instance checked

Addresses == Accounts \cup {NoAddress}

NoPrice == -1

ASSUME RegistryAssumption ==
    /\ NoAddress \notin Accounts /\ NoName \in Names
    /\ IsFiniteSet(Accounts)      \* 160 bits
    /\ Fees \subseteq Nat /\ Stakes \subseteq Nat /\ Limits \subseteq Nat
    /\ MaxTorn \in Nat /\ MaxTime \in Nat
    /\ Limits # {}

VARIABLES
    workers,             \* the master an address works for, or NoAddress
    balance,             \* relayers[a].balance
    ensHash,             \* relayers[a].ensHash
    owner,               \* ENS
    minStakeAmount,
    tornadoRouter,
    instanceFee, instanceFeeUpdated, updateFeeTimeLimit,   \* FeeManager
    marketFee,           \* what calculatePoolFee returns, or NoPrice when it reverts
    torn,                \* TORN of each account
    staked,              \* TORN of the staking contract
    accumulatedRewards, totalBurnRewards,
    now,                 \* block.timestamp
    \* History only: TORN staked so far, nullified so far, and credited by governance; who
    \* has registered with a name that was its own.
    paidIn, nullified, granted, registrants

registry == <<workers, ensHash>>
history == <<paidIn, nullified, granted, registrants>>
feeManager == <<instanceFee, instanceFeeUpdated>>
staking == <<staked, accumulatedRewards, totalBurnRewards>>
governed == <<owner, minStakeAmount, tornadoRouter, updateFeeTimeLimit, marketFee, now>>
vars == <<registry, balance, torn, staking, feeManager, governed, history>>

TypeOK ==
    /\ workers \in [Addresses -> Addresses]
    /\ balance \in [Addresses -> Nat]
    /\ ensHash \in [Addresses -> Names]
    /\ owner \in [Names -> Accounts]
    /\ minStakeAmount \in Nat
    /\ tornadoRouter \in Routers
    /\ instanceFee \in [Pools -> Nat]
    /\ instanceFeeUpdated \in [Pools -> Nat]
    /\ updateFeeTimeLimit \in Nat
    /\ marketFee \in [Pools -> Nat \cup {NoPrice}]
    /\ torn \in [Accounts -> Nat]
    /\ staked \in Nat
    /\ accumulatedRewards \in [Accounts -> Nat]
    /\ totalBurnRewards \in Nat
    /\ now \in Nat
    /\ paidIn \in Nat /\ nullified \in Nat /\ granted \in Nat /\ registrants \subseteq Accounts

\* The deployed contracts, wired to each other; instanceFeeUpdated is 0, long ago.
Init ==
    /\ workers = [a \in Addresses |-> NoAddress]
    /\ balance = [a \in Addresses |-> 0]
    /\ ensHash = [a \in Addresses |-> NoName]
    /\ owner \in [Names -> Accounts]
    /\ minStakeAmount = 0
    /\ tornadoRouter \in Routers
    /\ updateFeeTimeLimit \in Limits
    /\ marketFee \in [Pools -> Fees \cup {NoPrice}]
    /\ instanceFee = [p \in Pools |-> 0] /\ instanceFeeUpdated = [p \in Pools |-> 0]
    /\ torn = [a \in Accounts |-> MaxTorn]
    /\ staked = 0
    /\ accumulatedRewards = [a \in Accounts |-> 0] /\ totalBurnRewards = 0
    /\ now = updateFeeTimeLimit + 1
    /\ paidIn = 0 /\ nullified = 0 /\ granted = 0 /\ registrants = {}

-----------------------------------------------------------------------------
(* Relayers and their workers.                                              *)

\* torn.safeTransferFrom(from, staking, amount), credited to a relayer.  MaxPaidIn bounds
\* what is staked or granted in all.
PayStake(from, relayer, amount) ==
    /\ amount <= torn[from] /\ paidIn + granted + amount <= MaxPaidIn
    /\ torn' = [torn EXCEPT ![from] = @ - amount]
    /\ staked' = staked + amount
    /\ paidIn' = paidIn + amount
    /\ UNCHANGED <<nullified, granted, accumulatedRewards, totalBurnRewards>>

\* Registers the workers as well: one that is taken reverts the whole call.  The owner of
\* the root may register with the empty name, and has no ensHash then.
register(relayer, name, stake, workersToRegister) ==
    /\ owner[name] = relayer
    /\ workers[relayer] = NoAddress
    /\ ensHash[relayer] = NoName
    /\ stake >= minStakeAmount
    /\ relayer \notin workersToRegister
    /\ \A w \in workersToRegister : workers[w] = NoAddress
    /\ workers' = [a \in Addresses |->
                      IF a \in workersToRegister \cup {relayer} THEN relayer ELSE workers[a]]
    /\ ensHash' = [ensHash EXCEPT ![relayer] = name]
    /\ balance' = [balance EXCEPT ![relayer] = stake]
    /\ PayStake(relayer, relayer, stake)
    /\ registrants' = registrants \cup {relayer}
    /\ UNCHANGED <<feeManager, governed>>

\* A worker that is taken may be registered again.
StealWorker(sender, relayer, worker) ==
    /\ workers[sender] = relayer
    /\ workers' = [workers EXCEPT ![worker] = relayer]
    /\ UNCHANGED <<ensHash, balance, torn, staking, feeManager, governed, history>>

\* Workers of any address, not only the sender's master.
RegisterForAny(sender, relayer, worker) ==
    /\ workers[worker] = NoAddress
    /\ workers' = [workers EXCEPT ![worker] = relayer]
    /\ UNCHANGED <<ensHash, balance, torn, staking, feeManager, governed, history>>

\* Any worker of a relayer may add workers, and an address of no relayer may add
\* workers of address(0).
registerWorker(sender, relayer, worker) ==
    /\ workers[sender] = relayer
    /\ workers[worker] = NoAddress
    /\ workers' = [workers EXCEPT ![worker] = relayer]
    /\ UNCHANGED <<ensHash, balance, torn, staking, feeManager, governed, history>>

unregisterWorker(sender, worker) ==
    /\ worker = sender \/ workers[worker] = sender
    /\ workers[worker] # worker
    /\ workers' = [workers EXCEPT ![worker] = NoAddress]
    /\ UNCHANGED <<ensHash, balance, torn, staking, feeManager, governed, history>>

\* address(0) resolves to itself, so it passes for a registered relayer.
stakeToRelayer(staker, relayer, stake) ==
    /\ workers[relayer] = relayer
    /\ balance' = [balance EXCEPT ![relayer] = @ + stake]
    /\ PayStake(staker, relayer, stake)
    /\ UNCHANGED <<registry, registrants, feeManager, governed>>

-----------------------------------------------------------------------------
(* The fee, cached, and the burn.                                           *)

updateFee(pool) ==
    /\ marketFee[pool] # NoPrice
    /\ instanceFee' = [instanceFee EXCEPT ![pool] = marketFee[pool]]
    /\ instanceFeeUpdated' = [instanceFeeUpdated EXCEPT ![pool] = now]

instanceFeeWithUpdate(pool) ==
    IF now - instanceFeeUpdated[pool] > updateFeeTimeLimit
    THEN updateFee(pool)
    ELSE UNCHANGED feeManager

\* The burn without the test that the fee goes to the sender's own master.
BurnOfAnyRelayer(sender, relayer, pool) ==
    /\ workers[sender] # NoAddress
    /\ instanceFeeWithUpdate(pool)
    /\ instanceFee'[pool] <= balance[relayer]
    /\ balance' = [balance EXCEPT ![relayer] = @ - instanceFee'[pool]]
    /\ totalBurnRewards' = totalBurnRewards + instanceFee'[pool]

\* The fee is read before the update and again after it.
BurnOldFee(sender, relayer, pool) ==
    /\ workers[sender] # NoAddress
    /\ workers[sender] = relayer
    /\ instanceFeeWithUpdate(pool)
    /\ instanceFee[pool] <= balance[relayer]
    /\ balance' = [balance EXCEPT ![relayer] = @ - instanceFee[pool]]
    /\ totalBurnRewards' = totalBurnRewards + instanceFee'[pool]

\* Subtraction that does not revert below zero.
BurnUnchecked(sender, relayer, pool) ==
    /\ workers[sender] # NoAddress
    /\ workers[sender] = relayer
    /\ instanceFeeWithUpdate(pool)
    /\ balance' = [balance EXCEPT ![relayer] = @ - instanceFee'[pool]]
    /\ totalBurnRewards' = totalBurnRewards + instanceFee'[pool]

BurnOfRelayer(sender, relayer, pool) ==
    /\ workers[sender] # NoAddress
    /\ workers[sender] = relayer
    /\ instanceFeeWithUpdate(pool)
    /\ instanceFee'[pool] <= balance[relayer]
    /\ balance' = [balance EXCEPT ![relayer] = @ - instanceFee'[pool]]
    /\ totalBurnRewards' = totalBurnRewards + instanceFee'[pool]

\* A sender of no relayer may pay a fee only to an address of no relayer.
CustomRelayer(sender, relayer) ==
    /\ workers[sender] = NoAddress
    /\ workers[relayer] = NoAddress
    /\ UNCHANGED <<balance, totalBurnRewards, feeManager>>

burn(sender, relayer, pool) == BurnOfRelayer(sender, relayer, pool) \/ CustomRelayer(sender, relayer)

\* TornadoRouter.withdraw: the burn, then the pool, which pays `relayer` its fee.
withdraw(router, sender, relayer, pool) ==
    /\ router = tornadoRouter
    /\ burn(sender, relayer, pool)
    /\ UNCHANGED <<registry, torn, staked, accumulatedRewards, governed, history>>

UpdateFee(pool) ==
    /\ updateFee(pool)
    /\ UNCHANGED <<registry, balance, torn, staking, governed, history>>

-----------------------------------------------------------------------------
(* Governance, the staking contract, ENS, the market and the clock.         *)

nullifyBalance(relayer) ==
    /\ workers[relayer] = relayer
    /\ balance' = [balance EXCEPT ![relayer] = 0]
    /\ nullified' = nullified + balance[relayer]
    /\ UNCHANGED <<registry, torn, staking, feeManager, governed, paidIn, granted,
                   registrants>>

\* Governance credits rewards as the registry does.
addBurnRewards(amount) ==
    /\ paidIn + granted + amount <= MaxPaidIn
    /\ totalBurnRewards' = totalBurnRewards + amount
    /\ granted' = granted + amount
    /\ UNCHANGED <<registry, balance, torn, staked, accumulatedRewards, feeManager, governed,
                   paidIn, nullified, registrants>>

\* MaxTorn bounds the rewards not yet taken, as it does each account's TORN.
setReward(account, amount) ==
    /\ SumFunctionOnSet(accumulatedRewards, Accounts) + amount <= MaxTorn
    /\ accumulatedRewards' = [accumulatedRewards EXCEPT ![account] = amount]
    /\ UNCHANGED <<registry, balance, torn, staked, totalBurnRewards, feeManager, governed, history>>

\* Rewards are paid out of the same TORN as the stakes.
getReward(account) ==
    /\ accumulatedRewards[account] \in 1 .. staked
    /\ accumulatedRewards' = [accumulatedRewards EXCEPT ![account] = 0]
    /\ staked' = staked - accumulatedRewards[account]
    /\ torn' = [torn EXCEPT ![account] = @ + accumulatedRewards[account]]
    /\ UNCHANGED <<registry, balance, totalBurnRewards, feeManager, governed, history>>

withdrawTorn(amount) ==
    /\ amount <= staked
    /\ staked' = staked - amount
    /\ UNCHANGED <<registry, balance, torn, accumulatedRewards, totalBurnRewards, feeManager,
                   governed, history>>

GovernanceSets ==
    /\ \/ /\ minStakeAmount' \in Stakes
          /\ UNCHANGED <<tornadoRouter, updateFeeTimeLimit>>
       \/ /\ tornadoRouter' \in Routers
          /\ UNCHANGED <<minStakeAmount, updateFeeTimeLimit>>
       \/ /\ updateFeeTimeLimit' \in Limits
          /\ UNCHANGED <<minStakeAmount, tornadoRouter>>
    /\ UNCHANGED <<registry, balance, torn, staking, feeManager, owner, marketFee, now, history>>

\* A new TORN price or protocol fee.
MarketMoves(pool) ==
    /\ \E f \in Fees \cup {NoPrice} : marketFee' = [marketFee EXCEPT ![pool] = f]
    /\ UNCHANGED <<registry, balance, torn, staking, feeManager, owner, minStakeAmount,
                   tornadoRouter, updateFeeTimeLimit, now, history>>

setOwner(name, to) ==
    /\ owner' = [owner EXCEPT ![name] = to]
    /\ UNCHANGED <<registry, balance, torn, staking, feeManager, minStakeAmount, tornadoRouter,
                   updateFeeTimeLimit, marketFee, now, history>>

Tick ==
    /\ now < MaxTime
    /\ now' = now + 1
    /\ UNCHANGED <<registry, balance, torn, staking, feeManager, owner, minStakeAmount,
                   tornadoRouter, updateFeeTimeLimit, marketFee, history>>

-----------------------------------------------------------------------------

Next ==
    \/ \E r \in Accounts, n \in Names, s \in Stakes, ws \in SUBSET Addresses : register(r, n, s, ws)
    \/ \E s \in Accounts, r, w \in Addresses : registerWorker(s, r, w)
    \/ \E s \in Accounts, w \in Addresses : unregisterWorker(s, w)
    \/ \E s \in Accounts, r \in Addresses, amount \in Stakes : stakeToRelayer(s, r, amount)
    \/ \E router \in Routers, s \in Accounts, r \in Addresses, p \in Pools : withdraw(router, s, r, p)
    \/ \E p \in Pools : UpdateFee(p)
    \/ \E r \in Addresses : nullifyBalance(r)
    \/ \E amount \in Stakes : addBurnRewards(amount) \/ withdrawTorn(amount)
    \/ \E a \in Accounts, amount \in Stakes : setReward(a, amount)
    \/ \E a \in Accounts : getReward(a)
    \/ GovernanceSets
    \/ \E p \in Pools : MarketMoves(p)
    \/ \E n \in Names, a \in Accounts : setOwner(n, a)
    \/ Tick

Spec == Init /\ [][Next]_vars

-----------------------------------------------------------------------------
(* What the registry promises the relayers.                                 *)

\* isRelayer, getRelayerBalance and burn look a worker up once: whatever workers and
\* masters do to each other, one lookup ends at a master, which registered itself with a
\* name it owned (its ensHash does not tell: the empty name's is bytes32(0)).
WorkersResolve ==
    \A a \in Addresses :
        workers[a] # NoAddress =>
            /\ workers[workers[a]] = workers[a]
            /\ workers[a] \in registrants

\* "cant register again", "can't steal an address", "cant unregister master": nobody,
\* its own workers and the new owner of its ENS name included, ends a registration.
MastersStay ==
    [][\A m \in Accounts : workers[m] = m => workers'[m] = m /\ ensHash'[m] = ensHash[m]]_vars

\* Every TORN staked is still somebody's stake, or was burned or nullified: no path
\* counts a stake twice or loses it.
StakeAccounted ==
    SumFunctionOnSet(balance, Addresses) + totalBurnRewards + nullified
        = paidIn + granted

\* A stake shrinks only by governance's word or to pay for a withdrawal whose fee goes
\* to that relayer, sent by an address of its own; and the fee burned is no older than
\* the time limit.
StakeBurnedForOwner ==
    [][\A m \in Addresses : balance'[m] < balance[m] =>
          \/ nullifyBalance(m)
          \/ \E router \in Routers, s \in Accounts, p \in Pools :
                /\ withdraw(router, s, m, p)
                /\ workers[s] = m
                /\ now - instanceFeeUpdated'[p] <= updateFeeTimeLimit
                /\ balance[m] - balance'[m] = instanceFee'[p]]_vars

=============================================================================
