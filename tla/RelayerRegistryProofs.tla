------------------------ MODULE RelayerRegistryProofs ------------------------
(***************************************************************************)
(* Proofs about RelayerRegistry, for any number of relayers, workers and   *)
(* pools: what one lookup in `workers` can be relied on for, and what can  *)
(* make a stake shrink.                                                    *)
(***************************************************************************)
EXTENDS RelayerRegistry, ArithmeticTheorems

LEMMA InitType == Init => TypeOK
<1> SUFFICES ASSUME Init PROVE TypeOK
  OBVIOUS
<1>1. updateFeeTimeLimit \in Nat /\ now \in Nat
  BY RegistryAssumption DEF Init
<1>2. marketFee \in [Pools -> Nat \cup {NoPrice}]
  BY RegistryAssumption DEF Init
<1> QED
  BY <1>1, <1>2, RegistryAssumption DEF Init, TypeOK, Addresses

LEMMA PayStakeType ==
    ASSUME TypeOK, NEW from \in Accounts, NEW relayer, NEW amount \in Nat,
           PayStake(from, relayer, amount)
    PROVE  /\ torn' \in [Accounts -> Nat] /\ staked' \in Nat
           /\ paidIn' \in Nat /\ nullified' \in Nat /\ granted' \in Nat
           /\ accumulatedRewards' \in [Accounts -> Nat] /\ totalBurnRewards' \in Nat
BY DEF TypeOK, PayStake

LEMMA UpdateFeeType ==
    ASSUME TypeOK, NEW p \in Pools, updateFee(p) \/ UNCHANGED feeManager
    PROVE  instanceFee' \in [Pools -> Nat] /\ instanceFeeUpdated' \in [Pools -> Nat]
<1>1. CASE updateFee(p)
  <2>1. marketFee[p] \in Nat
    BY <1>1 DEF TypeOK, updateFee
  <2> QED
    BY <1>1, <2>1 DEF TypeOK, updateFee
<1>2. CASE UNCHANGED feeManager
  BY <1>2 DEF TypeOK, feeManager
<1> QED
  BY <1>1, <1>2

LEMMA BurnFacts ==
    ASSUME TypeOK, NEW s \in Accounts, NEW r \in Addresses, NEW p \in Pools,
           BurnOfRelayer(s, r, p)
    PROVE  /\ instanceFee' \in [Pools -> Nat] /\ instanceFeeUpdated' \in [Pools -> Nat]
           /\ instanceFee'[p] \in Nat
           /\ balance' = [balance EXCEPT ![r] = @ - instanceFee'[p]]
           /\ balance' \in [Addresses -> Nat] /\ totalBurnRewards' \in Nat
           /\ workers[s] = r
           /\ now - instanceFeeUpdated'[p] <= updateFeeTimeLimit
<1>1. updateFee(p) \/ UNCHANGED feeManager
  BY DEF BurnOfRelayer, instanceFeeWithUpdate
<1>2. instanceFee' \in [Pools -> Nat] /\ instanceFeeUpdated' \in [Pools -> Nat]
  BY <1>1, UpdateFeeType
<1>3. instanceFee'[p] \in Nat
  BY <1>2
<1>4. /\ instanceFee'[p] <= balance[r] /\ workers[s] = r
      /\ balance' = [balance EXCEPT ![r] = @ - instanceFee'[p]]
      /\ totalBurnRewards' = totalBurnRewards + instanceFee'[p]
  BY DEF BurnOfRelayer
<1>5. balance' \in [Addresses -> Nat] /\ totalBurnRewards' \in Nat
  <2> DEFINE fee == instanceFee'[p]
  <2>1. fee \in Nat /\ fee <= balance[r] /\ balance' = [balance EXCEPT ![r] = @ - fee]
        /\ totalBurnRewards' = totalBurnRewards + fee
    BY <1>3, <1>4
  <2> HIDE DEF fee
  <2>2. balance[r] - fee \in Nat
    BY <2>1 DEF TypeOK
  <2> QED
    BY <2>1, <2>2 DEF TypeOK
<1>6. now - instanceFeeUpdated'[p] <= updateFeeTimeLimit
  <2>1. CASE now - instanceFeeUpdated[p] > updateFeeTimeLimit
    <3>1. instanceFeeUpdated' = [instanceFeeUpdated EXCEPT ![p] = now]
      BY <2>1 DEF BurnOfRelayer, instanceFeeWithUpdate, updateFee
    <3>2. instanceFeeUpdated'[p] = now
      BY <3>1 DEF TypeOK
    <3> QED
      BY <3>2 DEF TypeOK
  <2>2. CASE ~(now - instanceFeeUpdated[p] > updateFeeTimeLimit)
    <3>1. instanceFeeUpdated' = instanceFeeUpdated
      BY <2>2 DEF BurnOfRelayer, instanceFeeWithUpdate, feeManager
    <3> QED
      BY <2>2, <3>1 DEF TypeOK
  <2> QED
    BY <2>1, <2>2
<1> QED
  BY <1>2, <1>3, <1>4, <1>5, <1>6

LEMMA TypeStep ==
    ASSUME TypeOK, [Next]_vars
    PROVE  TypeOK'
<1> USE RegistryAssumption
<1> USE DEF registry, history, staking, governed
<1>1. ASSUME UNCHANGED vars PROVE TypeOK'
  BY <1>1 DEF vars, TypeOK, feeManager
<1>2. ASSUME NEW r \in Accounts, NEW n \in Names, NEW s \in Stakes, NEW ws \in SUBSET Addresses,
             register(r, n, s, ws)
      PROVE  TypeOK'
  <2>1. PayStake(r, r, s) /\ s \in Nat /\ r \in Addresses
    BY <1>2 DEF register, Addresses
  <2>2. /\ workers' \in [Addresses -> Addresses] /\ ensHash' \in [Addresses -> Names]
        /\ registrants' \subseteq Accounts
        /\ balance' \in [Addresses -> Nat]
    BY <1>2, <2>1 DEF register, TypeOK
  <2> QED
    BY <1>2, <2>1, <2>2, PayStakeType DEF register, TypeOK, feeManager
<1>3. ASSUME NEW s \in Accounts, NEW r \in Addresses, NEW w \in Addresses, registerWorker(s, r, w)
      PROVE  TypeOK'
  BY <1>3 DEF registerWorker, TypeOK, feeManager
<1>4. ASSUME NEW s \in Accounts, NEW w \in Addresses, unregisterWorker(s, w)
      PROVE  TypeOK'
  <2>1. workers' \in [Addresses -> Addresses]
    BY <1>4 DEF unregisterWorker, TypeOK, Addresses
  <2> QED
    BY <1>4, <2>1 DEF unregisterWorker, TypeOK, feeManager
<1>5. ASSUME NEW s \in Accounts, NEW r \in Addresses, NEW a \in Stakes, stakeToRelayer(s, r, a)
      PROVE  TypeOK'
  <2>1. PayStake(s, r, a) /\ a \in Nat
    BY <1>5 DEF stakeToRelayer
  <2>2. balance' \in [Addresses -> Nat]
    BY <1>5, <2>1 DEF stakeToRelayer, TypeOK
  <2> QED
    BY <1>5, <2>1, <2>2, PayStakeType DEF stakeToRelayer, TypeOK, feeManager
<1>6. ASSUME NEW router \in Routers, NEW s \in Accounts, NEW r \in Addresses, NEW p \in Pools,
             withdraw(router, s, r, p)
      PROVE  TypeOK'
  <2>1. CASE BurnOfRelayer(s, r, p)
    <3>1. /\ instanceFee' \in [Pools -> Nat] /\ instanceFeeUpdated' \in [Pools -> Nat]
          /\ balance' \in [Addresses -> Nat] /\ totalBurnRewards' \in Nat
      BY <2>1, BurnFacts
    <3> QED
      BY <1>6, <3>1 DEF withdraw, TypeOK
  <2>2. CASE CustomRelayer(s, r)
    BY <1>6, <2>2 DEF withdraw, CustomRelayer, TypeOK, feeManager
  <2> QED
    BY <1>6, <2>1, <2>2 DEF withdraw, burn
<1>7. ASSUME NEW p \in Pools, UpdateFee(p) PROVE TypeOK'
  <2>1. instanceFee' \in [Pools -> Nat] /\ instanceFeeUpdated' \in [Pools -> Nat]
    BY <1>7, UpdateFeeType DEF UpdateFee
  <2> QED
    BY <1>7, <2>1 DEF UpdateFee, TypeOK
<1>8. ASSUME NEW r \in Addresses, nullifyBalance(r) PROVE TypeOK'
  <2>1. balance' \in [Addresses -> Nat] /\ nullified' \in Nat
    BY <1>8 DEF nullifyBalance, TypeOK
  <2> QED
    BY <1>8, <2>1 DEF nullifyBalance, TypeOK, feeManager
<1>9. ASSUME NEW a \in Stakes, addBurnRewards(a) \/ withdrawTorn(a) PROVE TypeOK'
  <2>1. totalBurnRewards' \in Nat /\ granted' \in Nat /\ staked' \in Nat
    BY <1>9 DEF addBurnRewards, withdrawTorn, TypeOK
  <2> QED
    BY <1>9, <2>1 DEF addBurnRewards, withdrawTorn, TypeOK, feeManager
<1>10. ASSUME NEW z \in Accounts, NEW a \in Stakes, setReward(z, a) PROVE TypeOK'
  <2>1. accumulatedRewards' \in [Accounts -> Nat]
    BY <1>10 DEF setReward, TypeOK
  <2> QED
    BY <1>10, <2>1 DEF setReward, TypeOK, feeManager
<1>11. ASSUME NEW z \in Accounts, getReward(z) PROVE TypeOK'
  <2>1. /\ accumulatedRewards' \in [Accounts -> Nat] /\ staked' \in Nat
        /\ torn' \in [Accounts -> Nat]
    BY <1>11 DEF getReward, TypeOK
  <2> QED
    BY <1>11, <2>1 DEF getReward, TypeOK, feeManager
<1>12. ASSUME GovernanceSets PROVE TypeOK'
  <2>1. minStakeAmount' \in Nat /\ tornadoRouter' \in Routers /\ updateFeeTimeLimit' \in Nat
    BY <1>12 DEF GovernanceSets, TypeOK
  <2> QED
    BY <1>12, <2>1 DEF GovernanceSets, TypeOK, feeManager
<1>13. ASSUME NEW p \in Pools, MarketMoves(p) PROVE TypeOK'
  <2>1. marketFee' \in [Pools -> Nat \cup {NoPrice}]
    BY <1>13 DEF MarketMoves, TypeOK
  <2> QED
    BY <1>13, <2>1 DEF MarketMoves, TypeOK, feeManager
<1>14. ASSUME NEW n \in Names, NEW z \in Accounts, setOwner(n, z) PROVE TypeOK'
  BY <1>14 DEF setOwner, TypeOK, feeManager
<1>15. ASSUME Tick PROVE TypeOK'
  BY <1>15 DEF Tick, TypeOK, feeManager
<1> QED
  BY <1>1, <1>2, <1>3, <1>4, <1>5, <1>6, <1>7, <1>8, <1>9, <1>10, <1>11, <1>12, <1>13,
     <1>14, <1>15 DEF Next

\* TypeOK, which includes that no burn or reward takes a balance below zero.
THEOREM TypeCorrect == Spec => []TypeOK
BY InitType, TypeStep, PTL DEF Spec

-----------------------------------------------------------------------------
(* Workers and masters.                                                     *)

RegistryInv == TypeOK /\ WorkersResolve

\* Only three operations write `workers`, `ensHash` or the history of registrations.
LEMMA RegistryWrites ==
    ASSUME [Next]_vars
    PROVE  \/ UNCHANGED <<registry, registrants>>
           \/ \E r \in Accounts, n \in Names, s \in Stakes, ws \in SUBSET Addresses :
                 register(r, n, s, ws)
           \/ \E s \in Accounts, r, w \in Addresses : registerWorker(s, r, w)
           \/ \E s \in Accounts, w \in Addresses : unregisterWorker(s, w)
BY DEF Next, vars, history, stakeToRelayer, withdraw, UpdateFee, nullifyBalance, addBurnRewards,
       withdrawTorn, setReward, getReward, GovernanceSets, MarketMoves, setOwner, Tick

LEMMA RegisterKeeps ==
    ASSUME RegistryInv, NEW r \in Accounts, NEW n \in Names, NEW s \in Stakes,
           NEW ws \in SUBSET Addresses, register(r, n, s, ws)
    PROVE  /\ WorkersResolve'
           /\ \A m \in Accounts : workers[m] = m => workers'[m] = m /\ ensHash'[m] = ensHash[m]
<1>1. /\ r \in Addresses /\ r # NoAddress /\ workers[r] = NoAddress /\ r \notin ws
      /\ registrants' = registrants \cup {r}
      /\ \A w \in ws : workers[w] = NoAddress
      /\ workers' = [a \in Addresses |-> IF a \in ws \cup {r} THEN r ELSE workers[a]]
      /\ ensHash' = [ensHash EXCEPT ![r] = n]
  BY RegistryAssumption DEF register, Addresses
<1>2. workers \in [Addresses -> Addresses] /\ ensHash \in [Addresses -> Names]
  BY DEF RegistryInv, TypeOK
<1>3. ensHash'[r] = n /\ \A a \in Addresses : a # r => ensHash'[a] = ensHash[a]
  BY <1>1, <1>2
<1>4. ASSUME NEW a \in Addresses, workers'[a] # NoAddress
      PROVE  workers'[workers'[a]] = workers'[a] /\ workers'[a] \in registrants'
  <2>1. CASE a \in ws \cup {r}
    BY <1>1, <1>3, <2>1
  <2>2. CASE a \notin ws \cup {r}
    <3> DEFINE m == workers[a]
    <3>1. workers'[a] = m /\ m \in Addresses /\ m # NoAddress
      BY <1>1, <1>2, <1>4, <2>2
    <3>2. workers[m] = m /\ m \in registrants
      BY <3>1 DEF RegistryInv, WorkersResolve
    <3>3. m \notin ws \cup {r}
      BY <1>1, <3>1, <3>2
    <3> QED
      BY <1>1, <1>3, <3>1, <3>2, <3>3
  <2> QED
    BY <2>1, <2>2
<1>5. ASSUME NEW m \in Accounts, workers[m] = m
      PROVE  workers'[m] = m /\ ensHash'[m] = ensHash[m]
  <2>1. m \in Addresses /\ m # NoAddress
    BY RegistryAssumption DEF Addresses
  <2> QED
    BY <1>1, <1>3, <1>5, <2>1
<1> QED
  BY <1>4, <1>5 DEF WorkersResolve

LEMMA RegisterWorkerKeeps ==
    ASSUME RegistryInv, NEW s \in Accounts, NEW r \in Addresses, NEW w \in Addresses,
           registerWorker(s, r, w)
    PROVE  /\ WorkersResolve'
           /\ \A m \in Accounts : workers[m] = m => workers'[m] = m /\ ensHash'[m] = ensHash[m]
<1>1. /\ workers[s] = r /\ workers[w] = NoAddress /\ UNCHANGED <<ensHash, registrants>>
      /\ workers' = [workers EXCEPT ![w] = r] /\ s \in Addresses
  BY DEF registerWorker, Addresses, history
<1>2. workers \in [Addresses -> Addresses]
  BY DEF RegistryInv, TypeOK
<1>3. \A a \in Addresses : workers'[a] = IF a = w THEN r ELSE workers[a]
  BY <1>1, <1>2
<1>4. r # NoAddress => workers[r] = r /\ r \in registrants /\ r # w
  BY <1>1 DEF RegistryInv, WorkersResolve
<1>5. ASSUME NEW a \in Addresses, workers'[a] # NoAddress
      PROVE  workers'[workers'[a]] = workers'[a] /\ workers'[a] \in registrants'
  <2>1. CASE a = w
    BY <1>1, <1>3, <1>4, <1>5, <2>1
  <2>2. CASE a # w
    <3> DEFINE m == workers[a]
    <3>1. workers'[a] = m /\ m \in Addresses /\ m # NoAddress
      BY <1>2, <1>3, <1>5, <2>2
    <3>2. workers[m] = m /\ m \in registrants
      BY <3>1 DEF RegistryInv, WorkersResolve
    <3>3. m # w
      BY <1>1, <3>1, <3>2
    <3> QED
      BY <1>1, <1>3, <3>1, <3>2, <3>3
  <2> QED
    BY <2>1, <2>2
<1>6. ASSUME NEW m \in Accounts, workers[m] = m PROVE workers'[m] = m
  <2>1. m \in Addresses /\ m # NoAddress
    BY RegistryAssumption DEF Addresses
  <2> QED
    BY <1>1, <1>3, <1>6, <2>1
<1> QED
  BY <1>1, <1>5, <1>6 DEF WorkersResolve

LEMMA UnregisterWorkerKeeps ==
    ASSUME RegistryInv, NEW s \in Accounts, NEW w \in Addresses, unregisterWorker(s, w)
    PROVE  /\ WorkersResolve'
           /\ \A m \in Accounts : workers[m] = m => workers'[m] = m /\ ensHash'[m] = ensHash[m]
<1>1. /\ workers[w] # w /\ UNCHANGED <<ensHash, registrants>>
      /\ workers' = [workers EXCEPT ![w] = NoAddress]
  BY DEF unregisterWorker, history
<1>2. workers \in [Addresses -> Addresses]
  BY DEF RegistryInv, TypeOK
<1>3. \A a \in Addresses : workers'[a] = IF a = w THEN NoAddress ELSE workers[a]
  BY <1>1, <1>2
<1>4. ASSUME NEW a \in Addresses, workers'[a] # NoAddress
      PROVE  workers'[workers'[a]] = workers'[a] /\ workers'[a] \in registrants'
  <2> DEFINE m == workers[a]
  <2>1. workers'[a] = m /\ m \in Addresses /\ m # NoAddress
    BY <1>2, <1>3, <1>4
  <2>2. workers[m] = m /\ m \in registrants
    BY <2>1 DEF RegistryInv, WorkersResolve
  <2>3. m # w
    BY <1>1, <2>2
  <2> QED
    BY <1>1, <1>3, <2>1, <2>2, <2>3
<1>5. ASSUME NEW m \in Accounts, workers[m] = m PROVE workers'[m] = m
  BY <1>1, <1>3, <1>5 DEF Addresses
<1> QED
  BY <1>1, <1>4, <1>5 DEF WorkersResolve

LEMMA RegistryStep ==
    ASSUME RegistryInv, [Next]_vars
    PROVE  /\ WorkersResolve'
           /\ \A m \in Accounts : workers[m] = m => workers'[m] = m /\ ensHash'[m] = ensHash[m]
<1>1. CASE UNCHANGED <<registry, registrants>>
  BY <1>1 DEF RegistryInv, WorkersResolve, registry
<1> QED
  BY <1>1, RegistryWrites, RegisterKeeps, RegisterWorkerKeeps, UnregisterWorkerKeeps

LEMMA RegistryInvHolds == Spec => []RegistryInv
<1>1. Init => RegistryInv
  BY InitType DEF Init, RegistryInv, WorkersResolve
<1>2. RegistryInv /\ [Next]_vars => RegistryInv'
  BY TypeStep, RegistryStep DEF RegistryInv
<1> QED
  BY <1>1, <1>2, PTL DEF Spec

\* One lookup is enough, for any tangle of workers and any name, the empty one included: it
\* ends at an account that registered itself.
THEOREM LookupsResolve == Spec => []WorkersResolve
BY RegistryInvHolds, PTL DEF RegistryInv

\* A registration cannot be taken away.
THEOREM RegistrationsLast == Spec => MastersStay
<1>1. RegistryInv /\ [Next]_vars =>
         [\A m \in Accounts : workers[m] = m => workers'[m] = m /\ ensHash'[m] = ensHash[m]]_vars
  BY RegistryStep
<1> QED
  BY <1>1, RegistryInvHolds, PTL DEF MastersStay, Spec

-----------------------------------------------------------------------------
(* Stakes.                                                                  *)

\* register overwrites the balance: there is none to overwrite, since an account that is no
\* master never was one.
StakeInv ==
    /\ RegistryInv
    /\ \A a \in Accounts : workers[a] # a => balance[a] = 0

LEMMA NoStakeStep ==
    ASSUME StakeInv, [Next]_vars, NEW a \in Accounts, workers'[a] # a
    PROVE  balance'[a] = 0
<1>1. TypeOK /\ WorkersResolve /\ TypeOK'
  BY TypeStep DEF StakeInv, RegistryInv
<1>2. a \in Addresses /\ a # NoAddress
  BY RegistryAssumption DEF Addresses
<1>3. workers[a] # a
  BY RegistryStep DEF StakeInv
<1>4. balance[a] = 0 /\ balance \in [Addresses -> Nat]
  BY <1>1, <1>3 DEF StakeInv, TypeOK
<1>6. ASSUME NEW r \in Accounts, NEW n \in Names, NEW s \in Stakes, NEW ws \in SUBSET Addresses,
             register(r, n, s, ws)
      PROVE  balance'[a] = 0
  <2>1. /\ workers' = [x \in Addresses |-> IF x \in ws \cup {r} THEN r ELSE workers[x]]
        /\ balance' = [balance EXCEPT ![r] = s] /\ r \in Addresses
    BY <1>6 DEF register, Addresses
  <2>2. a # r
    BY <1>2, <2>1
  <2> QED
    BY <1>2, <1>4, <2>1, <2>2
<1>7. ASSUME NEW s \in Accounts, NEW r \in Addresses, NEW n \in Stakes, stakeToRelayer(s, r, n)
      PROVE  balance'[a] = 0
  <2>1. balance' = [balance EXCEPT ![r] = @ + n] /\ workers[r] = r
    BY <1>7 DEF stakeToRelayer
  <2> QED
    BY <1>2, <1>4, <1>3, <2>1
<1>8. ASSUME NEW r \in Addresses, nullifyBalance(r) PROVE balance'[a] = 0
  <2>1. balance' = [balance EXCEPT ![r] = 0]
    BY <1>8 DEF nullifyBalance
  <2> QED
    BY <1>2, <1>4, <2>1
<1>9. ASSUME NEW router \in Routers, NEW s \in Accounts, NEW r \in Addresses, NEW p \in Pools,
             withdraw(router, s, r, p)
      PROVE  balance'[a] = 0
  <2>1. CASE BurnOfRelayer(s, r, p)
    <3>1. workers[s] = r /\ workers[s] # NoAddress /\ s \in Addresses
      BY <2>1 DEF BurnOfRelayer, Addresses
    <3>2. workers[r] = r
      BY <1>1, <3>1 DEF WorkersResolve
    <3>3. balance' = [balance EXCEPT ![r] = @ - instanceFee'[p]]
      BY <1>1, <2>1, BurnFacts
    <3> QED
      BY <1>2, <1>4, <1>3, <3>2, <3>3
  <2>2. CASE CustomRelayer(s, r)
    BY <1>4, <2>2 DEF CustomRelayer
  <2> QED
    BY <1>9, <2>1, <2>2 DEF withdraw, burn
<1>10. CASE balance' = balance
  BY <1>4, <1>10
<1> QED
  BY <1>6, <1>7, <1>8, <1>9, <1>10 DEF Next, vars, registerWorker, unregisterWorker, UpdateFee,
     addBurnRewards, withdrawTorn, setReward, getReward, GovernanceSets, MarketMoves, setOwner,
     Tick

LEMMA StakeInvHolds == Spec => []StakeInv
<1>1. Init => StakeInv
  BY InitType DEF Init, StakeInv, RegistryInv, WorkersResolve, Addresses
<1>2. StakeInv /\ [Next]_vars => StakeInv'
  BY TypeStep, RegistryStep, NoStakeStep DEF StakeInv, RegistryInv
<1> QED
  BY <1>1, <1>2, PTL DEF Spec

LEMMA StakeStep ==
    ASSUME StakeInv, Next, NEW m \in Addresses, balance'[m] < balance[m]
    PROVE  \/ nullifyBalance(m)
           \/ \E router \in Routers, s \in Accounts, p \in Pools :
                /\ withdraw(router, s, m, p)
                /\ workers[s] = m
                /\ now - instanceFeeUpdated'[p] <= updateFeeTimeLimit
                /\ balance[m] - balance'[m] = instanceFee'[p]
<1>0. TypeOK
  BY DEF StakeInv, RegistryInv
<1>1. balance \in [Addresses -> Nat]
  BY <1>0 DEF TypeOK
<1>2. balance' # balance
  BY <1>1
<1>3. ASSUME NEW r \in Accounts, NEW n \in Names, NEW s \in Stakes, NEW ws \in SUBSET Addresses,
             register(r, n, s, ws)
      PROVE  FALSE
  <2>1. balance' = [balance EXCEPT ![r] = s] /\ s \in Nat
    BY <1>3, RegistryAssumption DEF register
  <2>2. m = r
    BY <1>1, <2>1 DEF Addresses
  <2>3. balance[r] = 0
    BY <1>3, RegistryAssumption DEF register, StakeInv
  <2> QED
    BY <1>1, <2>1, <2>2, <2>3
<1>4. ASSUME NEW s \in Accounts, NEW r \in Addresses, NEW a \in Stakes, stakeToRelayer(s, r, a)
      PROVE  FALSE
  <2>1. balance' = [balance EXCEPT ![r] = @ + a] /\ a \in Nat
    BY <1>4, RegistryAssumption DEF stakeToRelayer
  <2> QED
    BY <1>1, <2>1
<1>5. ASSUME NEW r \in Addresses, nullifyBalance(r) PROVE nullifyBalance(m)
  <2>1. balance' = [balance EXCEPT ![r] = 0]
    BY <1>5 DEF nullifyBalance
  <2>2. m = r
    BY <1>1, <2>1
  <2> QED
    BY <1>5, <2>2
<1>6. ASSUME NEW router \in Routers, NEW s \in Accounts, NEW r \in Addresses, NEW p \in Pools,
             withdraw(router, s, r, p)
      PROVE  /\ withdraw(router, s, m, p) /\ workers[s] = m
             /\ now - instanceFeeUpdated'[p] <= updateFeeTimeLimit
             /\ balance[m] - balance'[m] = instanceFee'[p]
  <2>1. BurnOfRelayer(s, r, p)
    BY <1>2, <1>6 DEF withdraw, burn, CustomRelayer
  <2>2. /\ instanceFee'[p] \in Nat /\ balance' = [balance EXCEPT ![r] = @ - instanceFee'[p]]
        /\ workers[s] = r /\ now - instanceFeeUpdated'[p] <= updateFeeTimeLimit
    BY <1>0, <2>1, BurnFacts
  <2>3. m = r
    BY <1>1, <2>2
  <2> QED
    BY <1>1, <1>6, <2>2, <2>3
<1> QED
  BY <1>2, <1>3, <1>4, <1>5, <1>6 DEF Next, registerWorker, unregisterWorker, UpdateFee,
     addBurnRewards, withdrawTorn, setReward, getReward, GovernanceSets, MarketMoves, setOwner,
     Tick

\* No stake shrinks except by governance, or by exactly a fee that is not stale, for a
\* withdrawal that pays that relayer and was sent by one of its own addresses.
THEOREM StakesBurnOnlyForOwner == Spec => StakeBurnedForOwner
<1>1. StakeInv /\ [Next]_vars =>
         [\A m \in Addresses : balance'[m] < balance[m] =>
             \/ nullifyBalance(m)
             \/ \E router \in Routers, s \in Accounts, p \in Pools :
                   /\ withdraw(router, s, m, p)
                   /\ workers[s] = m
                   /\ now - instanceFeeUpdated'[p] <= updateFeeTimeLimit
                   /\ balance[m] - balance'[m] = instanceFee'[p]]_vars
  BY StakeStep
<1> QED
  BY <1>1, StakeInvHolds, PTL DEF StakeBurnedForOwner, Spec

-----------------------------------------------------------------------------
(* The TORN the stakes add up to.                                           *)

LEMMA TotalStake ==
    ASSUME NEW b \in [Addresses -> Nat]
    PROVE  IsFiniteSet(Addresses) /\ SumFunctionOnSet(b, Addresses) \in Nat
<1>1. IsFiniteSet(Addresses)
  BY RegistryAssumption, FS_AddElement DEF Addresses
<1> QED
  BY <1>1, SumType

\* When one balance changes, the total changes by as much.
LEMMA TotalStakeStep ==
    ASSUME balance \in [Addresses -> Nat], balance' \in [Addresses -> Nat], NEW r \in Addresses,
           \A a \in Addresses : a # r => balance'[a] = balance[a]
    PROVE  /\ SumFunctionOnSet(balance', Addresses)
                 = SumFunctionOnSet(balance, Addresses) + balance'[r] - balance[r]
           /\ balance[r] \in Nat /\ balance'[r] \in Nat
<1>1. \A a \in Addresses : balance[a] \in Nat /\ balance'[a] \in Nat
  OBVIOUS
<1>2. SumFunctionOnSet(balance', Addresses)
         = SumFunctionOnSet(balance, Addresses) + balance'[r] - balance[r]
  BY <1>1, TotalStake, SumUpdate
<1> QED
  BY <1>1, <1>2

LEMMA StakeAccountedStep ==
    ASSUME StakeInv, StakeAccounted, [Next]_vars
    PROVE  StakeAccounted'
<1> USE RegistryAssumption
<1> DEFINE total == SumFunctionOnSet(balance, Addresses)
           others(r) == \A a \in Addresses : a # r => balance'[a] = balance[a]
<1>1. TypeOK /\ balance \in [Addresses -> Nat] /\ balance' \in [Addresses -> Nat]
  BY TypeStep DEF StakeInv, RegistryInv, TypeOK
<1>2. /\ totalBurnRewards \in Nat /\ nullified \in Nat /\ paidIn \in Nat /\ granted \in Nat
      /\ total \in Nat
  BY <1>1, TotalStake DEF TypeOK
<1>3. total + totalBurnRewards + nullified = paidIn + granted
  BY DEF StakeAccounted
<1>4. ASSUME NEW r \in Addresses, others(r)
      PROVE  total' = total + balance'[r] - balance[r] /\ balance[r] \in Nat /\ balance'[r] \in Nat
  BY <1>1, <1>4, TotalStakeStep
<1>5. StakeAccounted' <=> total' + totalBurnRewards' + nullified' = paidIn' + granted'
  BY DEF StakeAccounted
<1> HIDE DEF total
<1>6. ASSUME NEW r \in Accounts, NEW n \in Names, NEW s \in Stakes, NEW ws \in SUBSET Addresses,
             register(r, n, s, ws)
      PROVE  StakeAccounted'
  <2>1. /\ r \in Addresses /\ others(r) /\ balance'[r] = s /\ s \in Nat
        /\ paidIn' = paidIn + s /\ UNCHANGED <<nullified, granted, totalBurnRewards>>
    BY <1>1, <1>6 DEF register, PayStake, Addresses
  <2>2. balance[r] = 0
    BY <1>6 DEF register, StakeInv
  <2> QED
    BY <1>2, <1>3, <1>4, <1>5, <2>1, <2>2
<1>7. ASSUME NEW s \in Accounts, NEW r \in Addresses, NEW n \in Stakes, stakeToRelayer(s, r, n)
      PROVE  StakeAccounted'
  <2>1. /\ others(r) /\ balance'[r] = balance[r] + n /\ n \in Nat
        /\ paidIn' = paidIn + n /\ UNCHANGED <<nullified, granted, totalBurnRewards>>
    BY <1>1, <1>7 DEF stakeToRelayer, PayStake
  <2> QED
    BY <1>2, <1>3, <1>4, <1>5, <2>1
<1>8. ASSUME NEW r \in Addresses, nullifyBalance(r) PROVE StakeAccounted'
  <2>1. /\ others(r) /\ balance'[r] = 0 /\ nullified' = nullified + balance[r]
        /\ UNCHANGED <<paidIn, granted, totalBurnRewards>>
    BY <1>1, <1>8 DEF nullifyBalance, staking
  <2> QED
    BY <1>2, <1>3, <1>4, <1>5, <2>1
<1>9. ASSUME NEW router \in Routers, NEW s \in Accounts, NEW r \in Addresses, NEW p \in Pools,
             withdraw(router, s, r, p)
      PROVE  StakeAccounted'
  <2>1. CASE BurnOfRelayer(s, r, p)
    <3> DEFINE fee == instanceFee'[p]
    <3>1. fee \in Nat /\ balance' = [balance EXCEPT ![r] = @ - fee]
      BY <1>1, <2>1, BurnFacts
    <3>2. totalBurnRewards' = totalBurnRewards + fee /\ UNCHANGED history
      BY <1>9, <2>1 DEF BurnOfRelayer, withdraw
    <3> HIDE DEF fee
    <3>3. others(r) /\ balance'[r] = balance[r] - fee
      BY <1>1, <3>1
    <3> QED
      BY <1>2, <1>3, <1>4, <1>5, <3>1, <3>2, <3>3 DEF history
  <2>2. CASE CustomRelayer(s, r)
    BY <1>9, <2>2 DEF withdraw, CustomRelayer, StakeAccounted, history
  <2> QED
    BY <1>9, <2>1, <2>2 DEF withdraw, burn
<1>10. ASSUME NEW amount \in Stakes, addBurnRewards(amount) PROVE StakeAccounted'
  <2>1. /\ totalBurnRewards' = totalBurnRewards + amount /\ granted' = granted + amount
        /\ amount \in Nat /\ UNCHANGED <<balance, paidIn, nullified>>
    BY <1>10 DEF addBurnRewards
  <2>2. total' = total
    BY <2>1 DEF total
  <2> QED
    BY <1>2, <1>3, <1>5, <2>1, <2>2
<1>11. CASE UNCHANGED <<balance, totalBurnRewards, history>>
  BY <1>11 DEF StakeAccounted, history
<1> QED
  BY <1>6, <1>7, <1>8, <1>9, <1>10, <1>11 DEF Next, vars, staking, registerWorker,
     unregisterWorker, UpdateFee, withdrawTorn, setReward, getReward, GovernanceSets,
     MarketMoves, setOwner, Tick

\* No path counts a stake twice or loses it: what is staked, burned and nullified is what was
\* paid in, with what governance credited, for any number of relayers.
THEOREM StakesAddUp == Spec => []StakeAccounted
<1>1. Init => StakeAccounted
  <2> SUFFICES ASSUME Init PROVE StakeAccounted
    OBVIOUS
  <2>1. IsFiniteSet(Addresses)
    BY RegistryAssumption, FS_AddElement DEF Addresses
  <2>2. balance = [a \in Addresses |-> 0]
    BY DEF Init
  <2>3. SumFunctionOnSet(balance, Addresses) = 0
    BY <2>1, <2>2, SumZero
  <2> QED
    BY <2>3 DEF Init, StakeAccounted
<1>2. StakeInv /\ StakeAccounted /\ [Next]_vars => StakeAccounted'
  BY StakeAccountedStep
<1> QED
  BY <1>1, <1>2, StakeInvHolds, PTL DEF Spec

=============================================================================
