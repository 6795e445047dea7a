--------------------------- MODULE RelayerBootProofs ---------------------------
(***************************************************************************)
(* What a start of the relayer promises, for any set of contracts, owners  *)
(* and masters, any settings and any number of crashes: what it spends,    *)
(* for whom, which pools it serves, and what /status says of it.           *)
(***************************************************************************)
EXTENDS RelayerBoot, ArithmeticTheorems

\* The last start leaves the paymaster to the next one.
Ends == pc = "prepared" /\ Exit /\ UNCHANGED <<stateFile, pending>>

\* The master takes c back, and nothing else changes.
TakenBack(c) ==
    /\ masterOf' = [masterOf EXCEPT ![c] = None]
    /\ UNCHANGED <<deployed, router, stake, staked, deposit, stateFile, pc, paymaster, info, pending,
                   receipt, crashes>>

\* Whatever create, the service and the environment do, this is all they do to the setup.
SetupMoves == Next \/ Ends \/ (\E c \in Contracts : TakenBack(c)) \/ UNCHANGED vars

-----------------------------------------------------------------------------
(* The setup's state.                                                       *)

\* The contract worked on is, from the preflight on, the one the next start will take.
PaymasterInv ==
    /\ pc # "down" => paymaster \in Contracts
    /\ pc \in {"deploying", "routing"} => Configured = None
    /\ pc \notin {"down", "deploying", "routing"} => paymaster = candidate

Passed == {"reading", "staking", "awaiting stake", "funding", "awaiting deposit", "registering",
           "prepared"}

\* Past the preflight it is of this release and has the router.
PreflightInv ==
    pc \in Passed => paymaster \notin Foreign /\ (Router # None => router[paymaster] = Router)

Kinds == {"addStake", "deposit"}

Limit(kind) == IF kind = "addStake" THEN StakeWei ELSE DepositWei

\* Where the service waits for a transaction of its own.
WaitsAt(kind) ==
    CASE kind = "deploy" -> "deploying"
      [] kind = "setRouter" -> "routing"
      [] kind = "addStake" -> "awaiting stake"
      [] kind = "deposit" -> "awaiting deposit"

\* A start has one transaction under way, the one it waits for.
PendingInv ==
    /\ IsFiniteSet(pending)
    /\ \A t \in pending :
        /\ t.life <= crashes
        /\ t.kind \in Kinds => t.wei <= Limit(t.kind)
        /\ t.kind = "setRouter" => Router # None
        /\ t.life = crashes =>
              /\ pc = WaitsAt(t.kind) /\ receipt = None
              /\ \A u \in pending : u.life = crashes => u = t

SetupInv == TypeOK /\ PaymasterInv /\ PreflightInv /\ PendingInv

-----------------------------------------------------------------------------
(* What is under way for a contract.                                        *)

Sent(kind, c) == {t \in pending : t.kind = kind /\ t.contract = c}

\* What an earlier start sent.
Old(kind, c) == {t \in Sent(kind, c) : t.life # crashes}

\* Earlier starts left no more under way than one payment each.
OldInv == \A kind \in Kinds, c \in Contracts : SumOver(Old(kind, c)) <= Limit(kind) * crashes

\* What the EntryPoint holds for each contract, and what the service read of its own.
Balance(kind) == IF kind = "addStake" THEN stake ELSE deposit

Seen(kind) == IF kind = "addStake" THEN info.stake ELSE info.deposit

\* Where it is about to send, or has yet to.
StillToSend(kind) == IF kind = "addStake" THEN {"staking"} ELSE {"staking", "awaiting stake", "funding"}

\* What the service read is still right, but for the payments of earlier starts.
ReadInv ==
    \A kind \in Kinds : pc \in StillToSend(kind) =>
        Balance(kind)[paymaster] + SumOver(Old(kind, paymaster)) <= Seen(kind) + Limit(kind) * crashes

\* SpendingBounded, for the stake and the deposit alike.
BoundInv ==
    \A kind \in Kinds, c \in Contracts : kind = "deposit" \/ c # Configured =>
        Balance(kind)[c] + SumOver(Sent(kind, c)) <= Limit(kind) * (1 + crashes)

SpendingInv == SetupInv /\ OldInv /\ ReadInv /\ BoundInv

-----------------------------------------------------------------------------
(* Types, and the transaction under way.                                    *)

LEMMA CandidateType ==
    ASSUME TypeOK
    PROVE  candidate \in Contracts \cup {None} /\ (candidate # None => candidate \in Contracts)
BY SetupAssumption DEF TypeOK, candidate

LEMMA InitSetup == Init => SetupInv
<1> SUFFICES ASSUME Init PROVE SetupInv
  OBVIOUS
<1> USE SetupAssumption DEF Init
<1>1. TypeOK
  <2>1. PICK wei \in StakedBefore : stake = [c \in Contracts |-> IF c = Configured THEN wei ELSE 0]
    OBVIOUS
  <2>2. stake \in [Contracts -> Nat] /\ staked \in [Contracts -> BOOLEAN]
    BY <2>1
  <2>3. deployed \in SUBSET Contracts
    BY DEF Predeployed
  <2>4. deposit \in [Contracts -> Nat]
        /\ masterOf \in [Contracts -> OtherMasters \cup {Master, None} \cup Contracts]
    OBVIOUS
  <2> QED
    BY <2>2, <2>3, <2>4 DEF TypeOK, NoInfo
<1>2. PaymasterInv /\ PreflightInv /\ PendingInv
  BY FS_EmptySet DEF PaymasterInv, PreflightInv, PendingInv, Passed
<1> QED
  BY <1>1, <1>2 DEF SetupInv

LEMMA CreditType ==
    ASSUME NEW f \in [Contracts -> Nat], NEW t, t.contract \in Contracts, t.wei \in Nat
    PROVE  Credit(f, t) \in [Contracts -> Nat]
<1>1. f[t.contract] + t.wei \in Nat
  OBVIOUS
<1> QED
  BY <1>1 DEF Credit

LEMMA CrashCount ==
    ASSUME TypeOK
    PROVE  crashes \in Nat /\ MaxCrashes \in Nat
<1>1. crashes \in 0 .. MaxCrashes /\ MaxCrashes \in Nat
  BY SetupAssumption DEF TypeOK
<1> QED
  BY <1>1

LEMMA CrashTypes ==
    ASSUME crashes \in 0 .. MaxCrashes, crashes < MaxCrashes
    PROVE  crashes + 1 \in 0 .. MaxCrashes
<1>1. MaxCrashes \in Nat
  BY SetupAssumption
<1> QED
  BY <1>1

\* The chain and those who act on it keep the types.
LEMMA EnvironmentTypes ==
    ASSUME TypeOK, Environment
    PROVE  TypeOK'
<1> USE SetupAssumption
<1>1. ASSUME NEW t \in pending, NEW ok \in BOOLEAN, Mine(t, ok)
      PROVE  TypeOK'
  <2>1. t.contract \in Contracts /\ t.wei \in Nat
    BY DEF TypeOK, Txs
  <2>2. deployed' \in SUBSET Contracts /\ router' \in [Contracts -> {Router, None}]
        /\ staked' \in [Contracts -> BOOLEAN]
    BY <1>1, <2>1 DEF Mine, Execute, TypeOK
  <2>3. stake' \in [Contracts -> Nat] /\ deposit' \in [Contracts -> Nat]
    <3>1. Credit(stake, t) \in [Contracts -> Nat] /\ Credit(deposit, t) \in [Contracts -> Nat]
      BY <2>1, CreditType DEF TypeOK
    <3>2. stake' \in {stake, Credit(stake, t)} /\ deposit' \in {deposit, Credit(deposit, t)}
      BY <1>1 DEF Mine, Execute
    <3> QED
      BY <3>1, <3>2 DEF TypeOK
  <2> QED
    BY <1>1, <2>2, <2>3 DEF Mine, TypeOK
<1>2. ASSUME NEW c \in Contracts, UnlockStake(c)
      PROVE  TypeOK'
  BY <1>2 DEF UnlockStake, TypeOK
<1>3. ASSUME NEW c \in Contracts, NEW m \in OtherMasters \cup {Master} \cup Contracts, Register(m, c)
      PROVE  TypeOK'
  BY <1>3 DEF Register, TypeOK
<1> QED
  BY <1>1, <1>2, <1>3 DEF Environment, expectedMaster

\* A transaction the service sends is one.
LEMMA SendTypes ==
    ASSUME TypeOK, NEW kind \in {"deploy", "setRouter", "addStake", "deposit"}, NEW c \in Contracts,
           NEW wei \in Nat, Send(kind, c, wei)
    PROVE  pending' \in SUBSET Txs /\ receipt' = None
<1>1. [kind |-> kind, contract |-> c, wei |-> wei, life |-> crashes] \in Txs
  BY DEF TypeOK, Txs
<1> QED
  BY <1>1 DEF Send, TypeOK

LEMMA ServiceTypes ==
    ASSUME SetupInv, Service
    PROVE  TypeOK'
<1> USE SetupAssumption DEF SetupInv
<1>1. CASE Start
  BY <1>1, CandidateType DEF Start, Goto, chain, TypeOK
<1>2. CASE Deploy
  <2>1. PICK c \in Contracts \ (deployed \cup {t.contract : t \in pending}) :
          Send("deploy", c, 0) /\ paymaster' = c
    BY <1>2 DEF Deploy
  <2>2. pending' \in SUBSET Txs /\ receipt' = None
    BY <2>1, SendTypes
  <2> QED
    BY <1>2, <2>1, <2>2 DEF Deploy, Goto, chain, TypeOK
<1>3. CASE DeployMined
  <2>1. CASE receipt = "success" /\ Router # None
    <3>1. paymaster \in Contracts /\ Send("setRouter", paymaster, 0)
      BY <1>3, <2>1 DEF DeployMined, PaymasterInv
    <3>2. pending' \in SUBSET Txs /\ receipt' = None
      BY <3>1, SendTypes
    <3> QED
      BY <1>3, <2>1, <3>2 DEF DeployMined, Goto, chain, TypeOK
  <2>2. CASE receipt = "success" /\ Router = None
    BY <1>3, <2>2 DEF DeployMined, Goto, chain, TypeOK
  <2>3. CASE receipt = "reverted"
    BY <1>3, <2>3 DEF DeployMined, Exit, Goto, chain, TypeOK
  <2> QED
    BY <1>3, <2>1, <2>2, <2>3 DEF DeployMined, TypeOK
<1>4. CASE RouterMined
  BY <1>4 DEF RouterMined, SaveState, Goto, chain, TypeOK
<1>5. CASE assertPaymasterCompatible
  BY <1>5 DEF assertPaymasterCompatible, Exit, Goto, chain, TypeOK
<1>6. CASE ReadDepositInfo
  BY <1>6 DEF ReadDepositInfo, chain, TypeOK, PaymasterInv
<1>7. CASE AddStake
  <2>1. CASE Send("addStake", paymaster, missingStake) /\ Encodable(missingStake)
             /\ Goto("awaiting stake") /\ UNCHANGED paymaster
    <3>1. paymaster \in Contracts /\ missingStake \in Nat
      <4>1. paymaster \in Contracts
        BY <1>7 DEF AddStake, PaymasterInv
      <4>2. info.stake \in Nat /\ StakeWei \in Nat /\ missingStake >= 0
        BY <2>1 DEF Encodable, TypeOK
      <4> QED
        BY <4>1, <4>2 DEF missingStake
    <3>2. pending' \in SUBSET Txs /\ receipt' = None
      BY <2>1, <3>1, SendTypes
    <3> QED
      BY <1>7, <2>1, <3>2 DEF AddStake, Goto, chain, TypeOK
  <2>2. CASE Exit /\ UNCHANGED pending
    BY <1>7, <2>2 DEF AddStake, Exit, Goto, chain, TypeOK
  <2>3. CASE Goto("funding") /\ UNCHANGED <<paymaster, pending, receipt>>
    BY <1>7, <2>3 DEF AddStake, Goto, chain, TypeOK
  <2> QED
    BY <1>7, <2>1, <2>2, <2>3 DEF AddStake
<1>8. CASE Mined("awaiting stake", "funding") \/ Mined("awaiting deposit", "registering")
  BY <1>8 DEF Mined, Goto, chain, TypeOK
<1>9. CASE TopUp
  <2>1. CASE info.deposit < DepositWei /\ AutoSetup
    <3>1. paymaster \in Contracts /\ DepositWei - info.deposit \in Nat
          /\ Send("deposit", paymaster, DepositWei - info.deposit)
      <4>1. paymaster \in Contracts /\ Send("deposit", paymaster, DepositWei - info.deposit)
        BY <1>9, <2>1 DEF TopUp, PaymasterInv
      <4>2. info.deposit \in Nat /\ DepositWei \in Nat
        BY DEF TypeOK
      <4> QED
        BY <2>1, <4>1, <4>2
    <3>2. pending' \in SUBSET Txs /\ receipt' = None
      BY <3>1, SendTypes
    <3> QED
      BY <1>9, <2>1, <3>2 DEF TopUp, Goto, chain, TypeOK
  <2>2. CASE ~(info.deposit < DepositWei /\ AutoSetup)
    BY <1>9, <2>2 DEF TopUp, Goto, chain, TypeOK
  <2> QED
    BY <2>1, <2>2
<1>10. CASE ensureRegistered
  BY <1>10 DEF ensureRegistered, Exit, Goto, chain, TypeOK
<1> QED
  BY <1>1, <1>2, <1>3, <1>4, <1>5, <1>6, <1>7, <1>8, <1>9, <1>10 DEF Service

LEMMA MoveTypes ==
    ASSUME SetupInv, SetupMoves
    PROVE  TypeOK'
<1> USE SetupAssumption DEF SetupInv
<1>1. CASE Service
  BY <1>1, ServiceTypes
<1>2. CASE Environment
  BY <1>2, EnvironmentTypes
<1>3. CASE Crash
  <2>1. crashes + 1 \in 0 .. MaxCrashes
    BY <1>3, CrashTypes DEF Crash, TypeOK
  <2> QED
    BY <1>3, <2>1 DEF Crash, chain, TypeOK
<1>4. CASE Ends
  BY <1>4 DEF Ends, Exit, Goto, chain, TypeOK
<1>5. ASSUME NEW c \in Contracts, TakenBack(c)
      PROVE  TypeOK'
  BY <1>5 DEF TakenBack, TypeOK
<1>6. CASE UNCHANGED vars
  BY <1>6 DEF vars, chain, TypeOK
<1> QED
  BY <1>1, <1>2, <1>3, <1>4, <1>5, <1>6 DEF SetupMoves, Next

-----------------------------------------------------------------------------
(* The contract worked on, and the transaction under way.                   *)

\* No transaction of this start is under way.
Idle == \A t \in pending : t.life # crashes

\* Nothing is under way where the service does not wait, nor once it has seen the receipt.
LEMMA IdleWhen ==
    ASSUME SetupInv,
           receipt # None \/ pc \notin {"deploying", "routing", "awaiting stake", "awaiting deposit"}
    PROVE  Idle
<1> SUFFICES ASSUME NEW t \in pending, t.life = crashes PROVE FALSE
  BY DEF Idle
<1>1. t.kind \in {"deploy", "setRouter", "addStake", "deposit"}
  BY DEF SetupInv, TypeOK, Txs
<1>2. pc = WaitsAt(t.kind) /\ receipt = None
  BY DEF SetupInv, PendingInv
<1> QED
  BY <1>1, <1>2 DEF WaitsAt

LEMMA PendingTypes ==
    ASSUME TypeOK
    PROVE  \A t \in pending : /\ t \in Txs /\ t.life \in Nat /\ t.wei \in Nat
                              /\ t.contract \in Contracts
<1>1. \A t \in Txs : t.life \in 0 .. MaxCrashes /\ t.wei \in Nat /\ t.contract \in Contracts
  BY DEF Txs
<1>2. 0 .. MaxCrashes \subseteq Nat
  BY CrashCount
<1>3. pending \in SUBSET Txs
  BY DEF TypeOK
<1> QED
  BY <1>1, <1>2, <1>3

LEMMA InfoTypes ==
    ASSUME TypeOK
    PROVE  /\ info.stake \in Nat /\ info.deposit \in Nat
           /\ Limit("addStake") = StakeWei /\ Limit("deposit") = DepositWei
           /\ StakeWei \in Nat /\ DepositWei \in Nat
           /\ \A kind : Limit(kind) \in Nat
BY SetupAssumption DEF TypeOK, Limit

\* Sending, with nothing under way, what is waited for.
LEMMA SendPending ==
    ASSUME SetupInv, Idle,
           NEW kind \in {"deploy", "setRouter", "addStake", "deposit"}, NEW c, NEW wei,
           Send(kind, c, wei), pc' = WaitsAt(kind), crashes' = crashes,
           kind \in Kinds => wei <= Limit(kind), kind = "setRouter" => Router # None
    PROVE  PendingInv'
<1> DEFINE sent == [kind |-> kind, contract |-> c, wei |-> wei, life |-> crashes]
<1>1. pending' = pending \cup {sent} /\ receipt' = None
  BY DEF Send
<1>2. IsFiniteSet(pending')
  BY <1>1, FS_AddElement DEF SetupInv, PendingInv
<1>3. crashes \in Nat
  BY CrashCount DEF SetupInv
<1>4. ASSUME NEW t \in pending'
      PROVE  /\ t.life <= crashes'
             /\ t.kind \in Kinds => t.wei <= Limit(t.kind)
             /\ t.kind = "setRouter" => Router # None
             /\ t.life = crashes' => t = sent
  <2>1. CASE t \in pending
    BY <2>1 DEF SetupInv, PendingInv, Idle
  <2>2. CASE t = sent
    BY <1>3, <2>2
  <2> QED
    BY <1>1, <2>1, <2>2
<1>5. sent.kind = kind
  OBVIOUS
<1> QED
  BY <1>1, <1>2, <1>4, <1>5 DEF PendingInv

\* Sending nothing.
LEMMA KeepPending ==
    ASSUME SetupInv, pending' = pending, crashes' = crashes,
           Idle \/ (pc' = pc /\ receipt' = receipt)
    PROVE  PendingInv'
BY DEF SetupInv, PendingInv, Idle

LEMMA NextPaymaster ==
    ASSUME SetupInv, SetupMoves
    PROVE  PaymasterInv'
<1> USE SetupAssumption DEF SetupInv, PaymasterInv, candidate
<1>1. CASE Start
  BY <1>1 DEF Start, Goto, chain, TypeOK
<1>2. CASE Deploy
  BY <1>2 DEF Deploy, Goto, chain, TypeOK
<1>3. CASE DeployMined
  BY <1>3 DEF DeployMined, Exit, Goto, chain, TypeOK
<1>4. CASE RouterMined
  BY <1>4 DEF RouterMined, SaveState, Goto, chain, TypeOK
<1>5. CASE assertPaymasterCompatible
  BY <1>5 DEF assertPaymasterCompatible, Exit, Goto, chain, TypeOK
<1>6. CASE ReadDepositInfo
  BY <1>6 DEF ReadDepositInfo, chain, TypeOK
<1>7. CASE AddStake
  BY <1>7 DEF AddStake, Exit, Goto, chain, TypeOK
<1>8. CASE Mined("awaiting stake", "funding") \/ Mined("awaiting deposit", "registering")
  BY <1>8 DEF Mined, Goto, chain, TypeOK
<1>9. CASE TopUp
  BY <1>9 DEF TopUp, Goto, chain, TypeOK
<1>10. CASE ensureRegistered
  BY <1>10 DEF ensureRegistered, Exit, Goto, chain, TypeOK
<1>11. CASE Environment
  BY <1>11 DEF Environment, Mine, UnlockStake, Register
<1>12. CASE Crash \/ Ends \/ UNCHANGED vars
  BY <1>12 DEF Crash, Ends, Exit, Goto, vars, chain
<1>13. ASSUME NEW c \in Contracts, TakenBack(c)
       PROVE  PaymasterInv'
  BY <1>13 DEF TakenBack
<1> QED
  BY <1>1, <1>2, <1>3, <1>4, <1>5, <1>6, <1>7, <1>8, <1>9, <1>10, <1>11, <1>12, <1>13
     DEF SetupMoves, Next, Service

\* A contract that has the router keeps it.
LEMMA RouterStays ==
    ASSUME SetupInv, SetupMoves, NEW c \in Contracts
    PROVE  /\ router[c] = Router => router'[c] = Router
           /\ router[c] # None => router'[c] # None
<1> USE DEF SetupInv
<1>1. ASSUME NEW t \in pending, NEW ok \in BOOLEAN, Mine(t, ok)
      PROVE  /\ router[c] = Router => router'[c] = Router
             /\ router[c] # None => router'[c] # None
  <2>1. CASE ok /\ t.kind = "setRouter"
    <3>1. Router # None /\ t.contract \in Contracts
      BY <2>1 DEF PendingInv, TypeOK, Txs
    <3>2. router' = [router EXCEPT ![t.contract] = Router]
      BY <1>1, <2>1 DEF Mine, Execute
    <3> QED
      BY <3>1, <3>2 DEF TypeOK
  <2>2. CASE ~(ok /\ t.kind = "setRouter")
    BY <1>1, <2>2 DEF Mine, Execute
  <2> QED
    BY <2>1, <2>2
<1>2. CASE UNCHANGED router
  BY <1>2
<1>3. Environment /\ ~(\E t \in pending, ok \in BOOLEAN : Mine(t, ok)) => UNCHANGED router
  BY DEF Environment, UnlockStake, Register
<1>4. Service => UNCHANGED router
  <2>1. Start \/ Deploy \/ RouterMined \/ ReadDepositInfo \/ TopUp => UNCHANGED router
    BY DEF Start, Deploy, RouterMined, ReadDepositInfo, TopUp, Goto, chain
  <2>2. assertPaymasterCompatible => UNCHANGED router
    BY DEF assertPaymasterCompatible, Exit, Goto, chain
  <2>3. AddStake \/ ensureRegistered => UNCHANGED router
    BY DEF AddStake, ensureRegistered, Exit, Goto, chain
  <2>4. DeployMined => UNCHANGED router
    BY SetupAssumption DEF DeployMined, Exit, Goto, chain, TypeOK
  <2>5. Mined("awaiting stake", "funding") \/ Mined("awaiting deposit", "registering")
          => UNCHANGED router
    BY DEF Mined, Goto, chain
  <2> QED
    BY <2>1, <2>2, <2>3, <2>4, <2>5 DEF Service
<1>5. Crash \/ Ends \/ (\E d \in Contracts : TakenBack(d)) \/ UNCHANGED vars
        => UNCHANGED router
  BY DEF Crash, Ends, Exit, Goto, TakenBack, vars, chain
<1> QED
  BY <1>1, <1>2, <1>3, <1>4, <1>5 DEF SetupMoves, Next

\* The preflight is what lets a start past it; from there on it keeps its contract.
LEMMA NextPreflight ==
    ASSUME SetupInv, SetupMoves
    PROVE  PreflightInv'
<1> USE DEF SetupInv
<1> SUFFICES ASSUME pc' \in Passed PROVE PreflightInv'
  BY DEF PreflightInv
<1>1. CASE pc \in Passed /\ paymaster' = paymaster
  <2>1. paymaster \in Contracts
    BY <1>1 DEF Passed, PaymasterInv
  <2> QED
    BY <1>1, <2>1, RouterStays DEF PreflightInv
<1>2. CASE assertPaymasterCompatible
  BY <1>2 DEF assertPaymasterCompatible, Compatible, Exit, Goto, chain, PreflightInv, Passed
<1>3. Service /\ ~assertPaymasterCompatible => pc \in Passed /\ paymaster' = paymaster
  <2>1. ~(Start \/ Deploy \/ RouterMined)
    BY DEF Start, Deploy, RouterMined, Goto, Passed
  <2>2. ~DeployMined
    BY SetupAssumption DEF DeployMined, Exit, Goto, Passed, TypeOK
  <2>3. ReadDepositInfo \/ TopUp => pc \in Passed /\ paymaster' = paymaster
    BY DEF ReadDepositInfo, TopUp, Goto, Passed
  <2>4. AddStake => pc \in Passed /\ paymaster' = paymaster
    BY DEF AddStake, Exit, Goto, Passed
  <2>5. ensureRegistered => pc \in Passed /\ paymaster' = paymaster
    BY DEF ensureRegistered, Exit, Goto, Passed
  <2>6. Mined("awaiting stake", "funding") \/ Mined("awaiting deposit", "registering")
          => pc \in Passed /\ paymaster' = paymaster
    BY DEF Mined, Goto, Passed
  <2> QED
    BY <2>1, <2>2, <2>3, <2>4, <2>5, <2>6 DEF Service
<1>4. Environment => pc \in Passed /\ paymaster' = paymaster
  BY DEF Environment, Mine, UnlockStake, Register
<1>5. Crash \/ Ends \/ (\E d \in Contracts : TakenBack(d)) \/ UNCHANGED vars
        => pc \in Passed /\ paymaster' = paymaster
  BY DEF Crash, Ends, Exit, Goto, TakenBack, vars, Passed
<1> QED
  BY <1>1, <1>2, <1>3, <1>4, <1>5 DEF SetupMoves, Next

LEMMA NextPending ==
    ASSUME SetupInv, SetupMoves
    PROVE  PendingInv'
<1> USE DEF SetupInv
<1>1. ASSUME NEW t \in pending, NEW ok \in BOOLEAN, Mine(t, ok)
      PROVE  PendingInv'
  <2>1. pending' = pending \ {t} /\ crashes' = crashes /\ pc' = pc
    BY <1>1 DEF Mine
  <2>2. IsFiniteSet(pending')
    BY <2>1, FS_RemoveElement DEF PendingInv
  <2>3. ASSUME NEW u \in pending', u.life = crashes
        PROVE  receipt' = None
    <3>1. u \in pending /\ u # t
      BY <2>1
    <3>2. t.life # crashes /\ receipt = None
      BY <2>3, <3>1 DEF PendingInv
    <3> QED
      BY <1>1, <3>2 DEF Mine
  <2> QED
    BY <2>1, <2>2, <2>3 DEF PendingInv
<1>2. CASE Environment /\ ~(\E t \in pending, ok \in BOOLEAN : Mine(t, ok))
  BY <1>2, KeepPending DEF Environment, UnlockStake, Register
<1>3. CASE Crash
  <2>1. crashes \in Nat /\ crashes' = crashes + 1 /\ pending' = pending
    BY <1>3, CrashCount DEF Crash
  <2>2. \A t \in pending : t.life \in Nat /\ t.life <= crashes
    BY PendingTypes DEF PendingInv
  <2>3. \A t \in pending : t.life <= crashes' /\ t.life # crashes'
    BY <2>1, <2>2
  <2> QED
    BY <2>1, <2>3 DEF PendingInv
<1>4. ASSUME Ends \/ (\E c \in Contracts : TakenBack(c)) \/ UNCHANGED vars
      PROVE  PendingInv'
  <2>1. CASE Ends
    BY <2>1, IdleWhen, KeepPending DEF Ends, Exit, Goto
  <2> QED
    BY <1>4, <2>1, KeepPending DEF TakenBack, vars
<1>5. CASE Start
  BY <1>5, IdleWhen, KeepPending DEF Start, Goto
<1>6. CASE Deploy
  <2>1. PICK c \in Contracts : Send("deploy", c, 0)
    BY <1>6 DEF Deploy
  <2>2. Idle /\ pc' = WaitsAt("deploy") /\ crashes' = crashes
    BY <1>6, IdleWhen DEF Deploy, Goto, WaitsAt
  <2> QED
    BY <2>1, <2>2, SendPending DEF Kinds
<1>7. CASE DeployMined
  <2>1. Idle
    BY <1>7, IdleWhen DEF DeployMined
  <2>2. CASE receipt = "success" /\ Router # None
    <3>1. /\ Send("setRouter", paymaster, 0)
          /\ pc' = WaitsAt("setRouter") /\ crashes' = crashes
      BY <1>7, <2>2 DEF DeployMined, Goto, WaitsAt
    <3> QED
      BY <2>1, <2>2, <3>1, SendPending DEF Kinds
  <2>3. CASE receipt = "success" /\ Router = None
    BY <1>7, <2>1, <2>3, KeepPending DEF DeployMined, Goto
  <2>4. CASE receipt = "reverted"
    BY <1>7, <2>1, <2>4, KeepPending DEF DeployMined, Exit, Goto
  <2> QED
    BY <1>7, <2>2, <2>3, <2>4 DEF DeployMined, TypeOK
<1>8. CASE RouterMined \/ Mined("awaiting stake", "funding") \/ Mined("awaiting deposit", "registering")
  BY <1>8, IdleWhen, KeepPending DEF RouterMined, Mined, Goto
<1>9. CASE assertPaymasterCompatible
  BY <1>9, IdleWhen, KeepPending DEF assertPaymasterCompatible, Exit, Goto
<1>10. CASE ReadDepositInfo
  BY <1>10, IdleWhen, KeepPending DEF ReadDepositInfo
<1>11. CASE AddStake
  <2>1. Idle /\ crashes' = crashes
    BY <1>11, IdleWhen DEF AddStake, Exit, Goto
  <2>2. CASE pending' = pending
    BY <2>1, <2>2, KeepPending
  <2>3. CASE Send("addStake", paymaster, missingStake) /\ Goto("awaiting stake")
    <3>1. missingStake <= Limit("addStake")
      BY InfoTypes DEF missingStake
    <3>2. pc' = WaitsAt("addStake")
      BY <2>3 DEF Goto, WaitsAt
    <3> QED
      BY <2>1, <2>3, <3>1, <3>2, SendPending
  <2> QED
    BY <1>11, <2>2, <2>3 DEF AddStake
<1>12. CASE TopUp
  <2>1. Idle /\ crashes' = crashes
    BY <1>12, IdleWhen DEF TopUp, Goto
  <2>2. CASE pending' = pending
    BY <2>1, <2>2, KeepPending
  <2>3. CASE Send("deposit", paymaster, DepositWei - info.deposit) /\ Goto("awaiting deposit")
    <3>1. DepositWei - info.deposit <= Limit("deposit")
      BY InfoTypes
    <3>2. pc' = WaitsAt("deposit")
      BY <2>3 DEF Goto, WaitsAt
    <3> QED
      BY <2>1, <2>3, <3>1, <3>2, SendPending
  <2> QED
    BY <1>12, <2>2, <2>3 DEF TopUp
<1>13. CASE ensureRegistered
  BY <1>13, IdleWhen, KeepPending DEF ensureRegistered, Exit, Goto
<1> QED
  BY <1>1, <1>2, <1>3, <1>4, <1>5, <1>6, <1>7, <1>8, <1>9, <1>10, <1>11, <1>12, <1>13
     DEF SetupMoves, Next, Service

\* The setup's state, under whatever the service and the chain do.
LEMMA NextSetup ==
    ASSUME SetupInv, SetupMoves
    PROVE  SetupInv'
BY MoveTypes, NextPaymaster, NextPreflight, NextPending DEF SetupInv

-----------------------------------------------------------------------------
(* Sums of transactions.                                                    *)

LEMMA SumOverAdds ==
    ASSUME NEW txs \in SUBSET Txs, IsFiniteSet(txs)
    PROVE  /\ SumOver(txs) \in Nat
           /\ \A t \in Txs \ txs : SumOver(txs \cup {t}) = t.wei + SumOver(txs)
           /\ \A t \in txs : SumOver(txs) = t.wei + SumOver(txs \ {t})
<1> DEFINE wei(S) == [t \in S |-> t.wei]
<1>1. ASSUME NEW S \in SUBSET Txs
      PROVE  \A t \in S : wei(S)[t] \in Nat
  BY DEF Txs
<1>2. SumOver(txs) \in Nat
  BY <1>1, SumType DEF SumOver
<1>3. ASSUME NEW S \in SUBSET Txs, IsFiniteSet(S), NEW t \in S
      PROVE  SumOver(S) = t.wei + SumOver(S \ {t})
  <2>1. SumFunctionOnSet(wei(S), S) = wei(S)[t] + SumFunctionOnSet(wei(S), S \ {t})
    BY <1>1, <1>3, SumRemove
  <2>2. IsFiniteSet(S \ {t})
    BY <1>3, FS_RemoveElement
  <2>3. \A u \in S \ {t} : wei(S)[u] \in Nat /\ wei(S \ {t})[u] = wei(S)[u]
    BY <1>1
  <2>4. SumFunctionOnSet(wei(S \ {t}), S \ {t}) = SumFunctionOnSet(wei(S), S \ {t})
    BY <2>2, <2>3, SumSame
  <2> QED
    BY <2>1, <2>4 DEF SumOver
<1>4. ASSUME NEW t \in Txs \ txs
      PROVE  SumOver(txs \cup {t}) = t.wei + SumOver(txs)
  <2>1. IsFiniteSet(txs \cup {t}) /\ (txs \cup {t}) \ {t} = txs
    BY FS_AddElement
  <2> QED
    BY <1>3, <2>1
<1> QED
  BY <1>2, <1>3, <1>4

LEMMA SumOverSubset ==
    ASSUME NEW txs \in SUBSET Txs, IsFiniteSet(txs), NEW some \in SUBSET txs
    PROVE  SumOver(some) <= SumOver(txs) /\ SumOver(some) \in Nat /\ SumOver(txs) \in Nat
<1> DEFINE f == [t \in txs |-> t.wei]
           g == [t \in some |-> t.wei]
<1>1. \A t \in txs : f[t] \in Nat
  BY DEF Txs
<1>2. IsFiniteSet(some)
  BY FS_Subset
<1>3. \A t \in some : f[t] \in Nat /\ g[t] = f[t]
  BY <1>1
<1>4. SumOver(txs) = SumFunctionOnSet(f, txs) /\ SumOver(some) = SumFunctionOnSet(g, some)
  BY DEF SumOver
<1> HIDE DEF f, g
<1>5. SumFunctionOnSet(g, some) = SumFunctionOnSet(f, some)
  BY <1>2, <1>3, SumSame
<1> QED
  BY <1>1, <1>4, <1>5, SumSubset

\* What is under way for a contract is a finite set of transactions.
LEMMA SentTxs ==
    ASSUME SetupInv, NEW kind, NEW c
    PROVE  /\ Sent(kind, c) \in SUBSET Txs /\ IsFiniteSet(Sent(kind, c))
           /\ Old(kind, c) \in SUBSET Sent(kind, c) /\ IsFiniteSet(Old(kind, c))
           /\ SumOver(Sent(kind, c)) \in Nat /\ SumOver(Old(kind, c)) \in Nat
<1>1. Sent(kind, c) \in SUBSET pending /\ Old(kind, c) \in SUBSET Sent(kind, c)
  BY DEF Sent, Old
<1>2. IsFiniteSet(Sent(kind, c)) /\ IsFiniteSet(Old(kind, c))
  BY <1>1, FS_Subset DEF SetupInv, PendingInv
<1>3. Sent(kind, c) \in SUBSET Txs /\ Old(kind, c) \in SUBSET Txs
  BY <1>1 DEF SetupInv, TypeOK
<1> QED
  BY <1>1, <1>2, <1>3, SumOverAdds

-----------------------------------------------------------------------------
(* What each contract is paid.                                              *)

LEMMA LimitTimes ==
    ASSUME SetupInv, NEW kind
    PROVE  /\ Limit(kind) \in Nat /\ Limit(kind) * crashes \in Nat
           /\ Limit(kind) * (1 + crashes) = Limit(kind) * crashes + Limit(kind)
<1>1. Limit(kind) \in Nat /\ crashes \in Nat
  BY InfoTypes, CrashCount DEF SetupInv
<1> QED
  BY <1>1

LEMMA BalanceType ==
    ASSUME SetupInv, NEW kind, NEW c \in Contracts
    PROVE  Balance(kind)[c] \in Nat /\ Seen(kind) \in Nat
BY InfoTypes DEF SetupInv, TypeOK, Balance, Seen

\* A step that pays, sends and forgets nothing.
LEMMA QuietSpending ==
    ASSUME SpendingInv, UNCHANGED <<stake, deposit, pending, crashes>>
    PROVE  /\ OldInv' /\ BoundInv'
           /\ (pc' \in StillToSend("addStake") => pc \in StillToSend("addStake"))
              /\ (pc' \in StillToSend("deposit") => pc \in StillToSend("deposit"))
              /\ (pc' # "down" => paymaster' = paymaster) /\ info' = info
                => ReadInv'
<1>1. \A kind, c : Old(kind, c)' = Old(kind, c) /\ Sent(kind, c)' = Sent(kind, c)
  BY DEF Old, Sent
<1>2. \A kind : Balance(kind)' = Balance(kind) /\ (info' = info => Seen(kind)' = Seen(kind))
  BY DEF Balance, Seen
<1>3. OldInv' /\ BoundInv'
  BY <1>1, <1>2 DEF SpendingInv, OldInv, BoundInv
<1>4. "down" \notin StillToSend("addStake") /\ "down" \notin StillToSend("deposit")
  BY DEF StillToSend
<1>5. ASSUME /\ pc' \in StillToSend("addStake") => pc \in StillToSend("addStake")
             /\ pc' \in StillToSend("deposit") => pc \in StillToSend("deposit")
             /\ pc' # "down" => paymaster' = paymaster
             /\ info' = info,
             NEW kind \in Kinds, pc' \in StillToSend(kind)
      PROVE  (Balance(kind)[paymaster] + SumOver(Old(kind, paymaster)) <= Seen(kind) + Limit(kind) * crashes)'
  <2>1. pc \in StillToSend(kind) /\ paymaster' = paymaster
    BY <1>4, <1>5 DEF Kinds
  <2>2. Old(kind, paymaster)' = Old(kind, paymaster)
    BY <2>1 DEF Old, Sent
  <2> QED
    BY <1>2, <1>5, <2>1, <2>2 DEF SpendingInv, ReadInv
<1> QED
  BY <1>3, <1>5 DEF ReadInv

\* What is mined moves from what is under way to the contract's balance, or is lost.
LEMMA MineMoves ==
    ASSUME SetupInv, NEW t \in pending, NEW ok \in BOOLEAN, Mine(t, ok), NEW kind \in Kinds,
           NEW c \in Contracts
    PROVE  /\ Balance(kind)'[c] + SumOver(Sent(kind, c))' <= Balance(kind)[c] + SumOver(Sent(kind, c))
           /\ SumOver(Old(kind, c))' <= SumOver(Old(kind, c))
           /\ SumOver(Sent(kind, c))' \in Nat /\ SumOver(Old(kind, c))' \in Nat
           /\ Balance(kind)'[c] \in Nat
           /\ (t.life = crashes => t.kind # kind) =>
                 Balance(kind)'[c] + SumOver(Old(kind, c))' <= Balance(kind)[c] + SumOver(Old(kind, c))
<1> DEFINE sent == Sent(kind, c)
           old == Old(kind, c)
<1>1. /\ sent' = sent \ {t} /\ old' = old \ {t}
      /\ t \in sent <=> t.kind = kind /\ t.contract = c
      /\ t \in old <=> t \in sent /\ t.life # crashes
  BY DEF Mine, Sent, Old
<1>2. /\ sent \in SUBSET Txs /\ IsFiniteSet(sent) /\ old \in SUBSET Txs /\ IsFiniteSet(old)
      /\ SumOver(sent) \in Nat /\ SumOver(old) \in Nat
  BY SentTxs
<1>3. t \in Txs /\ t.wei \in Nat /\ t.contract \in Contracts /\ Balance(kind)[c] \in Nat
  BY PendingTypes, BalanceType DEF SetupInv
<1>4. \/ Balance(kind)'[c] = Balance(kind)[c]
      \/ t \in sent /\ Balance(kind)'[c] = Balance(kind)[c] + t.wei
  <2>1. CASE ok /\ t.kind = kind
    <3>1. Balance(kind)' = [Balance(kind) EXCEPT ![t.contract] = @ + t.wei]
      BY <2>1 DEF Mine, Execute, Credit, Kinds, Balance
    <3>2. Balance(kind) \in [Contracts -> Nat]
      BY DEF Balance, SetupInv, TypeOK
    <3> QED
      BY <1>1, <1>3, <2>1, <3>1, <3>2
  <2>2. CASE ~(ok /\ t.kind = kind)
    BY <2>2 DEF Mine, Execute, Kinds, Balance
  <2> QED
    BY <2>1, <2>2
<1> HIDE DEF sent, old
<1>5. /\ SumOver(sent \ {t}) \in Nat /\ SumOver(sent \ {t}) <= SumOver(sent)
      /\ SumOver(old \ {t}) \in Nat /\ SumOver(old \ {t}) <= SumOver(old)
  BY <1>2, SumOverSubset
<1>6. /\ t \in sent => SumOver(sent) = t.wei + SumOver(sent \ {t})
      /\ t \in old => SumOver(old) = t.wei + SumOver(old \ {t})
  BY <1>2, SumOverAdds
<1>7. SumOver(sent)' = SumOver(sent \ {t}) /\ SumOver(old)' = SumOver(old \ {t})
  BY <1>1
<1>8. (t.life = crashes => t.kind # kind) => (t \in sent => t \in old)
  BY <1>1
<1>9. /\ Balance(kind)'[c] + SumOver(sent)' <= Balance(kind)[c] + SumOver(sent)
      /\ SumOver(old)' <= SumOver(old)
      /\ SumOver(sent)' \in Nat /\ SumOver(old)' \in Nat /\ Balance(kind)'[c] \in Nat
      /\ (t \in sent => t \in old) =>
            Balance(kind)'[c] + SumOver(old)' <= Balance(kind)[c] + SumOver(old)
  BY <1>2, <1>3, <1>4, <1>5, <1>6, <1>7
<1> QED
  BY <1>8, <1>9 DEF sent, old

\* Between crashes at most one transaction is under way, and it pays no more than the limit.
LEMMA OneUnderWay ==
    ASSUME SetupInv, NEW kind \in Kinds, NEW c
    PROVE  SumOver(Sent(kind, c)) <= SumOver(Old(kind, c)) + Limit(kind)
<1> DEFINE sent == Sent(kind, c)
           old == Old(kind, c)
<1>1. /\ sent \in SUBSET Txs /\ old \in SUBSET Txs /\ IsFiniteSet(old)
      /\ SumOver(sent) \in Nat /\ SumOver(old) \in Nat /\ Limit(kind) \in Nat
  BY SentTxs, LimitTimes
<1>2. CASE sent = old
  BY <1>1, <1>2
<1>3. ASSUME NEW t \in sent \ old
      PROVE  SumOver(sent) <= SumOver(old) + Limit(kind)
  <2>1. /\ t \in Txs \ old /\ t.wei \in Nat /\ t.wei <= Limit(kind)
        /\ sent = old \cup {t}
    BY <1>3, PendingTypes DEF SetupInv, PendingInv, Sent, Old
  <2> HIDE DEF sent, old
  <2>2. SumOver(sent) = t.wei + SumOver(old)
    BY <1>1, <2>1, SumOverAdds
  <2> QED
    BY <1>1, <2>1, <2>2
<1>4. old \in SUBSET sent
  BY SentTxs
<1> QED
  BY <1>2, <1>3, <1>4

LEMMA MineSpends ==
    ASSUME SpendingInv, NEW t \in pending, NEW ok \in BOOLEAN, Mine(t, ok)
    PROVE  OldInv' /\ ReadInv' /\ BoundInv'
<1>1. SetupInv /\ UNCHANGED <<pc, paymaster, info, crashes>>
  BY DEF SpendingInv, Mine
<1>3. ASSUME NEW kind \in Kinds, NEW c \in Contracts
      PROVE  SumOver(Old(kind, c))' <= Limit(kind) * crashes'
  <2>1. SumOver(Old(kind, c)) <= Limit(kind) * crashes /\ Limit(kind) * crashes \in Nat
    BY <1>1, LimitTimes DEF SpendingInv, OldInv
  <2>2. SumOver(Old(kind, c))' <= SumOver(Old(kind, c))
        /\ SumOver(Old(kind, c)) \in Nat /\ SumOver(Old(kind, c))' \in Nat
    BY <1>1, MineMoves, SentTxs
  <2> QED
    BY <1>1, <2>1, <2>2
<1>4. ASSUME NEW kind \in Kinds, pc \in StillToSend(kind)
      PROVE  (Balance(kind)[paymaster] + SumOver(Old(kind, paymaster)) <= Seen(kind) + Limit(kind) * crashes)'
  <2>1. t.life = crashes => t.kind # kind
    BY <1>1, <1>4 DEF SetupInv, PendingInv, StillToSend, Kinds, WaitsAt
  <2>2. paymaster \in Contracts
    BY <1>1, <1>4 DEF SetupInv, PaymasterInv, StillToSend
  <2>3. \A c \in Contracts :
          Balance(kind)'[c] + SumOver(Old(kind, c))' <= Balance(kind)[c] + SumOver(Old(kind, c))
    BY <1>1, <2>1, MineMoves
  <2>4. Balance(kind)[paymaster] + SumOver(Old(kind, paymaster)) <= Seen(kind) + Limit(kind) * crashes
    BY <1>4 DEF SpendingInv, ReadInv
  <2>5. Seen(kind)' = Seen(kind) /\ Limit(kind) * crashes \in Nat /\ Seen(kind) \in Nat
        /\ SumOver(Old(kind, paymaster)) \in Nat /\ Balance(kind)[paymaster] \in Nat
    BY <1>1, <2>2, LimitTimes, BalanceType, SentTxs DEF Seen
  <2>6. SumOver(Old(kind, paymaster))' \in Nat /\ Balance(kind)'[paymaster] \in Nat
    <3>1. PICK c \in Contracts : c = paymaster
      BY <2>2
    <3>2. Old(kind, paymaster)' = Old(kind, c)'
      BY <1>1, <3>1 DEF Old, Sent
    <3>3. SumOver(Old(kind, c))' \in Nat /\ Balance(kind)'[c] \in Nat
      BY <1>1, MineMoves
    <3> QED
      BY <3>1, <3>2, <3>3
  <2>7. Balance(kind)'[paymaster] + SumOver(Old(kind, paymaster))'
          <= Balance(kind)[paymaster] + SumOver(Old(kind, paymaster))
    <3>1. \A c : c = paymaster => Old(kind, paymaster)' = Old(kind, c)'
      BY <1>1 DEF Old, Sent
    <3>2. PICK c \in Contracts : c = paymaster
      BY <2>2
    <3>3. Balance(kind)'[c] + SumOver(Old(kind, c))' <= Balance(kind)[c] + SumOver(Old(kind, c))
      BY <2>3
    <3> QED
      BY <3>1, <3>2, <3>3
  <2> QED
    BY <1>1, <2>4, <2>5, <2>6, <2>7
<1>5. ASSUME NEW kind \in Kinds, NEW c \in Contracts, kind = "deposit" \/ c # Configured
      PROVE  (Balance(kind)[c] + SumOver(Sent(kind, c)) <= Limit(kind) * (1 + crashes))'
  <2>1. Balance(kind)[c] + SumOver(Sent(kind, c)) <= Limit(kind) * (1 + crashes)
        /\ Limit(kind) * (1 + crashes) \in Nat
    BY <1>1, <1>5, LimitTimes DEF SpendingInv, BoundInv
  <2>2. Balance(kind)'[c] + SumOver(Sent(kind, c))' <= Balance(kind)[c] + SumOver(Sent(kind, c))
        /\ SumOver(Sent(kind, c)) \in Nat /\ SumOver(Sent(kind, c))' \in Nat
        /\ Balance(kind)[c] \in Nat /\ Balance(kind)'[c] \in Nat
    BY <1>1, MineMoves, SentTxs, BalanceType
  <2> QED
    BY <1>1, <2>1, <2>2
<1> QED
  BY <1>1, <1>3, <1>4, <1>5 DEF OldInv, ReadInv, BoundInv

\* Sending what is missing, with nothing else of this start under way.
LEMMA SendSpends ==
    ASSUME SpendingInv, Idle, UNCHANGED <<stake, deposit, crashes>>,
           NEW kind \in {"deploy", "setRouter", "addStake", "deposit"}, NEW d \in Contracts,
           NEW wei \in Nat, Send(kind, d, wei),
           kind \in Kinds =>
              Balance(kind)[d] + SumOver(Old(kind, d)) + wei <= Limit(kind) * (1 + crashes)
    PROVE  /\ OldInv' /\ BoundInv'
           /\ \A k, c : Old(k, c)' = Old(k, c)
<1> DEFINE sent == [kind |-> kind, contract |-> d, wei |-> wei, life |-> crashes]
<1>1. /\ pending' = pending \cup {sent} /\ sent \notin pending
      /\ sent.life = crashes /\ sent.kind = kind /\ sent.contract = d /\ sent.wei = wei
  BY DEF Send, Idle
<1>5. sent \in Txs
  BY DEF SpendingInv, SetupInv, TypeOK, Txs
<1> HIDE DEF sent
<1>2. \A k, c : Old(k, c)' = Old(k, c) /\ Sent(k, c) = Old(k, c)
  BY <1>1 DEF Old, Sent, Idle
<1>3. \A k, c : Sent(k, c)' = IF k = kind /\ c = d THEN Sent(k, c) \cup {sent} ELSE Sent(k, c)
  BY <1>1 DEF Sent
<1>4. OldInv'
  BY <1>2 DEF OldInv, SpendingInv
<1>6. ASSUME NEW k \in Kinds, NEW c \in Contracts, k = "deposit" \/ c # Configured
      PROVE  (Balance(k)[c] + SumOver(Sent(k, c)) <= Limit(k) * (1 + crashes))'
  <2>1. Balance(k)' = Balance(k)
    BY DEF Balance
  <2>2. CASE k = kind /\ c = d
    <3>1. sent \in Txs \ Sent(k, c) /\ Sent(k, c) \in SUBSET Txs /\ IsFiniteSet(Sent(k, c))
          /\ SumOver(Sent(k, c)) \in Nat
      <4>1. sent \notin Sent(k, c)
        BY <1>1 DEF Sent
      <4> QED
        BY <1>5, <4>1, SentTxs DEF SpendingInv
    <3>2. SumOver(Sent(k, c) \cup {sent}) = wei + SumOver(Sent(k, c))
      BY <1>1, <3>1, SumOverAdds
    <3>3. Balance(k)[c] + SumOver(Sent(k, c)) + wei <= Limit(k) * (1 + crashes)
          /\ Balance(k)[c] \in Nat /\ Limit(k) * (1 + crashes) \in Nat
      BY <1>2, <2>2, BalanceType, LimitTimes DEF SpendingInv
    <3>4. SumOver(Sent(k, c))' = wei + SumOver(Sent(k, c))
      BY <1>3, <2>2, <3>2
    <3> QED
      BY <2>1, <3>1, <3>3, <3>4
  <2>3. CASE ~(k = kind /\ c = d)
    <3>1. Sent(k, c)' = Sent(k, c)
      BY <1>3, <2>3
    <3> QED
      BY <1>6, <2>1, <3>1 DEF SpendingInv, BoundInv
  <2> QED
    BY <2>2, <2>3
<1> QED
  BY <1>2, <1>4, <1>6 DEF BoundInv

\* A crash makes what is under way a payment of an earlier start.
LEMMA CrashSpends ==
    ASSUME SpendingInv, Crash
    PROVE  OldInv' /\ ReadInv' /\ BoundInv'
<1>1. /\ SetupInv /\ crashes \in Nat /\ crashes' = crashes + 1 /\ pc' = "down"
      /\ UNCHANGED <<stake, deposit, pending>>
  BY CrashCount DEF SpendingInv, SetupInv, Crash, chain
<1>2. \A kind, c : Sent(kind, c)' = Sent(kind, c) /\ Old(kind, c)' = Sent(kind, c)
  <2>1. \A t \in pending : t.life # crashes + 1
    BY <1>1, PendingTypes DEF SetupInv, PendingInv
  <2> QED
    BY <1>1, <2>1 DEF Sent, Old
<1>3. ASSUME NEW kind \in Kinds
      PROVE  /\ Limit(kind) \in Nat /\ Limit(kind) * crashes \in Nat
             /\ Limit(kind) * (1 + crashes) = Limit(kind) * crashes + Limit(kind)
             /\ Limit(kind) * crashes' = Limit(kind) * crashes + Limit(kind)
             /\ Limit(kind) * (1 + crashes') = Limit(kind) * crashes + Limit(kind) + Limit(kind)
  <2>1. Limit(kind) \in Nat
    BY <1>1, LimitTimes
  <2> QED
    BY <1>1, <2>1
<1>4. OldInv'
  <2> SUFFICES ASSUME NEW kind \in Kinds, NEW c \in Contracts
               PROVE  SumOver(Old(kind, c))' <= Limit(kind) * crashes'
    BY DEF OldInv
  <2>1. SumOver(Sent(kind, c)) <= SumOver(Old(kind, c)) + Limit(kind)
        /\ SumOver(Sent(kind, c)) \in Nat /\ SumOver(Old(kind, c)) \in Nat
        /\ SumOver(Old(kind, c)) <= Limit(kind) * crashes
    BY <1>1, OneUnderWay, SentTxs DEF SpendingInv, OldInv
  <2>2. SumOver(Old(kind, c))' = SumOver(Sent(kind, c))
    BY <1>2
  <2> QED
    BY <1>3, <2>1, <2>2
<1>5. BoundInv'
  <2> SUFFICES ASSUME NEW kind \in Kinds, NEW c \in Contracts, kind = "deposit" \/ c # Configured
               PROVE  (Balance(kind)[c] + SumOver(Sent(kind, c)) <= Limit(kind) * (1 + crashes))'
    BY DEF BoundInv
  <2>1. Balance(kind)[c] + SumOver(Sent(kind, c)) <= Limit(kind) * (1 + crashes)
        /\ Balance(kind)[c] \in Nat /\ SumOver(Sent(kind, c)) \in Nat
    BY <1>1, BalanceType, SentTxs DEF SpendingInv, BoundInv
  <2>2. SumOver(Sent(kind, c))' = SumOver(Sent(kind, c)) /\ Balance(kind)' = Balance(kind)
    BY <1>1, <1>2 DEF Balance
  <2> QED
    BY <1>3, <2>1, <2>2
<1>6. ReadInv'
  BY <1>1 DEF ReadInv, StillToSend
<1> QED
  BY <1>4, <1>5, <1>6

\* What the service sends is what was missing when it looked.
LEMMA MissingOnly ==
    ASSUME SpendingInv, NEW kind \in Kinds, pc \in StillToSend(kind)
    PROVE  /\ paymaster \in Contracts
           /\ Balance(kind)[paymaster] + SumOver(Old(kind, paymaster)) + (Limit(kind) - Seen(kind))
                 <= Limit(kind) * (1 + crashes)
<1>1. SetupInv
  BY DEF SpendingInv
<1>2. paymaster \in Contracts
  BY <1>1 DEF SetupInv, PaymasterInv, StillToSend
<1>3. /\ Balance(kind)[paymaster] \in Nat /\ Seen(kind) \in Nat
      /\ SumOver(Old(kind, paymaster)) \in Nat
      /\ Limit(kind) \in Nat /\ Limit(kind) * crashes \in Nat
      /\ Limit(kind) * (1 + crashes) = Limit(kind) * crashes + Limit(kind)
  BY <1>1, <1>2, BalanceType, SentTxs, LimitTimes
<1>4. Balance(kind)[paymaster] + SumOver(Old(kind, paymaster)) <= Seen(kind) + Limit(kind) * crashes
  BY DEF SpendingInv, ReadInv
<1> QED
  BY <1>2, <1>3, <1>4

LEMMA AddStakeSpends ==
    ASSUME SpendingInv, AddStake
    PROVE  OldInv' /\ ReadInv' /\ BoundInv'
<1>1. /\ SetupInv /\ pc = "staking" /\ UNCHANGED <<stake, deposit, crashes, info>>
  BY DEF SpendingInv, AddStake, Exit, Goto, chain
<1>2. CASE Send("addStake", paymaster, missingStake) /\ Encodable(missingStake)
           /\ Goto("awaiting stake") /\ UNCHANGED paymaster
  <2>1. Idle
    BY <1>1, IdleWhen
  <2>2. /\ paymaster \in Contracts
        /\ Balance("addStake")[paymaster] + SumOver(Old("addStake", paymaster)) + missingStake
              <= Limit("addStake") * (1 + crashes)
    BY <1>1, MissingOnly DEF Kinds, StillToSend, missingStake, Seen, Limit
  <2>3. missingStake \in Nat
    <3>1. info.stake \in Nat /\ StakeWei \in Nat
      BY <1>1, InfoTypes DEF SetupInv
    <3>2. missingStake >= 0
      BY <1>2 DEF Encodable
    <3> QED
      BY <3>1, <3>2 DEF missingStake
  <2>4. OldInv' /\ BoundInv' /\ \A k, c : Old(k, c)' = Old(k, c)
    BY <1>1, <1>2, <2>1, <2>2, <2>3, SendSpends
  <2>5. ReadInv'
    <3> SUFFICES ASSUME NEW kind \in Kinds, pc' \in StillToSend(kind)
                 PROVE  (Balance(kind)[paymaster] + SumOver(Old(kind, paymaster))
                            <= Seen(kind) + Limit(kind) * crashes)'
      BY DEF ReadInv
    <3>1. kind = "deposit" /\ pc \in StillToSend("deposit")
      BY <1>1, <1>2 DEF Goto, StillToSend, Kinds
    <3>2. Balance(kind)' = Balance(kind) /\ Seen(kind)' = Seen(kind) /\ paymaster' = paymaster
      BY <1>1, <1>2 DEF Balance, Seen
    <3>3. Old(kind, paymaster)' = Old(kind, paymaster)
      <4>1. PICK c : c = paymaster
        OBVIOUS
      <4>2. Old(kind, c)' = Old(kind, c) /\ Old(kind, paymaster)' = Old(kind, c)'
        BY <2>4, <3>2, <4>1 DEF Old, Sent
      <4> QED
        BY <4>1, <4>2
    <3> QED
      BY <1>1, <3>1, <3>2, <3>3 DEF SpendingInv, ReadInv
  <2> QED
    BY <2>4, <2>5
<1>3. CASE \/ Exit /\ UNCHANGED pending
           \/ Goto("funding") /\ UNCHANGED <<paymaster, pending, receipt>>
  <2>1. \/ pc' = "down"
        \/ pc' = "funding" /\ paymaster' = paymaster
    BY <1>3 DEF Exit, Goto
  <2>2. /\ pc' \in StillToSend("addStake") => pc \in StillToSend("addStake")
        /\ pc' \in StillToSend("deposit") => pc \in StillToSend("deposit")
        /\ pc' # "down" => paymaster' = paymaster
    BY <1>1, <2>1 DEF StillToSend
  <2> QED
    BY <1>1, <1>3, <2>2, QuietSpending
<1>4. \/ /\ Send("addStake", paymaster, missingStake) /\ Encodable(missingStake)
         /\ Goto("awaiting stake") /\ UNCHANGED paymaster
      \/ Exit /\ UNCHANGED pending
      \/ Goto("funding") /\ UNCHANGED <<paymaster, pending, receipt>>
  BY DEF AddStake
<1> QED
  BY <1>2, <1>3, <1>4

LEMMA TopUpSpends ==
    ASSUME SpendingInv, TopUp
    PROVE  OldInv' /\ ReadInv' /\ BoundInv'
<1>1. /\ SetupInv /\ pc = "funding" /\ UNCHANGED <<stake, deposit, crashes, info, paymaster>>
  BY DEF SpendingInv, TopUp, Goto, chain
<1>2. CASE info.deposit < DepositWei /\ AutoSetup
  <2>1. /\ Idle /\ pc' = "awaiting deposit"
        /\ Send("deposit", paymaster, DepositWei - info.deposit)
    BY <1>1, <1>2, IdleWhen DEF TopUp, Goto
  <2>2. /\ paymaster \in Contracts
        /\ Balance("deposit")[paymaster] + SumOver(Old("deposit", paymaster))
              + (DepositWei - info.deposit) <= Limit("deposit") * (1 + crashes)
    BY <1>1, MissingOnly DEF Kinds, StillToSend, Seen, Limit
  <2>3. DepositWei - info.deposit \in Nat
    BY <1>1, <1>2, InfoTypes DEF SetupInv
  <2>4. OldInv' /\ BoundInv'
    BY <1>1, <2>1, <2>2, <2>3, SendSpends
  <2>5. ReadInv'
    BY <2>1 DEF ReadInv, StillToSend
  <2> QED
    BY <2>4, <2>5
<1>3. CASE ~(info.deposit < DepositWei /\ AutoSetup)
  <2>1. pending' = pending /\ pc' = "registering"
    BY <1>3 DEF TopUp, Goto
  <2> QED
    BY <1>1, <2>1, QuietSpending DEF StillToSend
<1> QED
  BY <1>2, <1>3

LEMMA ReadSpends ==
    ASSUME SpendingInv, ReadDepositInfo
    PROVE  OldInv' /\ ReadInv' /\ BoundInv'
<1>1. /\ SetupInv /\ pc = "reading" /\ UNCHANGED <<stake, deposit, crashes, pending, paymaster>>
      /\ info'.stake = stake[paymaster] /\ info'.deposit = deposit[paymaster]
  BY DEF SpendingInv, ReadDepositInfo, chain
<1>2. paymaster \in Contracts
  BY <1>1 DEF SetupInv, PaymasterInv
<1>3. ReadInv'
  <2> SUFFICES ASSUME NEW kind \in Kinds
               PROVE  (Balance(kind)[paymaster] + SumOver(Old(kind, paymaster))
                          <= Seen(kind) + Limit(kind) * crashes)'
    BY DEF ReadInv
  <2>1. Seen(kind)' = Balance(kind)[paymaster] /\ Balance(kind)'[paymaster'] = Balance(kind)[paymaster]
    BY <1>1 DEF Seen, Balance
  <2>2. Old(kind, paymaster)' = Old(kind, paymaster)
    BY <1>1 DEF Old, Sent
  <2>3. SumOver(Old(kind, paymaster)) <= Limit(kind) * crashes
    BY <1>2 DEF SpendingInv, OldInv
  <2>4. /\ Balance(kind)[paymaster] \in Nat /\ SumOver(Old(kind, paymaster)) \in Nat
        /\ Limit(kind) * crashes \in Nat
    BY <1>1, <1>2, BalanceType, SentTxs, LimitTimes
  <2>5. Balance(kind)[paymaster] + SumOver(Old(kind, paymaster))
          <= Balance(kind)[paymaster] + Limit(kind) * crashes
    BY <2>3, <2>4
  <2> QED
    BY <1>1, <2>1, <2>2, <2>5
<1> QED
  BY <1>1, <1>3, QuietSpending

\* Deploying and giving a router move no money.
LEMMA DeploySpends ==
    ASSUME SpendingInv, Deploy \/ DeployMined
    PROVE  OldInv' /\ ReadInv' /\ BoundInv'
<1>1. /\ SetupInv /\ Idle /\ UNCHANGED <<stake, deposit, crashes, info>>
      /\ pc' \in {"deploying", "routing", "preflight", "down"}
  BY IdleWhen, SetupAssumption DEF SpendingInv, SetupInv, TypeOK, Deploy, DeployMined, Exit, Goto, chain
<1>2. ReadInv'
  BY <1>1 DEF ReadInv, StillToSend
<1>3. CASE pending' = pending
  BY <1>1, <1>2, <1>3, QuietSpending
<1>4. ASSUME NEW kind \in {"deploy", "setRouter"}, NEW c \in Contracts, Send(kind, c, 0)
      PROVE  OldInv' /\ BoundInv'
  BY <1>1, <1>4, SendSpends DEF Kinds
<1>5. CASE Deploy
  BY <1>2, <1>4, <1>5 DEF Deploy
<1>6. CASE DeployMined
  <2>1. paymaster \in Contracts
    BY <1>1, <1>6 DEF SetupInv, PaymasterInv, DeployMined
  <2> QED
    BY <1>1, <1>2, <1>3, <1>4, <1>6, <2>1 DEF DeployMined, SetupInv, TypeOK
<1> QED
  BY <1>5, <1>6

LEMMA NextSpending ==
    ASSUME SpendingInv, SetupMoves
    PROVE  SpendingInv'
<1> SUFFICES OldInv' /\ ReadInv' /\ BoundInv'
  BY NextSetup DEF SpendingInv
<1>1. ASSUME NEW t \in pending, NEW ok \in BOOLEAN, Mine(t, ok)
      PROVE  OldInv' /\ ReadInv' /\ BoundInv'
  BY <1>1, MineSpends
<1>2. CASE Deploy \/ DeployMined \/ ReadDepositInfo \/ AddStake \/ TopUp \/ Crash
  BY <1>2, DeploySpends, ReadSpends, AddStakeSpends, TopUpSpends, CrashSpends
<1>3. CASE Start \/ RouterMined \/ assertPaymasterCompatible \/ ensureRegistered \/ Ends
  <2>1. /\ UNCHANGED <<stake, deposit, pending, crashes, info>>
        /\ pc' \in {"preflight", "reading", "prepared", "down"}
    BY <1>3 DEF Start, RouterMined, assertPaymasterCompatible, ensureRegistered, Ends, Exit, Goto, chain
  <2>2. ReadInv'
    BY <2>1 DEF ReadInv, StillToSend
  <2> QED
    BY <2>1, <2>2, QuietSpending
<1>4. CASE Mined("awaiting stake", "funding") \/ Mined("awaiting deposit", "registering")
  <2>1. /\ UNCHANGED <<stake, deposit, pending, crashes, info, paymaster>>
        /\ (pc = "awaiting stake" /\ pc' = "funding") \/ pc' = "registering"
    BY <1>4 DEF Mined, Goto, chain
  <2> QED
    BY <2>1, QuietSpending DEF StillToSend
<1>5. CASE Environment /\ ~(\E t \in pending, ok \in BOOLEAN : Mine(t, ok))
  BY <1>5, QuietSpending DEF Environment, UnlockStake, Register
<1>6. CASE UNCHANGED vars \/ (\E c \in Contracts : TakenBack(c))
  BY <1>6, QuietSpending DEF vars, chain, TakenBack
<1> QED
  BY <1>1, <1>2, <1>3, <1>4, <1>5, <1>6 DEF SetupMoves, Next, Service

-----------------------------------------------------------------------------
(* What the setup promises, by itself and as part of a start.               *)

\* Creating the service and answering /status leave the setup alone, or end the process.
LEMMA BootMoves ==
    ASSUME [BootNext]_bootVars
    PROVE  SetupMoves
<1>1. CASE UNCHANGED bootVars
  BY <1>1 DEF bootVars, SetupMoves
<1>2. CASE SetupStep
  BY <1>2 DEF SetupStep, SetupMoves, Next
<1>3. CASE LoadConfig
  BY <1>3 DEF LoadConfig, Creating, Fail, SetupMoves, Ends
<1>4. ASSUME NEW i \in Instances, NEW answered \in BOOLEAN, ReadInstance(i, answered)
      PROVE  SetupMoves
  BY <1>4 DEF ReadInstance, Creating, Fail, SetupMoves, Ends
<1>5. ASSUME NEW answered \in BOOLEAN, Probe(answered)
      PROVE  SetupMoves
  BY <1>5 DEF Probe, Creating, Fail, SetupMoves, Ends
<1>6. CASE Status
  BY <1>6 DEF Status, SetupMoves
<1>7. CASE BootCrash \/ Environment
  BY <1>7 DEF BootCrash, SetupMoves, Next
<1>8. ASSUME NEW c \in Contracts, Unregister(c)
      PROVE  SetupMoves
  BY <1>8 DEF Unregister, TakenBack, SetupMoves
<1> QED
  BY <1>1, <1>2, <1>3, <1>4, <1>5, <1>6, <1>7, <1>8 DEF BootNext, CreateStep

LEMMA InitSpending == Init => SpendingInv
<1> SUFFICES ASSUME Init PROVE SpendingInv
  OBVIOUS
<1>1. SetupInv
  BY InitSetup
<1>2. \A kind, c : Sent(kind, c) = {} /\ Old(kind, c) = {}
  BY DEF Init, Sent, Old
<1>3. SumOver({}) = 0
  BY SumEmpty DEF SumOver
<1>4. \A kind : Limit(kind) \in Nat /\ Limit(kind) * crashes \in Nat
                /\ Limit(kind) * (1 + crashes) = Limit(kind) * crashes + Limit(kind)
  BY <1>1, LimitTimes
<1>5. OldInv
  BY <1>2, <1>3, <1>4 DEF OldInv
<1>6. ReadInv
  BY DEF Init, ReadInv, StillToSend
<1>7. ASSUME NEW kind \in Kinds, NEW c \in Contracts, kind = "deposit" \/ c # Configured
      PROVE  Balance(kind)[c] + SumOver(Sent(kind, c)) <= Limit(kind) * (1 + crashes)
  <2>1. Balance(kind)[c] = 0
    BY <1>7 DEF Init, Balance, Kinds
  <2>2. SumOver(Sent(kind, c)) = 0
    BY <1>2, <1>3
  <2> QED
    BY <1>4, <2>1, <2>2
<1> QED
  BY <1>1, <1>5, <1>6, <1>7 DEF SpendingInv, BoundInv

LEMMA SpendingBound ==
    ASSUME SpendingInv
    PROVE  SpendingBounded
<1>1. Limit("addStake") = StakeWei /\ Limit("deposit") = DepositWei
  BY DEF Limit
<1>2. ASSUME NEW c \in Contracts
      PROVE  /\ deposit[c] + SumOver({t \in pending : t.kind = "deposit" /\ t.contract = c})
                   <= DepositWei * (1 + crashes)
             /\ c # Configured =>
                   stake[c] + SumOver({t \in pending : t.kind = "addStake" /\ t.contract = c})
                      <= StakeWei * (1 + crashes)
  <2>1. Balance("deposit")[c] + SumOver(Sent("deposit", c)) <= Limit("deposit") * (1 + crashes)
    BY DEF SpendingInv, BoundInv, Kinds
  <2>2. c # Configured =>
          Balance("addStake")[c] + SumOver(Sent("addStake", c)) <= Limit("addStake") * (1 + crashes)
    BY DEF SpendingInv, BoundInv, Kinds
  <2> QED
    BY <1>1, <2>1, <2>2 DEF Balance, Sent
<1> QED
  BY <1>2 DEF SpendingBounded

\* The setup has its types, whatever its contracts and however often it is started again.
THEOREM SetupTypes == Spec => []TypeOK
<1>1. SpendingInv /\ [Next]_vars => SpendingInv'
  BY NextSpending DEF SetupMoves
<1>2. SpendingInv => TypeOK
  BY DEF SpendingInv, SetupInv
<1> QED
  BY InitSpending, <1>1, <1>2, PTL DEF Spec

\* A start sends what is missing once: no crash, and nothing else, makes the deposit or the stake
\* of a contract exceed one payment per start that crashed and one more (setup.ts:104-130).
THEOREM SendsOncePerCrash == Spec => []SpendingBounded
<1>1. SpendingInv /\ [Next]_vars => SpendingInv'
  BY NextSpending DEF SetupMoves
<1> QED
  BY InitSpending, <1>1, SpendingBound, PTL DEF Spec

LEMMA BootSpends == BootSpec => []SpendingInv
<1>1. BootInit => SpendingInv
  BY InitSpending DEF BootInit
<1>2. SpendingInv /\ [BootNext]_bootVars => SpendingInv'
  BY BootMoves, NextSpending
<1> QED
  BY <1>1, <1>2, PTL DEF BootSpec

\* The same of every start of the service, whose later steps fail and whose master moves.
THEOREM BootSendsOncePerCrash == BootSpec => []SpendingBounded
BY BootSpends, SpendingBound, PTL

\* What is sent as stake or deposit is sent by AddStake or TopUp, for the paymaster.
LEMMA FundingStep ==
    ASSUME SetupInv, SetupMoves, NEW t \in Funding
    PROVE  /\ pc \in {"staking", "funding"} /\ t.contract = paymaster
           /\ UNCHANGED <<router, stateFile>>
<1> USE DEF Funding
<1>1. t \in pending' /\ t \notin pending /\ t.kind \in Kinds
  BY DEF Kinds
<1>a. ASSUME NEW kind, NEW wei, Send(kind, paymaster, wei)
      PROVE  t.contract = paymaster
  <2>1. t = [kind |-> kind, contract |-> paymaster, wei |-> wei, life |-> crashes]
    BY <1>1, <1>a DEF Send
  <2> QED
    BY <2>1
<1>2. CASE AddStake \/ TopUp
  <2>1. CASE AddStake
    <3>1. \/ Send("addStake", paymaster, missingStake) /\ Goto("awaiting stake")
          \/ pending' = pending
      BY <2>1 DEF AddStake
    <3>2. Send("addStake", paymaster, missingStake) /\ Goto("awaiting stake")
      BY <1>1, <3>1
    <3> QED
      BY <1>a, <2>1, <3>2 DEF AddStake, Goto, chain
  <2>2. CASE TopUp
    <3>1. Send("deposit", paymaster, DepositWei - info.deposit) /\ UNCHANGED <<router, stateFile>>
      BY <1>1, <2>2 DEF TopUp, Goto, chain
    <3> QED
      BY <1>a, <2>2, <3>1 DEF TopUp
  <2> QED
    BY <1>2, <2>1, <2>2
<1>3. ~Deploy
  BY <1>1 DEF Deploy, Send, Kinds
<1>4. ~DeployMined
  <2>1. DeployMined => pending' = pending \/ Send("setRouter", paymaster, 0)
    BY SetupAssumption DEF DeployMined, Exit, SetupInv, TypeOK
  <2> QED
    BY <1>1, <2>1 DEF Send, Kinds
<1>5. ~(Start \/ RouterMined \/ assertPaymasterCompatible \/ ReadDepositInfo \/ ensureRegistered)
  BY <1>1 DEF Start, RouterMined, assertPaymasterCompatible, ReadDepositInfo, ensureRegistered
<1>6. ~(Mined("awaiting stake", "funding") \/ Mined("awaiting deposit", "registering"))
  BY <1>1 DEF Mined
<1>7. ~(Environment \/ Crash \/ Ends \/ UNCHANGED vars \/ (\E c \in Contracts : TakenBack(c)))
  BY <1>1 DEF Environment, Mine, UnlockStake, Register, Crash, Ends, vars, TakenBack
<1> QED
  BY <1>2, <1>3, <1>4, <1>5, <1>6, <1>7 DEF SetupMoves, Next, Service

\* Nothing is staked or deposited for a contract of another release, or one that is without the
\* router it should have, whichever start deployed it (setup.ts:98-102).
THEOREM BootFundsOnlyCompatible == BootSpec => FundedOnlyCompatible
<1>1. ASSUME SpendingInv, [BootNext]_bootVars, NEW t \in Funding
      PROVE  t.contract \notin Foreign /\ (Router # None => router'[t.contract] = Router)
  <2>1. SetupInv /\ SetupMoves
    BY <1>1, BootMoves DEF SpendingInv
  <2>2. pc \in {"staking", "funding"} /\ t.contract = paymaster /\ router' = router
    BY <1>1, <2>1, FundingStep
  <2> QED
    BY <2>1, <2>2 DEF SetupInv, PreflightInv, Passed
<1>2. SpendingInv /\ [BootNext]_bootVars =>
        [\A t \in Funding : /\ t.contract \notin Foreign
                            /\ Router # None => router'[t.contract] = Router]_vars
  BY <1>1
<1> QED
  BY BootSpends, <1>2, PTL DEF BootSpec, FundedOnlyCompatible

\* A funded contract is the one the next start will find, whenever the service dies
\* (setup.ts:268-275).
THEOREM BootFundsOnlyRemembered == BootSpec => FundedOnlyRemembered
<1>1. ASSUME SpendingInv, [BootNext]_bootVars, NEW t \in Funding
      PROVE  t.contract = candidate'
  <2>1. SetupInv /\ SetupMoves
    BY <1>1, BootMoves DEF SpendingInv
  <2>2. pc \in {"staking", "funding"} /\ t.contract = paymaster /\ stateFile' = stateFile
    BY <1>1, <2>1, FundingStep
  <2> QED
    BY <2>1, <2>2 DEF SetupInv, PaymasterInv, candidate
<1>2. SpendingInv /\ [BootNext]_bootVars => [\A t \in Funding : t.contract = candidate']_vars
  BY <1>1
<1> QED
  BY BootSpends, <1>2, PTL DEF BootSpec, FundedOnlyRemembered

-----------------------------------------------------------------------------
(* Creating the service over the setup.                                     *)

Modes == {"no-router", "unregistered", "master", "worker"}

\* How far create is; the pools it read are what they are on the chain, and a service that serves
\* through a router has one.
CreateInv ==
    /\ environment \in Environments \cup {None}
    /\ create \in {"none", "reading", "probing", "ready"}
    /\ create # "none" => pc = "prepared" /\ environment \in Environments /\ configFromEnv(environment)
    /\ DOMAIN pools \subseteq Instances
    /\ \A i \in DOMAIN pools : pools[i] = TokenOf[i]
    /\ service # None => service.mode \in Modes
    /\ (service # None) = (create = "ready")
    /\ service # None /\ service.mode # "no-router" => router[paymaster] # None
    /\ report # None => report.registered \in BOOLEAN \cup {None}
    /\ moves \in 0 .. MaxMoves

BootInv == SpendingInv /\ CreateInv

LEMMA MoveTypesOf ==
    ASSUME moves \in 0 .. MaxMoves, Move
    PROVE  moves' \in 0 .. MaxMoves
<1>1. MaxMoves \in Nat
  BY BootAssumption
<1> QED
  BY <1>1 DEF Move

\* A process that ends has created nothing.
LEMMA Ended ==
    ASSUME environment' = None, create' = "none", pools' = NoPools, service' = None, report' = None,
           moves' \in 0 .. MaxMoves
    PROVE  CreateInv'
BY DEF CreateInv, NoPools

\* Only a revert makes a pool an ETH pool, and no answer is taken for a token.
LEMMA ReadRight ==
    ASSUME NEW i \in Instances, NEW answered \in BOOLEAN, environment \in Environments,
           configFromEnv(environment)
    PROVE  /\ isContractRevert(token(i, answered)) => TokenOf[i] = None
           /\ ~isContractRevert(token(i, answered))
                 /\ token(i, answered) \in priceSourceFromEnv(environment)
                 => token(i, answered) = TokenOf[i]
<1>1. TokenOf[i] \notin Errors /\ \A j \in Instances : TokenOf[j] \notin Errors
  BY BootAssumption
<1>2. environment.FIXED_TOKENS_PER_ETH \cap Errors = {}
  BY BootAssumption
<1>3. "no answer" \in Errors /\ "reverted" \in Errors
  BY DEF Errors
<1>4. "no answer" \notin priceSourceFromEnv(environment)
  BY <1>1, <1>2, <1>3 DEF configFromEnv, priceSourceFromEnv
<1>5. token(i, answered) = "reverted" => TokenOf[i] = None
  BY <1>1, <1>3 DEF token
<1>6. token(i, answered) \in {"no answer", "reverted", TokenOf[i]}
  BY DEF token
<1> QED
  BY <1>4, <1>5, <1>6 DEF isContractRevert

LEMMA NextReadInstance ==
    ASSUME BootInv, NEW i \in Instances, NEW answered \in BOOLEAN, ReadInstance(i, answered)
    PROVE  CreateInv'
<1> USE DEF BootInv
<1>1. moves' \in 0 .. MaxMoves
  BY MoveTypesOf DEF ReadInstance, CreateInv
<1>2. CASE Fail
  BY <1>1, <1>2, Ended DEF Fail
<1>3. CASE ~Fail
  <2> DEFINE answer == token(i, answered)
             eth == isContractRevert(answer)
  <2>1. /\ eth \/ answer \in priceSourceFromEnv(environment)
        /\ pools' = [j \in DOMAIN pools \cup {i} |->
                        IF j \in DOMAIN pools THEN pools[j] ELSE IF eth THEN None ELSE answer]
        /\ create' \in {"probing", create}
        /\ UNCHANGED <<vars, environment, service, report>>
        /\ create = "reading" /\ pc = "prepared" /\ i \notin DOMAIN pools
    BY <1>3 DEF ReadInstance, Creating
  <2>2. environment \in Environments /\ configFromEnv(environment)
    BY <2>1 DEF CreateInv
  <2>3. (IF eth THEN None ELSE answer) = TokenOf[i]
    BY <2>1, <2>2, ReadRight
  <2>4. pools' = [j \in DOMAIN pools \cup {i} |-> IF j \in DOMAIN pools THEN pools[j] ELSE TokenOf[i]]
    BY <2>1, <2>3
  <2>5. DOMAIN pools' \subseteq Instances /\ \A j \in DOMAIN pools' : pools'[j] = TokenOf[j]
    BY <2>4 DEF CreateInv
  <2> QED
    BY <1>1, <2>1, <2>2, <2>5 DEF CreateInv, vars, chain, configFromEnv,
       allowedSenderImplementationsFromEnv
<1> QED
  BY <1>2, <1>3

\* The registration that the registry holds for the paymaster.
LEMMA Probed ==
    ASSUME SetupInv, paymaster \in Contracts
    PROVE  /\ probeRegistry # None /\ probeRegistry.mode \in Modes
           /\ probeRegistry.mode # "no-router" =>
                 router[paymaster] # None /\ probeRegistry.master = masterOf[paymaster]
<1>1. masterOf[paymaster] \in OtherMasters \cup {Master, None} \cup Contracts
  BY DEF SetupInv, TypeOK
<1>2. /\ probeRegistry.mode \in Modes
      /\ probeRegistry.mode # "no-router" =>
            router[paymaster] # None /\ probeRegistry.master = masterOf[paymaster]
  BY DEF probeRegistry, Modes
<1>3. probeRegistry \in Registrations
  BY <1>1 DEF probeRegistry, Registrations
<1> QED
  BY <1>2, <1>3, BootAssumption

LEMMA NextCreate ==
    ASSUME BootInv, [BootNext]_bootVars
    PROVE  CreateInv'
<1> USE DEF BootInv
<1>1. SetupInv /\ SetupMoves
  BY BootMoves DEF SpendingInv
<1>2. CASE LoadConfig
  <2>1. PICK env \in Environments :
          /\ IF Sound(env) THEN UNCHANGED moves ELSE Move
          /\ IF configFromEnv(env)
             THEN /\ environment' = env /\ create' = "reading"
                  /\ UNCHANGED <<vars, pools, service, report>>
             ELSE Fail
    BY <1>2 DEF LoadConfig
  <2>2. moves' \in 0 .. MaxMoves
    BY <2>1, MoveTypesOf DEF CreateInv
  <2>3. CASE Fail
    BY <2>2, <2>3, Ended DEF Fail
  <2>4. CASE ~Fail
    BY <1>2, <2>1, <2>2, <2>4 DEF LoadConfig, Creating, CreateInv, vars, chain, configFromEnv,
       allowedSenderImplementationsFromEnv
  <2> QED
    BY <2>3, <2>4
<1>3. ASSUME NEW i \in Instances, NEW answered \in BOOLEAN, ReadInstance(i, answered)
      PROVE  CreateInv'
  BY <1>3, NextReadInstance
<1>4. ASSUME NEW answered \in BOOLEAN, Probe(answered)
      PROVE  CreateInv'
  <2>1. moves' \in 0 .. MaxMoves
    BY <1>4, MoveTypesOf DEF Probe, CreateInv
  <2>2. CASE Fail
    BY <2>1, <2>2, Ended DEF Fail
  <2>3. CASE ~Fail
    <3>1. /\ service' = probeRegistry /\ create' = "ready" /\ pc = "prepared" /\ create = "probing"
          /\ UNCHANGED <<vars, environment, pools, report>>
      BY <1>4, <2>3 DEF Probe, Creating
    <3>2. paymaster \in Contracts
      BY <1>1, <3>1 DEF SetupInv, PaymasterInv
    <3>3. /\ service' # None /\ service'.mode \in Modes
          /\ service'.mode # "no-router" => router[paymaster] # None
      BY <1>1, <3>1, <3>2, Probed
    <3> QED
      BY <2>1, <3>1, <3>3 DEF CreateInv, vars, chain, configFromEnv, allowedSenderImplementationsFromEnv
  <2> QED
    BY <2>2, <2>3
<1>5. CASE BootCrash
  BY <1>5, Ended DEF BootCrash, CreateInv
<1>6. CASE Status
  <2>1. PICK answered \in BOOLEAN :
          LET reg == IF service.mode # "no-router" /\ answered THEN probeRegistry ELSE None
          IN report' = [mode |-> IF reg = None THEN None ELSE reg.mode,
                        registered |-> IF reg = None THEN None ELSE registrationCurrent(reg)]
    BY <1>6 DEF Status
  <2>2. report'.registered \in BOOLEAN \cup {None}
    BY <2>1 DEF registrationCurrent
  <2>3. UNCHANGED <<vars, environment, create, pools, service, moves>>
    BY <1>6 DEF Status
  <2> QED
    BY <2>2, <2>3 DEF CreateInv, vars, chain, configFromEnv, allowedSenderImplementationsFromEnv
<1>7. ASSUME UNCHANGED <<boot, pc, paymaster>>, moves' \in 0 .. MaxMoves
      PROVE  CreateInv'
  <2>1. ASSUME service # None, service.mode # "no-router"
        PROVE  router'[paymaster] # None
    <3>1. paymaster \in Contracts
      BY <1>1, <2>1 DEF CreateInv, SetupInv, PaymasterInv
    <3> QED
      BY <1>1, <2>1, <3>1, RouterStays DEF CreateInv
  <2> QED
    BY <1>7, <2>1 DEF CreateInv, boot, configFromEnv, allowedSenderImplementationsFromEnv
<1>8. CASE SetupStep
  <2>1. pc # "prepared"
    BY <1>8 DEF SetupStep, Service, Start, Deploy, DeployMined, RouterMined, assertPaymasterCompatible,
       ReadDepositInfo, AddStake, Mined, TopUp, ensureRegistered
  <2>2. create = "none" /\ service = None
    BY <2>1 DEF CreateInv
  <2> QED
    BY <1>8, <2>2 DEF SetupStep, CreateInv, boot
<1>9. CASE Environment /\ UNCHANGED <<boot, moves>>
  BY <1>7, <1>9 DEF Environment, Mine, UnlockStake, Register, CreateInv
<1>10. ASSUME NEW c \in Contracts, Unregister(c)
       PROVE  CreateInv'
  <2>1. moves' \in 0 .. MaxMoves
    BY <1>10, MoveTypesOf DEF Unregister, CreateInv
  <2> QED
    BY <1>7, <1>10, <2>1 DEF Unregister
<1>11. CASE UNCHANGED bootVars
  BY <1>7, <1>11 DEF bootVars, vars, CreateInv
<1> QED
  BY <1>2, <1>3, <1>4, <1>5, <1>6, <1>8, <1>9, <1>10, <1>11 DEF BootNext, CreateStep

LEMMA BootSafe == BootSpec => []BootInv
<1>1. BootInit => CreateInv
  BY BootAssumption DEF BootInit, NotCreated, NoPools, CreateInv
<1>2. BootInv /\ [BootNext]_bootVars => CreateInv'
  BY NextCreate
<1>3. SpendingInv /\ CreateInv <=> BootInv
  BY DEF BootInv
<1> QED
  BY <1>1, <1>2, <1>3, BootSpends, PTL DEF BootSpec

\* A start has its types, for any environments and pools.
THEOREM BootTypes == BootSpec => []BootTypeOK
<1>1. BootInv => BootTypeOK
  BY DEF BootInv, SpendingInv, SetupInv, CreateInv, BootTypeOK, Modes
<1> QED
  BY BootSafe, <1>1, PTL

\* No failed read makes a pool what it is not: an ETH pool is served as one, and an ERC-20 pool
\* with its own token, for any set of pools and any settings (service.ts:404-412).
THEOREM BootReadsPoolsRight == BootSpec => []PoolsAsDeployed
<1>1. BootInv => PoolsAsDeployed
  BY DEF BootInv, CreateInv, PoolsAsDeployed
<1> QED
  BY BootSafe, <1>1, PTL

\* /status and sign() answer alike whatever the master has done since the start
\* (service.ts:886-889, 927-947).
THEOREM StatusAgreesWithSign == BootSpec => StatusTellsRefusals
<1>1. ASSUME BootInv, Status
      PROVE  report'.registered \in {None, assertRegistrationCurrent}
  <2>1. SetupInv /\ paymaster \in Contracts
    BY <1>1 DEF BootInv, SpendingInv, SetupInv, PaymasterInv, Status, Creating
  <2>2. service # None /\ (service.mode # "no-router" => router[paymaster] # None)
    BY <1>1 DEF BootInv, CreateInv, Status, Creating
  <2>3. PICK answered \in BOOLEAN :
          LET reg == IF service.mode # "no-router" /\ answered THEN probeRegistry ELSE None
          IN report' = [mode |-> IF reg = None THEN None ELSE reg.mode,
                        registered |-> IF reg = None THEN None ELSE registrationCurrent(reg)]
    BY <1>1 DEF Status
  <2>4. CASE ~(service.mode # "no-router" /\ answered)
    BY <2>3, <2>4
  <2>5. CASE service.mode # "no-router" /\ answered
    <3>1. probeRegistry # None
      BY <2>1, Probed
    <3>2. probeRegistry.master = masterOf[paymaster]
      BY <2>2, <2>5 DEF probeRegistry
    <3> QED
      BY <2>3, <2>5, <3>1, <3>2 DEF registrationCurrent, assertRegistrationCurrent
  <2> QED
    BY <2>4, <2>5
<1>2. BootInv /\ [BootNext]_bootVars =>
        [Status => report'.registered \in {None, assertRegistrationCurrent}]_bootVars
  BY <1>1
<1> QED
  BY BootSafe, <1>2, PTL DEF BootSpec, StatusTellsRefusals

=============================================================================
