--------------------------- MODULE PaymasterSetup ---------------------------
(***************************************************************************)
(* ensurePaymasterSetup (relayer/src/setup.ts), standalone mode: what the  *)
(* service does on every start before it serves.  With no paymaster        *)
(* configured or remembered it deploys one, sets its router and remembers  *)
(* it in the state file; then it checks the paymaster, stakes, tops up the *)
(* deposit and waits for the master to register it.                        *)
(*                                                                         *)
(* A transaction is sent, mined and noticed in three steps.  A crash (or a *)
(* receipt that is not seen in time) forgets that it was sent; the chain   *)
(* does not.                                                               *)
(***************************************************************************)
EXTENDS Integers, FiniteSets, Functions

CONSTANTS
    Contracts,          \* addresses a deployment may get, or got before
    None,               \* undefined; the zero address
    Router,             \* cfg.router, or None
    Master,             \* cfg.rewardAccount, or None: the paymaster is its own master
    OtherMasters,       \* other relayers; any may register an address that is free
    Configured,         \* cfg.paymaster, or None
    Foreign,            \* contracts of another release, EntryPoint or signer
    Administered,       \* contracts whose owner is the relayer key
    AutoSetup, RequireRegistration, WaitForRegistration,
    TransactionsRevert, \* a mined transaction may have failed
    OwnerUnlocks,       \* the owner may unlock the stake by hand
    StakeWei, DepositWei,
    StakedBefore,       \* what Configured may have been staked with
    MaxCrashes          \* bound of the instance checked

Predeployed == Foreign \cup ({Configured} \ {None})

ASSUME SetupAssumption ==
    /\ None \notin Contracts
    /\ Foreign \subseteq Contracts
    /\ Configured \in Contracts \cup {None}
    /\ Contracts \ Predeployed \subseteq Administered
    /\ StakeWei \in Nat /\ DepositWei \in Nat /\ StakedBefore \subseteq Nat
    /\ {AutoSetup, RequireRegistration, WaitForRegistration} \subseteq BOOLEAN
    /\ {TransactionsRevert, OwnerUnlocks} \subseteq BOOLEAN
    /\ None \notin {"success", "reverted"}
    /\ MaxCrashes \in Nat

VARIABLES
    deployed, router,   \* contracts with code, and the router each was given
    stake, staked,      \* at the EntryPoint; staked is FALSE once unlocked
    deposit,
    masterOf,           \* workers[c] in the registry
    stateFile,
    pc,
    paymaster,          \* the contract this start works on
    info,               \* getDepositInfo as it was read
    pending,            \* transactions sent and not mined
    receipt,            \* of the transaction waited for: None, "success" or "reverted"
    crashes

chain == <<deployed, router, stake, staked, deposit, masterOf>>
vars == <<chain, stateFile, pc, paymaster, info, pending, receipt, crashes>>

expectedMaster(c) == IF Master = None THEN c ELSE Master

\* `life` tells a transaction from that of an earlier start.
Txs == [kind : {"deploy", "setRouter", "addStake", "deposit"},
        contract : Contracts, wei : Nat, life : 0 .. MaxCrashes]

TypeOK ==
    /\ deployed \in SUBSET Contracts
    /\ router \in [Contracts -> {Router, None}]
    /\ stake \in [Contracts -> Nat] /\ staked \in [Contracts -> BOOLEAN]
    /\ deposit \in [Contracts -> Nat]
    /\ masterOf \in [Contracts -> OtherMasters \cup {Master, None} \cup Contracts]
    /\ stateFile \in Contracts \cup {None}
    /\ pc \in {"down", "deploying", "routing", "preflight", "reading", "staking",
               "awaiting stake", "funding", "awaiting deposit", "registering", "prepared"}
    /\ paymaster \in Contracts \cup {None}
    /\ info \in [stake : Nat, staked : BOOLEAN, deposit : Nat]
    /\ pending \in SUBSET Txs
    /\ receipt \in {None, "success", "reverted"}
    /\ crashes \in 0 .. MaxCrashes

NoInfo == [stake |-> 0, staked |-> FALSE, deposit |-> 0]

Init ==
    /\ deployed = Predeployed
    /\ router \in {f \in [Contracts -> {Router, None}] : \A c \in Contracts \ deployed : f[c] = None}
    /\ \E wei \in StakedBefore : stake = [c \in Contracts |-> IF c = Configured THEN wei ELSE 0]
    /\ staked = [c \in Contracts |-> stake[c] > 0]
    /\ deposit = [c \in Contracts |-> 0]
    /\ masterOf = [c \in Contracts |-> None]
    /\ stateFile \in Foreign \cup {None}
    /\ pc = "down" /\ paymaster = None
    /\ info = NoInfo
    /\ pending = {} /\ receipt = None
    /\ crashes = 0

-----------------------------------------------------------------------------
(* The chain, and those who act on it by hand.                              *)

Credit(f, t) == [f EXCEPT ![t.contract] = @ + t.wei]

Execute(t) ==
    /\ deployed' = IF t.kind = "deploy" THEN deployed \cup {t.contract} ELSE deployed
    /\ router' = IF t.kind = "setRouter" THEN [router EXCEPT ![t.contract] = Router] ELSE router
    /\ stake' = IF t.kind = "addStake" THEN Credit(stake, t) ELSE stake
    /\ staked' = IF t.kind = "addStake" THEN [staked EXCEPT ![t.contract] = TRUE] ELSE staked
    /\ deposit' = IF t.kind = "deposit" THEN Credit(deposit, t) ELSE deposit

\* A start has one transaction under way at a time.
Mine(t, ok) ==
    /\ t \in pending /\ (ok \/ TransactionsRevert)
    /\ pending' = pending \ {t}
    /\ IF ok THEN Execute(t) ELSE UNCHANGED <<deployed, router, stake, staked, deposit>>
    /\ receipt' = IF t.life # crashes THEN receipt ELSE IF ok THEN "success" ELSE "reverted"
    /\ UNCHANGED <<masterOf, stateFile, pc, paymaster, info, crashes>>

\* registerWorker by a master, or registerAsRelayer by the paymaster's owner.
Register(m, c) ==
    /\ c \in deployed /\ masterOf[c] = None
    /\ masterOf' = [masterOf EXCEPT ![c] = m]
    /\ UNCHANGED <<deployed, router, stake, staked, deposit, stateFile, pc, paymaster, info,
                   pending, receipt, crashes>>

UnlockStake(c) ==
    /\ OwnerUnlocks /\ staked[c]
    /\ staked' = [staked EXCEPT ![c] = FALSE]
    /\ UNCHANGED <<deployed, router, stake, deposit, masterOf, stateFile, pc, paymaster, info,
                   pending, receipt, crashes>>

-----------------------------------------------------------------------------
(* The service.                                                             *)

Goto(l) == pc' = l /\ UNCHANGED <<chain, info, crashes>>

Exit == Goto("down") /\ receipt' = None /\ paymaster' = None

\* Send it and wait for its receipt.
Send(kind, c, wei) ==
    /\ pending' = pending \cup {[kind |-> kind, contract |-> c, wei |-> wei, life |-> crashes]}
    /\ receipt' = None

candidate == IF Configured # None THEN Configured ELSE stateFile

Start ==
    /\ pc = "down" /\ candidate # None
    /\ paymaster' = candidate
    /\ Goto("preflight")
    /\ UNCHANGED <<stateFile, pending, receipt>>

\* Without autoSetup a start with no candidate only fails.
Deploy ==
    /\ pc = "down" /\ candidate = None /\ AutoSetup
    /\ \E c \in Contracts \ (deployed \cup {t.contract : t \in pending}) :
          Send("deploy", c, 0) /\ paymaster' = c
    /\ Goto("deploying")
    /\ UNCHANGED stateFile

\* A router is set before the address is remembered.
DeployMined ==
    /\ pc = "deploying" /\ receipt # None
    /\ CASE receipt = "reverted" -> Exit /\ UNCHANGED <<stateFile, pending>>
         [] receipt = "success" /\ Router # None ->
               /\ Send("setRouter", paymaster, 0) /\ Goto("routing")
               /\ UNCHANGED <<stateFile, paymaster>>
         [] receipt = "success" /\ Router = None ->
               /\ stateFile' = paymaster /\ receipt' = None /\ Goto("preflight")
               /\ UNCHANGED <<paymaster, pending>>

\* A start that leaves the file for later.
SaveNothing == UNCHANGED stateFile

SaveState == stateFile' = paymaster

\* The status of the setRouter receipt is not looked at.
RouterMined ==
    /\ pc = "routing" /\ receipt # None
    /\ SaveState
    /\ receipt' = None
    /\ Goto("preflight")
    /\ UNCHANGED <<paymaster, pending>>

\* A preflight that trusts the router it has set.
CompatibleLayout(c) == c \notin Foreign

Compatible(c) ==
    /\ c \notin Foreign
    /\ Router # None => router[c] = Router
    /\ Router # None /\ Master # None => masterOf[c] \in {None, Master}

assertPaymasterCompatible ==
    /\ pc = "preflight"
    /\ IF Compatible(paymaster)
       THEN Goto("reading") /\ UNCHANGED <<paymaster, receipt>>
       ELSE Exit
    /\ UNCHANGED <<stateFile, pending>>

ReadDepositInfo ==
    /\ pc = "reading"
    /\ info' = [stake |-> stake[paymaster], staked |-> staked[paymaster],
                deposit |-> deposit[paymaster]]
    /\ pc' = "staking"
    /\ UNCHANGED <<chain, stateFile, paymaster, pending, receipt, crashes>>

\* The whole stake, whatever there is.
wholeStake == StakeWei

missingStake == StakeWei - info.stake

\* Any amount may be sent.
EncodableAny(wei) == TRUE

\* A negative value is refused before anything is sent.
Encodable(wei) == wei >= 0

AddStake ==
    /\ pc = "staking"
    /\ IF StakeWei > 0 /\ (~info.staked \/ missingStake > 0) /\ AutoSetup /\ paymaster \in Administered
       THEN IF Encodable(missingStake)
            THEN Send("addStake", paymaster, missingStake) /\ Goto("awaiting stake")
                 /\ UNCHANGED paymaster
            ELSE Exit /\ UNCHANGED pending
       ELSE Goto("funding") /\ UNCHANGED <<paymaster, pending, receipt>>
    /\ UNCHANGED stateFile

\* Neither stake nor deposit looks at the status of its receipt.
Mined(at, next) ==
    /\ pc = at /\ receipt # None
    /\ receipt' = None
    /\ Goto(next)
    /\ UNCHANGED <<stateFile, paymaster, pending>>

\* From the deposit as it was before the stake.
TopUp ==
    /\ pc = "funding"
    /\ IF info.deposit < DepositWei /\ AutoSetup
       THEN Send("deposit", paymaster, DepositWei - info.deposit) /\ Goto("awaiting deposit")
       ELSE Goto("registering") /\ UNCHANGED <<pending, receipt>>
    /\ UNCHANGED <<stateFile, paymaster>>

\* A service that exits, to be started again, instead of waiting.
NeverWaits == TRUE

GivesUp == ~WaitForRegistration

\* One poll of the registry; it waits, and asks again, while nobody has registered it.
ensureRegistered ==
    /\ pc = "registering"
    /\ CASE ~RequireRegistration \/ router[paymaster] = None
               \/ masterOf[paymaster] = expectedMaster(paymaster) ->
               Goto("prepared") /\ UNCHANGED <<paymaster, receipt>>
         [] OTHER ->
               /\ masterOf[paymaster] # None \/ GivesUp
               /\ Exit
    /\ UNCHANGED <<stateFile, pending>>

\* The process dies, or gives up waiting for a receipt.
Crash ==
    /\ pc # "down" /\ crashes < MaxCrashes
    /\ crashes' = crashes + 1
    /\ pc' = "down" /\ paymaster' = None /\ receipt' = None
    /\ UNCHANGED <<chain, stateFile, info, pending>>

-----------------------------------------------------------------------------

Service ==
    \/ Start \/ Deploy \/ DeployMined \/ RouterMined \/ assertPaymasterCompatible
    \/ ReadDepositInfo \/ AddStake \/ Mined("awaiting stake", "funding")
    \/ TopUp \/ Mined("awaiting deposit", "registering") \/ ensureRegistered

Environment ==
    \/ \E t \in pending, ok \in BOOLEAN : Mine(t, ok)
    \/ \E c \in Contracts : UnlockStake(c) \/ Register(expectedMaster(c), c)
    \/ \E m \in OtherMasters, c \in Contracts : Register(m, c)

Next == Service \/ Crash \/ Environment

Spec == Init /\ [][Next]_vars

\* The operator starts a service that is down, and the chain mines what it is sent.
FairSpec ==
    /\ Spec
    /\ WF_vars(Service)
    /\ WF_vars(\E t \in pending : Mine(t, TRUE))

-----------------------------------------------------------------------------
(* What the setup promises.                                                 *)

SumOver(txs) == SumFunctionOnSet([t \in txs |-> t.wei], txs)

Funding == {t \in pending' \ pending : t.kind \in {"addStake", "deposit"}}

\* "before a single wei moves": nothing is staked or deposited for a contract of another
\* release, or one whose setRouter failed, whichever start deployed it.
FundedOnlyCompatible ==
    [][\A t \in Funding :
          /\ t.contract \notin Foreign
          /\ Router # None => router'[t.contract] = Router]_vars

\* Money goes only to the contract that the next start will find: whenever the service
\* dies, it never leaves a funded contract behind.
FundedOnlyRemembered == [][\A t \in Funding : t.contract = candidate']_vars

\* A start sends what is missing, once: only a crash with a transaction under way can have
\* the same wei sent twice, and a start that fails, whenever it fails, costs nothing more.
SpendingBounded ==
    \A c \in Contracts :
        LET Sent(kind) == SumOver({t \in pending : t.kind = kind /\ t.contract = c})
        IN /\ deposit[c] + Sent("deposit") <= DepositWei * (1 + crashes)
           /\ c # Configured => stake[c] + Sent("addStake") <= StakeWei * (1 + crashes)

\* Every start, after any crash, ends with the paymaster prepared or waits for the master.
SetupCompletes ==
    <>[](\/ pc = "prepared"
         \/ pc = "registering" /\ masterOf[paymaster] = None)

=============================================================================
