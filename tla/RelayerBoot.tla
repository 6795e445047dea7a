----------------------------- MODULE RelayerBoot -----------------------------
(***************************************************************************)
(* A start of the relayer, server.ts: ensurePaymasterSetup, configFromEnv, *)
(* RelayerService.create, and /status of the service it gives.  The setup  *)
(* is PaymasterSetup; create reads the pools and the registry, and refuses *)
(* to start over what it cannot read or does not allow.                    *)
(*                                                                         *)
(* A process keeps the environment variables it was started with; which    *)
(* they were is left open until configFromEnv looks at them.               *)
(***************************************************************************)
EXTENDS PaymasterSetup

CONSTANTS
    Instances,          \* TORNADO_INSTANCES
    TokenOf,            \* the token of each; None for an ETH pool
    Environments,       \* what the operator may start the process with
    MaxMoves            \* bound of the instance checked: bad settings, failed reads, moved registrations

\* What reading token() may end with instead of an address.
Errors == {"reverted", "no answer"}

Registrations == [mode : {"no-router", "unregistered", "master", "worker"},
                  master : OtherMasters \cup {Master, None} \cup Contracts]

ASSUME BootAssumption ==
    /\ TokenOf \in [Instances -> STRING \cup {None}]
    /\ \A i \in Instances : TokenOf[i] \notin Errors
    /\ \A env \in Environments : env.FIXED_TOKENS_PER_ETH \cap Errors = {}
    /\ None \notin Registrations
    /\ MaxMoves \in Nat

VARIABLES
    environment,        \* None until create
    create,             \* how far RelayerService.create is
    pools,              \* the token recorded for each pool read so far
    service,            \* the registration create saw, once it serves
    report,             \* the last /status
    moves

boot == <<environment, create, pools, service, report>>
bootVars == <<vars, boot, moves>>

NoPools == [i \in {} |-> None]

NotCreated ==
    /\ environment = None /\ create = "none" /\ pools = NoPools /\ service = None /\ report = None

BootInit == Init /\ NotCreated /\ moves = 0

-----------------------------------------------------------------------------
(* The environment variables.                                               *)

\* Unset means Simple7702Account; there is no spelling of "any account".
allowedSenderImplementationsFromEnv(env) ==
    IF env.ALLOWED_SENDER_IMPLEMENTATIONS = None THEN {"Simple7702Account"}
    ELSE env.ALLOWED_SENDER_IMPLEMENTATIONS

\* The tokens it can price; an oracle prices all of them.
priceSourceFromEnv(env) ==
    CASE env.PRICE_SOURCE = "none" -> {}
      [] env.PRICE_SOURCE = "oneinch" -> {TokenOf[i] : i \in Instances} \ {None}
      [] env.PRICE_SOURCE = "fixed" -> env.FIXED_TOKENS_PER_ETH

\* Whether configFromEnv, and create after it, take the settings.
configFromEnv(env) ==
    /\ env.SIMULATE_WITH_BUNDLER \in {None, "true"}
    /\ env.BUNDLER_URL # None
    /\ allowedSenderImplementationsFromEnv(env) # {}
    /\ env.PRICE_SOURCE \in {"none", "oneinch", "fixed"}

Sound(env) == configFromEnv(env) /\ \A i \in Instances : TokenOf[i] \in priceSourceFromEnv(env) \cup {None}

-----------------------------------------------------------------------------

Move == moves < MaxMoves /\ moves' = moves + 1

\* The process ends; the next start begins with the setup.
Fail ==
    /\ Exit /\ UNCHANGED <<stateFile, pending>>
    /\ environment' = None /\ create' = "none" /\ pools' = NoPools /\ service' = None /\ report' = None

Creating(at) == pc = "prepared" /\ create = at

\* An operator whose settings are refused corrects them.
LoadConfig ==
    /\ Creating("none")
    /\ \E env \in Environments :
        /\ IF Sound(env) THEN UNCHANGED moves ELSE Move
        /\ IF configFromEnv(env)
           THEN /\ environment' = env /\ create' = "reading"
                /\ UNCHANGED <<vars, pools, service, report>>
           ELSE Fail

\* Any error of token() taken for a revert.
isAnyError(answer) == answer \in {"reverted", "no answer"}

\* Of all errors only a revert says something about the contract.
isContractRevert(answer) == answer = "reverted"

\* token() of the pool; an ETH pool has none.
token(i, answered) ==
    CASE ~answered -> "no answer"
      [] answered /\ TokenOf[i] = None -> "reverted"
      [] OTHER -> TokenOf[i]

\* One pool at a time; a token that cannot be priced stops the start.
ReadInstance(i, answered) ==
    /\ Creating("reading") /\ i \notin DOMAIN pools
    /\ IF answered THEN UNCHANGED moves ELSE Move
    /\ LET answer == token(i, answered)
           eth == isContractRevert(answer)
       IN IF eth \/ answer \in priceSourceFromEnv(environment)
          THEN /\ pools' = [j \in DOMAIN pools \cup {i} |->
                               IF j \in DOMAIN pools THEN pools[j] ELSE IF eth THEN None ELSE answer]
               /\ create' = IF DOMAIN pools' = Instances THEN "probing" ELSE create
               /\ UNCHANGED <<vars, environment, service, report>>
          ELSE Fail

\* What the registry, read now, makes of the paymaster.
probeRegistry ==
    LET master == masterOf[paymaster]
        mode == CASE router[paymaster] = None -> "no-router"
                  [] router[paymaster] # None /\ master = None -> "unregistered"
                  [] router[paymaster] # None /\ master = paymaster -> "master"
                  [] OTHER -> "worker"
    IN [mode |-> mode, master |-> IF mode = "no-router" THEN None ELSE master]

rewardAccount == expectedMaster(paymaster)

MayServe(probe) ==
    CASE probe.mode = "no-router" -> rewardAccount = paymaster
      [] probe.mode = "unregistered" -> environment.ALLOW_UNREGISTERED
      [] OTHER -> probe.master = rewardAccount

Probe(answered) ==
    /\ Creating("probing")
    /\ IF answered THEN UNCHANGED moves ELSE Move
    /\ IF answered /\ MayServe(probeRegistry)
       THEN /\ service' = probeRegistry /\ create' = "ready"
            /\ UNCHANGED <<vars, environment, pools, report>>
       ELSE Fail

-----------------------------------------------------------------------------
(* The service.                                                             *)

Unchecked == {"no-router", "unregistered"}

\* sign() goes past the registry check.
assertRegistrationCurrent == service.mode \in Unchecked \/ masterOf[paymaster] = rewardAccount

\* As start-up saw it.
registrationAtStartup(reg) == service.mode \in Unchecked \/ service.master = rewardAccount

registrationCurrent(reg) == service.mode \in Unchecked \/ (reg # None /\ reg.master = rewardAccount)

\* liveState and status: what cannot be read is reported as null.
Status ==
    /\ Creating("ready")
    /\ \E answered \in BOOLEAN :
        LET reg == IF service.mode # "no-router" /\ answered THEN probeRegistry ELSE None
        IN report' = [mode |-> IF reg = None THEN None ELSE reg.mode,
                      registered |-> IF reg = None THEN None ELSE registrationCurrent(reg)]
    /\ UNCHANGED <<vars, environment, create, pools, service, moves>>

\* The master takes its worker back.
Unregister(c) ==
    /\ Move
    /\ masterOf[c] # None
    /\ masterOf' = [masterOf EXCEPT ![c] = None]
    /\ UNCHANGED <<deployed, router, stake, staked, deposit, stateFile, pc, paymaster, info, pending,
                   receipt, crashes, boot>>

-----------------------------------------------------------------------------

SetupStep == Service /\ UNCHANGED <<boot, moves>>

CreateStep ==
    \/ LoadConfig
    \/ \E i \in Instances, answered \in BOOLEAN : ReadInstance(i, answered)
    \/ \E answered \in BOOLEAN : Probe(answered)

BootCrash ==
    /\ Crash
    /\ environment' = None /\ create' = "none" /\ pools' = NoPools /\ service' = None /\ report' = None
    /\ UNCHANGED moves

BootNext ==
    \/ SetupStep \/ CreateStep \/ Status \/ BootCrash
    \/ Environment /\ UNCHANGED <<boot, moves>>
    \/ \E c \in Contracts : Unregister(c)

BootSpec == BootInit /\ [][BootNext]_bootVars

(* The operator starts a process that has ended and the chain mines what it *)
(* is sent; of transactions sent again and again one succeeds.              *)
BootFairSpec ==
    /\ BootSpec
    /\ WF_bootVars(SetupStep \/ CreateStep)
    /\ WF_bootVars(\E t \in pending, ok \in BOOLEAN : Mine(t, ok) /\ UNCHANGED <<boot, moves>>)
    /\ SF_bootVars(\E t \in pending : Mine(t, TRUE) /\ UNCHANGED <<boot, moves>>)

-----------------------------------------------------------------------------

BootTypeOK ==
    /\ TypeOK
    /\ environment \in Environments \cup {None}
    /\ create \in {"none", "reading", "probing", "ready"}
    /\ create # "none" => pc = "prepared" /\ configFromEnv(environment)
    /\ DOMAIN pools \subseteq Instances
    /\ service # None => service.mode \in {"no-router", "unregistered", "master", "worker"}
    /\ (service # None) = (create = "ready")
    /\ report # None => report.registered \in BOOLEAN \cup {None}
    /\ moves \in 0 .. MaxMoves

\* An ERC-20 pool is never served as an ETH pool, nor an ETH pool as a token's, whatever reads
\* failed at start-up (service.ts:404-412).
PoolsAsDeployed == \A i \in DOMAIN pools : pools[i] = TokenOf[i]

\* /status and sign() answer alike: `registered` is true when a sponsorship would go past the
\* registry check, false when it would be refused, and null when it cannot tell, also after the
\* master has moved the registration (service.ts:886-889, 927-947).
StatusTellsRefusals ==
    [][Status => report'.registered \in {None, assertRegistrationCurrent}]_bootVars

\* What no start gets past, and only a person can change: a contract of another release or one
\* whose setRouter failed, another master, an unlocked stake that is too large.
Stuck ==
    /\ candidate # None
    /\ \/ ~Compatible(candidate)
       \/ masterOf[candidate] \notin {None, expectedMaster(candidate)}
       \/ ~staked[candidate] /\ stake[candidate] > StakeWei

\* After any crash, revert, failed read or refused setting, the service comes to serve or waits
\* for the master to register its paymaster.
BootCompletes ==
    <>[](\/ create = "ready"
         \/ pc = "registering" /\ masterOf[paymaster] = None
         \/ Stuck)

=============================================================================
