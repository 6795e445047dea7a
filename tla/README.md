# Verification of the ERC-4337 relayer for Tornado withdrawals

This directory holds TLA+ models of this repository, the TLC runs that check them
on small instances and the TLAPS proofs of what holds for every instance. Paths
are relative to the root of the repository.

Contents: [the system](#the-system), [the hard parts](#the-hard-parts),
[modules](#modules), [runs](#runs), [fairness](#fairness), [proofs](#proofs),
[findings](#findings), [what is not modelled](#what-is-not-modelled),
[plan](#plan).

## The system

A user withdraws a Tornado note from an account that holds no ether. The client
proves the withdrawal and builds a user operation that calls `relayWithdraw` on
the relayer's paymaster; the relayer service checks the operation and signs a
sponsorship; a public bundler includes it. The paymaster is charged for the gas
at the EntryPoint and is paid out of the fee the proof names, and the DAO burns
TORN from the relayer's stake on the way.

| component | state it keeps | operations | talks to |
|---|---|---|---|
| service (`relayer/src/service.ts`, `validate.ts`, `fee.ts`, `userop.ts`, `price.ts`, `rpc.ts`) | one store of live sponsorships; a handler per request; the pools and registration read at start; a cached rate | create, `tornado_quote`, `pm_getPaymasterStubData`, `pm_getPaymasterData` (sign), `/status` | store, chain reads, bundler simulation, signer |
| store (`service.ts`, `store.ts`) | notes reserved or signed, in memory; signed ones in a file | reserve, commit, release, prune, load | service only |
| start (`relayer/src/server.ts`, `setup.ts`, `config.ts`) | a state file with the deployed address; the environment variables | deploy, setRouter, preflight, stake, deposit, wait for registration; then settings, pools, registry | chain; runs before the service serves |
| paymaster (`contracts/src/TornadoRelayerPaymasterCore.sol`) | signer, own balances, deposit; transient allowances and receipts | validate, relayWithdraw, postOp, owner's administration | EntryPoint, router, pool |
| relayer registry, fee manager, staking, router (`contracts/src/dao-sandbox`) | masters and workers, stakes, cached fees, TORN | register, workers, stake, burn, governance | paymaster calls the router, which burns and then calls the pool |
| instance registry (same place) | enabled pools, their tokens | add, update, remove | router |
| pool (`contracts-tornado/src`) | incremental Merkle tree, ring of roots, spent nullifiers | deposit, withdraw | router or paymaster |
| client (`client/src`) | a cache file of deposits; a withdrawal in progress | sync, check the root, quote, prove, estimate, quote again, request a sponsorship, submit, wait | pool's events, service, bundler |

What makes each correct, in a sentence each:

* service: at any moment at most one signature per note that a block may still
  accept; each on disk before it leaves the process; the deposit covers every
  signature that is out; no request and no reservation hangs.
* store: no write and no restart loses or changes the record of a live signature.
* start: ether goes only to a contract the preflight accepts and the
  next start finds; pools are served as what they are; every start ends in serving
  or in waiting for the master; `/status` says what sign does.
* rules and hashing: a batch that is sponsored takes one note and pays for it; the
  signature is over the hash the paymaster computes, and binds the account's code.
* paymaster: relays only what was signed for the operation that runs; spends no
  token it held before, and no ether unless relays are nested (a [finding](#findings));
  an operation that succeeds pays for itself.
* registry: a worker resolves to a master in one step; registrations last; a stake
  burns only for its owner's withdrawals; no TORN is counted twice or lost.
* pool: the tree's root is the one clients compute; recent roots, and no others,
  are known; every note is paid once and the pool can pay all that is left.
* client flow: the proof, the tail calls and the limits are of one quote; a user who
  did as told is refused only for a reason that lies in the world; the note comes out
  while the relayer can sponsor it.
* client sync: leaf k is the k-th deposit, and none up to the cache's block is missing.

## The hard parts

* *Interleaved handlers.* The service is one JavaScript process: a handler runs
  without interruption between two `await`s, and about seven awaits separate the
  reservation of a note from its commit. Other handlers, `/status` and time run
  in between, and the chain moves between a read and its use.
* *Crashes.* The process may die at every await; the file is rewritten as a whole.
  Setup sends transactions and forgets them when it dies, the chain does not.
* *Two clocks.* The relayer's wall clock prunes, `block.timestamp` expires.
* *Shared transactions.* Operations of one bundle, and of one sender, share
  transient storage; validations all come before executions; an execution or a
  postOp that reverts undoes different things. A pool of ether calls whom it pays.
* *Rounding* on two sides, in two assets.
* *A world that moves under a withdrawal.* Gas prices, the rate, the estimate, the
  relayer's configuration, the ring of roots and the code of the account change
  between the client's seven round trips; its proof binds figures of an earlier one.
* *Two encodings of one operation.* The relayer hashes JSON-RPC fields, the paymaster
  the packed words a bundler made of them and the delegate it finds.
* *Long sequences of legal calls* on registries, trees and rings of roots.
* *Shared files and lagging nodes* on the client.

`PROJECT.json` lists each hazard at its line with the properties that cover it.

## Modules

`X` models a component, `MCX` gives its constants for TLC, `XProofs` proves.
`PaymasterBundleProofs` also holds the proofs about `FeeMath`, `WithdrawalFlowProofs`
those about `OperationRules` and `OperationHash`, `RelayerBootProofs` those about
`PaymasterSetup`.

| module | models |
|---|---|
| `SponsorshipStore` | `MemorySponsorshipStore`, `FileSponsorshipStore`, as operators on a store value |
| `RelayerService` | `RelayerService.sign` and `status` over that store, crashes, the chain around it |
| `SponsorshipLedger` | the contract of the store without the store: grants are only added, each note again only after expiry, each used at most once |
| `FeeMath` | `fee.ts` and the settlement arithmetic of `postOp` |
| `OperationRules` | `validate.ts`, as operators on account calls, with a reference of what a batch withdraws |
| `OperationHash` | `userop.ts` packing and hashing, and `getHash` and the delegation check of the paymaster |
| `WithdrawalFlow` | `client/src/flow.ts` and `relayerClient.ts` against `quote`, `stubData` and `sign`, the bundler and the account |
| `PaymasterBundle` | the paymaster inside `EntryPoint.handleOps` |
| `RelayerRegistry` | registry, fee cache, staking contract, `TornadoRouter.withdraw` |
| `NotePool` | what a pool promises: notes are put in once, each nullifier is paid once, out of what is held; no tree, no roots |
| `TornadoPool` | `Tornado`, `MerkleTreeWithHistory` and the asset of an instance |
| `LeafSync` | `client/src/merkle.ts`, several runs over one cache file |
| `PaymasterSetup` | `setup.ts`, several starts of the service |
| `RelayerBoot` | the rest of a start: `config.ts`, `RelayerService.create`, the registry probe, and `/status` |
| `ArithmeticTheorems` | nothing of the code: induction over sets, sums, division, powers of two |

`RelayerService` is composed of `SponsorshipStore` (EXTENDS: the store is one of
its variables) and shown to implement `SponsorshipLedger` (INSTANCE with the
grants read off the program counters). `PaymasterBundle` extends `FeeMath`; its
`Signable` is the interface to the service: a signature exists only for terms
that passed the service's fee check. `WithdrawalFlow` extends `OperationRules`,
`OperationHash` and `FeeMath`: its `sign` asks the rules, the fees and the hash, and
what lands is validated by the paymaster's side of `OperationHash`. It takes the
service as one step; `RelayerService` opens that step, and takes the rules' answer as
its input. `RelayerBoot` extends `PaymasterSetup`, whose `prepared` is where it goes
on. `TornadoPool` is shown to implement `NotePool` (INSTANCE with the notes read off
the leaves and the nullifiers). Its `RootOver(n)` is the client's
tree over the first n deposits; together with `LeafSync`'s `LeavesAreDeposits` it
says that a client that syncs a prefix of the deposits computes a root the pool
has had, and `KnownRootsAreRecent` for how long it is good.

**RelayerService.** A request's `pc` names the await its handler is parked at, so
an action is the code between two awaits. `ReserveNote` is step 3 (prune, check
and reserve without an await), `ResolveSenderImplementation` to
`AssertBundlerSimulates` are steps 4 to 8, `Commit` steps 9 and 10, `Reply` the
response; `CheckFails` is every path into the `catch` that releases the note, and
`HashFails` the exception of `paymasterHash`, which is outside of both.
Several reads awaited in one step of `sign` are collapsed to the last of them,
except the deposit, whose read (`ReadDeposit`) and use (`AssertDepositCovers`) are
apart because a property depends on it. `store` and `file` are memory and disk;
`Crash` empties the first, `Start` loads and rewrites the second. `Land`, `TopUp`,
`SpendElsewhere` and `MoveRegistration` are the chain. `LegacyRequests` are
signatures restored from a file of a release that stored no gas cost. The file
is replaced by a rename; loss of a rename at a power failure (there is no fsync)
is not modelled. The owner's `withdrawTo` while the service serves is not either:
no budget survives it, and no document says one does.

**PaymasterBundle.** A bundle is `BeginBundle`, `Validate` per operation (or
`RevertBundle`), then per operation `BeginFrame`, relays, `ExecutionEnds` or `ExecutionReverts`, and `PostOp`, `PostOpAfterRevert` or
`PostOpReverts`; `EndBundle` clears transient storage. `world` is what a revert
restores; `bundleStart` and `frameStart` are the two save points. A withdrawal
says whether its proof names the paymaster (master mode) or the master EOA as
relayer; the two mix. An account in `FaithfulSenders`, while delegated to the
implementation the terms name, executes its callData as written, which the
service has checked to hold exactly the signed withdrawal; any other account calls
whatever it likes, any number of times. A relay is two steps: `RelayWithdraw` consumes
the grant, measures the balances and has the pool mark the note spent; `RelayReturns` is
the payment of the relayer and the balance difference. Between them an ETH pool calls
the recipient, and an account of another make may relay again (`MayCall`), of another
pool, since a pool is not re-entered (`poolOf`); `open` holds the relays under way,
innermost first, and `nested` that there was one inside another. The approved
implementation calls nobody when it is paid, and the fee's receivers are the relayer's
own. Ether that is sent to the paymaster during a relay by others than the pool is left
out; it would count as fee without having been held before. The gas bill is
between the gas so far and that plus `postOpGasOverhead`, i.e. the configured
overhead is assumed to cover postOp's own gas. The EntryPoint is v0.8 (one
`handleOps` per transaction, called by an account without code).

**RelayerRegistry.** One action per transaction, a reverted one is no step; the
deposit that `register` makes and the workers it registers are part of it, the
refresh of the fee cache is part of the burn. `address(0)` is an address: it
resolves to itself, as in the mapping. `NoName` is bytes32(0), the hash of the empty
name and of none: the owner of that node may register with it and leaves no `ensHash`.
`paidIn`, `nullified` and `granted` are history variables for the accounting property,
`registrants` for the lookups.

**TornadoPool.** A hash is the pair it hashes, so hashing is injective by
construction, and `HashAssumption` says that no tree hashes to zero. `RootOf` is the
client's tree over a list of leaves, `Ancestor` the `currentIndex` of `_insert`. `withdraw` names the number of leaves its proof was made for; the
verifier accepts it exactly if the commitment is among them. Commitments may
share a nullifier. One of them may be the zero value of the tree: the contract takes it
and adds a leaf that changes no node; nobody knows a note of it, so it is never
withdrawn. `nonReentrant` makes a call one step.

**LeafSync.** One action per await of `syncLeaves`: load, read the head, one
`eth_getLogs` per range in flight, append and truncate the file, write it. The
latest block or an earlier one is asked for. `setting` says whether nodes may lag
and whether the file may be one without `leafBlocks`. `Sorted` is `events.sort`. The chain
does not reorg.

**OperationRules.** A call is its target, the value, the function its data decodes to
and the arguments of a withdrawal. The search returns indices. The reference
(`TakesNote`, `PaysOnce`) says what the calls do when the account runs them as
written; a call that makes another contract withdraw is outside of both, and of the
code.

**OperationHash.** keccak256 is injective by construction: a hash is the tuple it is
taken of. An initCode is a sequence of at most two items, since only its first 20
bytes and the rest are told apart. The halves of a word are numbers, packed and
read back with arithmetic. `InitCodes` is what a bundler may make of one operation.

**WithdrawalFlow.** An action is one round trip of the client (`Start` to `Waited`),
`Throw` each of its exceptions, and the user starts over. `sign(op)` is the set of
reasons against an operation, `Sponsorship(op)` what is signed if there is none;
`held` is the live sponsorship of the client's note, which `Expire` ends. `code` is
the delegation of the account and the nonce that authorizations are bound to; `Land`
applies the authorization, validates, and executes if the limits suffice.
Of the service's checks, the cost limit (`belowCap`), the deposit (`depositCovers`), the
registration (`registrationCurrent`), the dry run of the withdrawal (`WouldSucceed`) and
the bundler are asked of `standing`: what the deposit is known to leave for one more
operation, whether the registry answers and names `rewardAccount`, whether the router
relays, whether the bundler answers. It changes with the environment, and `Land` takes
from it what a failed operation costs (a successful one brings in its cost). The
EntryPoint's own look at the deposit when it includes the operation is left out, and so
are failures of the signer and of the disk, which are `RelayerService`'s.
`OtherCaller` is anyone who asks for a sponsorship of calls of their own. What the
bundler's estimate shows of another wallet's code is left open (`Runs`). A
withdrawal by another relayer, new deposits, prices, estimates, the paymaster's standing,
a restarted relayer and a re-delegated account are the environment, `MaxMoves` of them.

**RelayerBoot.** `LoadConfig` takes the settings, `ReadInstance` asks one pool for
its token, `Probe` reads the registry; each may end the process, and the next start
begins with the setup. A read may fail to be answered. `Status` is `/status`,
`Unregister` the master.

**PaymasterSetup.** A transaction is sent, mined and noticed in three steps; a
crash in between forgets it (a receipt that is not seen in time is the same).
`Foreign` contracts are those whose layout, EntryPoint or signer the preflight
refuses. `prepared` is the return of `ensurePaymasterSetup`. `Register` and
`UnlockStake` are other people.

## Runs

Each bound is a constant of the cfg; a run covers every behaviour within them.

| run | module | what it asks | bounds, and why they are enough |
|---|---|---|---|
| sponsorships | RelayerService | one live signature per note, on disk, paid once; the deposit covers all; no record lost; implements the ledger | two requests and one earlier signature on two notes, two costs, lifetime 1 in four seconds, one crash: three parties to a note, an expiry before and after every step, a store that mixes known and unknown costs |
| progress | RelayerService | requests end, reservations are resolved | two requests, one crash, one registration move, slow reads, a lagging block; no symmetry, as liveness needs |
| slowread | RelayerService | [findings](#findings) | |
| bundles | PaymasterBundle | only signed withdrawals, balances untouched unless relays nest, success pays | two operations of one or two senders, one faithful and one not, five withdrawals of three notes in two assets and two pools, two keys, one administrative action between bundles: two operations meet in every transient slot, one relay runs inside another, a second bundle follows a reverted first |
| reentered | PaymasterBundle | [findings](#findings) | |
| stakes | RelayerRegistry | lookups, registrations, stakes | three accounts and address(0), the empty name, TORN for two stakes or rewards, two times: a master, its worker and an outsider, or two masters and a worker, in every order, a name that changes hands, a stale and a fresh fee. `ensHash` only ever forbids a registration, and with the empty name it never does: another name adds no behaviour of workers and stakes |
| notes | TornadoPool | roots, history, solvency, the abstract pool | four leaves, four commitments and the zero value, two roots: the tree fills up, every parity of a leaf occurs, the zero value comes at every place or not at all, the ring wraps twice, two notes share a nullifier |
| sync | LeafSync | the cache is the deposits | three runs, three blocks, two deposits, chunks of two, two requests in flight: two runs overlap and a third reads what they leave, two ranges are answered out of order |
| legacy | LeafSync | [findings](#findings) | |
| boot | RelayerBoot | where ether goes, what is served, what `/status` says, that the start completes | three contracts, one of an earlier release, one crash, reverts, an unlocked stake, another master; an ETH and an ERC-20 pool, four environments of which two are refused, two failed reads, refused settings or moved registrations: every step of a start is interrupted once and every second start meets what the first left |
| flow | WithdrawalFlow | what is signed, for whom, why not; the note comes out | three configurations (worker, master with a cost limit, unregistered), two gas prices, two rates and none, three estimates (one the ceilings cover, one they do not, one without the paymaster's fields), six standings of the paymaster (a deposit for any operation, for a small one and unknown; registration, stake and bundler each failing alone), any two changes anywhere: the second quote differs from the first in every figure, or in the relayer only, and each check of sign refuses and passes; ten calls, two of which carry value, in batches of two and seven wire forms for another caller: every clause of the search decides one |
| unlocked | PaymasterSetup | [findings](#findings) | |

Deposit reads that last into the next second (`SlowDepositReads`) are off in
`sponsorships`, because the budget fails with them (`slowread`); they are on in
`progress`, and of the theorems only `EveryLiveSignatureCovered` excludes them. `bundles` checks
`SuccessNeverLoses` for operations of faithful accounts: an account of another
make can validate and then withdraw nothing, and the relayer's protection is the
delegation check at validation, which the mutant of that property removes.
`boot` deploys with a router, so the registry mode `no-router` is in the model but is
not reached. `flow` uses small gas numbers; a limit of exactly 2^128 (4096 there)
stands for all that do not pack. `CHECK_DEADLOCK FALSE` appears where the modelled work ends: every operation is
settled, every run over, the tree full, the service serving.

## Fairness

* `RelayerService!FairSpec`: weak fairness of each request's handler. The event loop
  runs a handler whose await has settled, and each await settles: chain and price
  reads have their transport's timeout, `bundlerRequest` its own
  (`AbortSignal.timeout`). Nothing is assumed of time, the chain or restarts.
* `PaymasterSetup!FairSpec`: weak fairness of the service's next step, i.e. the
  operator (or its supervisor) starts a process that is down, and of mining what is
  pending. Registration is not assumed: waiting for it is one of the two ends.
* `RelayerBoot!BootFairSpec`: the same, and strong fairness of transactions that
  succeed: of those sent again and again one does. Failed reads and refused settings
  are bounded by `MaxMoves`: the node comes back and the operator corrects them.
* `WithdrawalFlow!FairSpec`: weak fairness of the client's next round trip (each is
  answered or times out, and the user starts again) and of expiry; strong fairness
  of `Send` while the sponsorship is live and of `Land`: a signature is valid for
  minutes, so of operations signed again and again one is sent in time, and of those
  sent again and again one is included. `NoteWithdrawn` promises nothing while, as
  things stand, the note cannot pay for its operation, or the relayer cannot sponsor it:
  over its cost limit, over what its deposit leaves, not registered, without stake, or
  without a bundler that answers (`Affordable`).

## Proofs

Every safety property the passing runs check is also a theorem: TLC shows it on the
small instance of the run, TLAPS for every value of the constants that the named
assumptions of the modules allow (`ServiceAssumption`, `NoEntryAssumption`,
`UnknownCostAssumption`, `FeeAssumption`, `BundleAssumption`, `RegistryAssumption`,
`RulesAssumption`, `FlowAssumption`, `SetupAssumption`, `BootAssumption`,
`PoolAssumption`, `SyncAssumption`, and a `HashAssumption` in `OperationHash` and in
`TornadoPool`). TLC evaluates each of them in a run. They say of which kind a constant
is and that distinct things are distinct; `TornadoPool!HashAssumption` says what
cryptography gives: no known leaf and no tree hashes to zero or to the zero value. The
provers are Z3, Zenon and LS4 only.

Some theorems assume more, each where the claim fails without it, or is not made:

| theorem | assumes | because |
|---|---|---|
| `OneSignaturePerNote`, `NeverPaysTwice`, `ServiceImplementsLedger` | `ClockLag = 0` | with a lagging block the first is false (see [Findings](#findings)) |
| `EveryLiveSignatureCovered` | that, and `~SlowDepositReads` | the run `slowread` refutes it |
| `LeavesComplete` | no setting with up-to-date nodes has a legacy file | the run `legacy` refutes it; with a lagging node nothing is claimed |
| `RefusalsCaused` | `WordsSuffice`: ceilings, raised estimates and prices are below 2^128 | an operation that does not pack is refused (`HashFails`), and no client can help it |

`ArithmeticTheorems` is what the others rest on: division and products, powers of two
(`PowersOfTwo`), induction over the naturals and over a finite set (`NatSetInduction`,
`FiniteSetInduction`) and sums over finite sets (`SumEmpty` to `SumZero`). The
library's induction theorems take an operator; these take the *set* of what has the
property, and are proved from the well-foundedness of the naturals.
That a recursive function satisfies its equation is proved with them where one is used:
the sums, the tree's paths and layers, the ranges of a sync, the enumeration of events.

`RelayerServiceProofs`: `TypeCorrect`, `InvHolds`, `SignaturesRecorded`,
`RecordsKept`, `OneSignaturePerNote`. That two live
signatures never name one note is not inductive: it says nothing of the entries
that will keep the next request out. `Inv` adds who owns what: an entry in memory
belongs to a request that is being checked, or that ended without giving it back
(pending), or was granted (signed), with
that request's own expiry and cost (`StoreOwned`); an entry on disk belongs to a
granted one (`FileOwned`); and every unexpired grant is on disk, and in memory
while the process runs (`GrantRecorded`). One entry per note then makes two grants
the same request. The proof has a lemma per handler step, `QuietOwners` for those
that leave both stores alone.

`ServiceImplementsLedger`, in the same module: initial states map to initial states;
`Commit` maps to `Grant`, because a pending
entry in memory leaves no room for an unexpired grant, `Land` to `Use`, `Tick` to
`Tick` and everything else, crashes included, to a stutter.

`NeverPaysTwice` needs to know that a note that was spent through the relayer was spent
by the request that landed for it (`SpentRecorded`), and that no live grant, and no
request about to be signed, names such a note (`GrantsUnspent`): the entry of the live
grant has kept every other request out. `EveryLiveSignatureCovered` is the deposit
budget. `BudgetInv` follows the deposit from the node's answer to the check: what the
node saw exceeds what is there by landings that the store still counts
(`DepositAsSeen`), and the deposit covers not only the signatures that are out but the
requests the budget has let through and that still own their note (`Cleared`). Each
step compares two sums, over the sets of requests or over the entries of the store
(`SumInjection`).

`RelayerBootProofs`: about the setup alone `SetupTypes` and `SendsOncePerCrash`, about
whole starts `BootSendsOncePerCrash`, `BootFundsOnlyCompatible`,
`BootFundsOnlyRemembered`, `BootTypes`, `BootReadsPoolsRight`, `StatusAgreesWithSign`.
Whatever the rest of a start does to the setup's variables is one of four moves
(`SetupMoves`), so the setup's invariant carries over. `SetupInv` says that the contract
worked on is, past the preflight, compatible and the one the next start takes, and that
a start has at most the one transaction under way it waits for; this gives the two
funding properties. `SpendingInv` adds that earlier starts left at most one payment
each under way (`OldInv`), and that what this start read of a balance is right but for
those (`ReadInv`), so what it sends fills up to the configured amount and no further.
`CreateInv` says what `create` has read of the pools and the registry.

`TornadoPoolProofs`: `RootIsThatOfLeaves`, `RecentRootsOnly`, `PoolIsSolvent`,
`PoolTypes`, `PoolImplementsNotes`. `TreeInv` says what `filledSubtrees` remembers: at each height, the
last full left node below the next leaf, in the tree of the leaves so far
(`Remembered`). With it the path that `_insert` walks computes, level by level, the
nodes of the whole tree with the new leaf (`PathIsTree`), and leaves what the next
insertion needs (`FillRemembers`). `RingInv` says which root each slot of the ring
holds, by its age. Two trees of one sequence of deposits have one root only if all that
the later one adds are zero values (`SameRoot`), and then they do (`ZeroLeafSameRoot`);
a commitment is deposited once, so this happens at most once, to two roots that follow
each other (`RootsOfTrees`). `WrittenAt` says when a root was last written, and it is
known exactly if that is less than the ring's length ago. `NotesInv` counts: one
commitment per leaf, no two alike, and one denomination for each that is not spent. In
the refinement `deposit` maps to `Deposit` and `withdraw`,
whichever root its proof is for, to `Withdraw`; the abstract guard that the money is
there, which the code does not check, follows from `NotesInv` (`UnspentIsHeld`).

`LeafSyncProofs`: `SyncInvariant`, `SyncTypes`, `LeavesInOrder`, `LeavesComplete`.
`SyncInv` says of every cache, in a run or in the file, that its leaves are the first
deposits, and with up-to-date nodes all up to its block, with their blocks
(`Good`); and of a run that is fetching that what it has and what is still to be asked
for is what its cache lacks (`FetchInv`). The gap check is what keeps the order when a
node leaves something out. The overlapping runs do not disturb each other because
a cache that is good stays good when the chain grows (`ChainGrows`).

`PaymasterBundleProofs`: first `FeeCoversCharge`: the relayer rounds the least fee up,
the paymaster rounds what it keeps down, twice; the proof goes through the
monotonicity of the margin and of integer division. Then `TypeCorrect`,
`BalancesUntouched`, `RelayedWasApproved`,
`SuccessPaysForItself`. The invariants are layered. `Backed` says of a state within a
bundle that what the paymaster holds is what it held when the bundle began and all that
the senders together are owed out of transient storage (`Owed`, a sum over the senders);
of tokens always, of ETH unless relays are nested. `FrameInv` says it of the present and
of the save points, `RelaysInv` that a relay which can contain no other measures its
difference from the very balances it began with; so what a relay adds to the sums it has
brought in, and a settlement takes no more than one sender is owed
(`BalancesUntouched`, which proves `HeldUnlessNested`).
`SignedInv` adds that the queue holds signed operations of delegated senders and
that every open allowance, in the present and in both save points, stems from an
included operation of that sender. `PaidInv` is about accounts of the approved make:
what one received it received in the frame of its own operation (`SlotInv`), it relays
the withdrawal of that operation, once (`CallersInv`), whoever else relays around it, and
by postOp the fee is in its slot or with the master EOA (`FeeInv`). With `SignableInv`
(the signed fee is at least the minimum) and `FeeCoversCharge` a success pays for itself.

`RelayerRegistryProofs`: `TypeCorrect`, `LookupsResolve`, `RegistrationsLast`,
`StakesBurnOnlyForOwner`, `StakesAddUp`. `WorkersResolve`, which says that masters are
the addresses that have registered, under whatever name, is inductive with the types.
`StakeInv` adds that an address that is no master has no stake: `register` assigns the
balance instead of adding to it, and would burn whatever was there. `StakesAddUp` sums
the balances of all accounts; a step changes one of them, by what it moves.

`WithdrawalFlowProofs`: the hashes first. `HalvesBound`, `HashAgrees`, `HashBinds`:
packing is injective
because a higher half outweighs every lower one; the two spellings of a marker give
one hash because both are replaced by the delegate; equal hashes then have equal
calls, limits, prices and terms.
`SearchIsSound` is about the operators of `OperationRules`
alone: the search looks at every call that is called like a withdrawal, the reference
at every call that takes a note from a served pool, and the second set is within the
first because the paymaster is no pool. `FlowTypes`, `TailCallsCovered`,
`OthersPayOnce`, `SignaturesHold` and `ApprovedCodeOnly` follow from `FlowInvariant`.
Its `QuoteInv` says that while the client works its quote is made of numbers below the
denomination and its proof names that quote's fee, which is why the sum of fee and tail
call survives the re-quote; `HeldInv` and `OtherInv` say that what is signed was
hashed, packs, is bound to an allowed implementation, and was found by the search.
`RefusalsCaused` goes through `CauseInv`: the client's quote is what the configuration it
was made under asks for at the quoted rate, its proof binds the sender, the root and
that fee, and its limits are the ceilings or those raised from one estimate. Each reason
of `sign` is then refuted unless its cause holds: the fee because `minimumFee` grows with
the rate (`MinimumMonotone`), the gas because raising an estimate leaves room for it
(`RaisedCovers`), a missing price because none is remembered (`PriceInv`). The cost
limit, the deposit, the registration, the dry run and the bundler refuse only what the
configuration and the paymaster's standing refuse, whatever the client does.

Only model-checked: the liveness properties (`EveryRequestEnds`,
`EveryReservationResolved`, `BootCompletes`, `NoteWithdrawn`), which this prover does not
do.

## Findings

* `slowread` — `assertDepositCovers` awaits the deposit (`relayer/src/service.ts:966`) and
  sums the outstanding sponsorships afterwards. If meanwhile an operation lands,
  and its entry expires and is pruned by another handler, the old deposit is
  compared with a sum that no longer has the entry, and one signature too many is
  issued. Summing before the read (or not pruning until the check) would close it.
* `legacy` — `client/src/merkle.ts:102` gives every leaf of a cache without `leafBlocks`
  the block of the whole cache. A later rewind to an earlier block drops them all
  and returns a short list without an error; a cache that was never extended is
  refused (line 75).
* `unlocked` — `relayer/src/setup.ts:110-111`: a stake that was unlocked and is larger
  than configured makes the missing stake negative; the amount cannot be encoded,
  and no start of the service gets past it.
* `reentered` — `_relayWithdraw` counts as fee what the paymaster's balance grew by during
  the call (`contracts/src/TornadoRelayerPaymasterCore.sol:297`), and a pool of ether
  calls the recipient in between. A recipient that has two approved withdrawals from two
  pools and relays the second while it is paid for the first has the second fee counted
  by both. postOp then moves as much older ETH from the paymaster into its deposit at the
  EntryPoint, against the comment above that line; it stays the relayer's
  own, and the refund is still no more than the fee leaves. Accounts of the implementation the
  relayer approves by default call nobody when paid. A re-entrance guard, or counting the
  fee the proof names, would close it. `bundles` and `BalancesUntouched` show what holds
  as it is (`HeldUnlessNested`).

Not a violated claim, but worth knowing: setup writes its state file after the
receipts of the deployment and of `setRouter`. A process that dies in between
deploys a second contract on its next start (`boot` has such behaviours; nothing is
funded before it is remembered, `FundedOnlyRemembered`). And the receipt of
`setRouter` is not looked at, so a reverted one leaves a contract that every start
refuses until someone sets its router or deletes the file (`FundedOnlyCompatible` holds).

More of this kind, and one divergence that no run shows, from reading and modelling:

* `prune` (`relayer/src/service.ts:287`) uses the relayer's clock, the EntryPoint
  `block.timestamp`. With a block that is a second behind (`ClockLag = 1`, under which
  TLC refutes `OneLiveSignaturePerNote`), a note is signed again while its first
  signature is still accepted; `relayer/src/store.ts:19-20` says that it is not. The pool
  pays the note once all the same; the second operation costs the paymaster its gas.
* `relayer/src/service.ts:793` hashes between two `try` blocks. An operation that passes
  every check and cannot be hashed (a limit of more than 128 bits) leaves its
  reservation in the store until it is pruned after `validUntil`; the comment of
  step 3 says it is released if a later check fails. `EveryReservationResolved` excepts
  exactly these requests (`HashFails`).
* `client/src/flow.ts:230` proves again if the fee changed, not if the relayer's reward
  account did. A relayer that is restarted between the two quotes with the same fee
  refuses the proof; the next attempt succeeds (`RefusalsHaveCause`, `rules`).
* `client/src/flow.ts:205` asks only whether the account has code. One that another wallet
  has delegated gets no new authorization, and is refused at every attempt
  (`NoteWithdrawn` leaves it out).
* `assertBundlerSimulates` (`relayer/src/service.ts:1054`) normalises an `initCode` with a
  padded marker by cutting off the short one, so 18 zero bytes become its factory
  data: the operation simulated is not the one signed. An operation that names both
  `initCode` and `factory` is hashed by the first. The models have forms that name one.
* `/status` reports `registered` as true in mode `unregistered`, where sign does not look
  at the registry (`relayer/src/service.ts:886-889`); `StatusTellsRefusals` is about
  what sign does, and holds.
* `server.ts` reads its settings after the setup, which may have spent ether by then.

## What is not modelled

* Instance registry and the router's `deposit`, allowances and `rescueTokens`: governance
  alone calls them, one at a time; which pools are enabled is a constant. Planned.
* The paymaster's stake management, `adminCall`, `registerAsRelayer`, gas parameters
  and ownership. Planned. `simulateRelayWithdraw` always reverts: nothing to model.
* The dispatch of JSON-RPC methods in `server.ts`. The bytes of `paymasterData` and of
  replies, the parsing of requests, numbers and addresses, the client's transport that widens hex, the HTTP of the price source.
* `TornadoRelayerPaymaster7702`: refused by `setup.ts`; it shares the core.
* Zap, TORN token, ENS beyond ownership, prover, note format, scripts, and the
  Kohaku integration: examples, standard code, cryptography, patches.
* Ether that others send to the paymaster during a relay, and the EntryPoint's own look at
  the deposit in `WithdrawalFlow` (it is in `PaymasterBundle`).
* Chain reorganisations, power loss without fsync, two service processes on one file.

## Plan

Done, in this order: store and service, their proofs and refinement; fees and the
paymaster in a bundle; registry; pool; leaf sync; setup; operation rules; the whole
start; the withdrawal flow; operation hashing; then the proofs of every safety property.

Next modules:

1. `InstanceRegistry`: the enabled list with its swap-with-last removal, and the
   router's allowances; invariant: the list and the flags agree, each pool once.
2. `PaymasterAdmin`, and a composition of registry and service in which the
   registration and the stake change between signing and inclusion.

Next proofs: that a list `LeafSync` accepts gives a root that
`TornadoPool` knows, as one theorem over both; an abstract paymaster that
`PaymasterBundle` implements.
