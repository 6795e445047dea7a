--------------------------- MODULE RelayerService ---------------------------
(***************************************************************************)
(* The sponsorship path of the relayer service: pm_getPaymasterData        *)
(* (service.ts sign), one process of asynchronous request handlers over    *)
(* one store, one file and one EntryPoint deposit.                         *)
(*                                                                         *)
(* JavaScript runs a handler without interruption from one await to the    *)
(* next, so an action is what a handler does between two awaits; the       *)
(* handlers of different requests (and of /status) interleave at the       *)
(* awaits.  pc[r] names the await the handler of request r is parked at.   *)
(* The process may crash at any await and start again from the file.       *)
(*                                                                         *)
(* The chain is the environment: sponsored operations land (and are        *)
(* charged) or never do, the deposit is topped up, the registration moves, *)
(* notes are spent by others, time passes.                                 *)
(***************************************************************************)
EXTENDS SponsorshipStore

CONSTANTS
    Requests,               \* pm_getPaymasterData calls; a request is its own token
    LegacyRequests,         \* signed by a release that recorded no gas cost
    GasCosts,               \* totalGas(gas) * maxFeePerGas of an operation
    SignatureTtlSec,
    MinDepositWei,          \* the reserve the deposit must keep
    MaxSponsorshipGasWei,   \* the cap on one operation
    ClockLag,               \* seconds a block's timestamp may trail the relayer's clock
    SlowDepositReads,       \* may a deposit read take until the next second?
    None,                   \* "no note", "not spent"
    Elsewhere,              \* spent by an operation this relayer did not sponsor
    MaxTime, MaxDeposit, MaxCrashes, MaxMoves   \* bounds of the instance checked

ASSUME ServiceAssumption ==
    /\ Tokens = Requests
    /\ LegacyRequests \subseteq Requests /\ IsFiniteSet(LegacyRequests)
    /\ GasCosts \subseteq Nat \ {0}
    /\ SignatureTtlSec \in Nat
    /\ MinDepositWei \in Int
    /\ ClockLag \in Nat
    /\ SlowDepositReads \in BOOLEAN
    /\ None \notin Notes \cup Requests \cup {Elsewhere}
    /\ Elsewhere \notin Requests

VARIABLES
    now,          \* the relayer's clock, in seconds
    up,           \* is the process running?
    store,        \* the store in memory
    file,         \* the store on disk
    pc,           \* where the handler of a request is
    note,         \* the note the request withdraws
    cost,         \* the most its operation can be charged
    since,        \* `now` as captured when the note was reserved
    seen,         \* the deposit the node answered with
    deposit,      \* the paymaster's EntryPoint deposit
    outcome,      \* of the request's operation on chain
    spentBy,      \* who spent a note in the pool
    registered,   \* does the registry resolve the paymaster to rewardAccount?
    crashes, moves

local == <<pc, note, cost, since, seen>>
chain == <<deposit, outcome, spentBy, registered, moves>>
process == <<up, crashes>>
vars == <<now, process, store, file, local, chain>>

Checking == {"delegation", "deposit", "budget", "registry", "withdraw",
             "bundler", "signing"}
Running == Checking \cup {"pricing", "replying"}
\* The store has recorded the signature: it exists, whether or not it got out.
Granted == {"replying", "issued", "lost"}
Ended == {"issued", "refused", "died", "lost", "failed"}

validUntil(r) == since[r] + SignatureTtlSec

\* A signature is out, and a block the EntryPoint would accept it in can still come.
Live(r) == pc[r] = "issued" /\ validUntil(r) + ClockLag >= now /\ outcome[r] = "none"

TypeOK ==
    /\ now \in Nat /\ deposit \in Nat /\ crashes \in Nat /\ moves \in Nat
    /\ up \in BOOLEAN /\ registered \in BOOLEAN
    /\ store \in Stores /\ file \in Files
    /\ pc \in [Requests -> Running \cup Ended \cup {"new"}]
    /\ note \in [Requests -> Notes \cup {None}]
    /\ cost \in [Requests -> Nat]
    /\ since \in [Requests -> Nat]
    /\ seen \in [Requests -> Nat]
    /\ outcome \in [Requests -> {"none", "withdrawn", "noteSpent", "notRegistered"}]
    /\ spentBy \in [Notes -> Requests \cup {None, Elsewhere}]

-----------------------------------------------------------------------------
(* The process is down; the file holds what an earlier release signed, one  *)
(* live sponsorship per note, its cost unrecorded.                          *)

LegacyEntry(r) == [validUntil |-> SignatureTtlSec, status |-> "signed",
                   token |-> r, maxGasCostWei |-> UnknownCost]

Init ==
    /\ now = 0 /\ up = FALSE /\ crashes = 0 /\ moves = 0
    /\ store = EmptyStore
    /\ pc = [r \in Requests |-> IF r \in LegacyRequests THEN "issued" ELSE "new"]
    /\ note \in {f \in [Requests -> Notes \cup {None}] :
                   /\ \A r \in Requests : f[r] = None <=> r \notin LegacyRequests
                   /\ \A r, s \in LegacyRequests : f[r] = f[s] => r = s}
    /\ cost \in {f \in [Requests -> GasCosts \cup {0}] :
                   \A r \in Requests : f[r] = 0 <=> r \notin LegacyRequests}
    /\ file \in {f \in [Notes -> {LegacyEntry(r) : r \in LegacyRequests} \cup {NoEntry}] :
                   /\ \A r \in LegacyRequests : f[note[r]] = LegacyEntry(r)
                   /\ \A n \in Notes : f[n] # NoEntry => note[f[n].token] = n}
    /\ since = [r \in Requests |-> 0]
    /\ seen = [r \in Requests |-> 0]
    /\ deposit \in 0 .. MaxDeposit
    /\ outcome = [r \in Requests |-> "none"]
    /\ spentBy = [n \in Notes |-> None]
    /\ registered = TRUE

Goto(r, from, to) == pc[r] = from /\ pc' = [pc EXCEPT ![r] = to]

-----------------------------------------------------------------------------
(* The handler of one request.                                              *)

\* Steps 1 and 2 up to the await of the price.
Arrive(r, n, c) ==
    /\ up
    /\ Goto(r, "new", "pricing")
    /\ note' = [note EXCEPT ![r] = n]
    /\ cost' = [cost EXCEPT ![r] = c]
    /\ UNCHANGED <<now, process, store, file, since, seen, chain>>

\* No price, or a fee below the minimum.
RefuseFee(r) ==
    /\ Goto(r, "pricing", "refused")
    /\ UNCHANGED <<now, process, store, file, note, cost, since, seen, chain>>

\* A reservation taken without the prune and check that precede it.
ReserveNoteUnchecked(r) ==
    /\ Goto(r, "pricing", "delegation")
    /\ since' = [since EXCEPT ![r] = now]
    /\ store' = ReserveEntry(Prune(store, now), note[r], now + SignatureTtlSec, cost[r], r)
    /\ UNCHANGED <<now, process, file, note, cost, seen, chain>>

\* Step 3: prune, check and reserve with no await between them.
ReserveNote(r) ==
    /\ Goto(r, "pricing", "delegation")
    /\ ~Held(Prune(store, now), note[r])
    /\ since' = [since EXCEPT ![r] = now]
    /\ store' = ReserveEntry(Prune(store, now), note[r], now + SignatureTtlSec, cost[r], r)
    /\ UNCHANGED <<now, process, file, note, cost, seen, chain>>

RefuseHeldNote(r) ==
    /\ Goto(r, "pricing", "refused")
    /\ Held(Prune(store, now), note[r])
    /\ store' = Prune(store, now)
    /\ UNCHANGED <<now, process, file, note, cost, since, seen, chain>>

\* Every way out of steps 4 to 10 before the record is written gives the note back.
Refuse(r) ==
    /\ pc' = [pc EXCEPT ![r] = "refused"]
    /\ store' = ReleaseEntry(store, note[r], r)
    /\ seen' = [seen EXCEPT ![r] = 0]
    /\ UNCHANGED <<now, process, file, note, cost, since, chain>>

\* A bundler request without a timeout.
CheckFailsUnlessHung(r) == pc[r] \in Checking \ {"budget", "bundler"} /\ Refuse(r)

\* A read fails or times out, a simulation reverts, the signer or the disk fails.
CheckFails(r) == pc[r] \in Checking \ {"budget"} /\ Refuse(r)

\* Step 4, and the cap that step 5 opens with.
ResolveSenderImplementation(r) ==
    /\ Goto(r, "delegation", "deposit")
    /\ cost[r] <= MaxSponsorshipGasWei
    /\ UNCHANGED <<now, process, store, file, note, cost, since, seen, chain>>

\* Step 5: the node evaluates getDeposit; the answer is used in a later step.
ReadDeposit(r) ==
    /\ Goto(r, "deposit", "budget")
    /\ seen' = [seen EXCEPT ![r] = deposit]
    /\ UNCHANGED <<now, process, store, file, note, cost, since, chain>>

\* A budget that looks at this operation alone.
CoversThisOnly(r) == seen[r] >= cost[r] + MinDepositWei

DepositCovers(r) ==
    /\ CostsKnown(store, since[r])
    /\ seen[r] >= CommittedGasCost(store, since[r]) + MinDepositWei

AssertDepositCovers(r) ==
    /\ Goto(r, "budget", "registry")
    /\ DepositCovers(r)
    /\ seen' = [seen EXCEPT ![r] = 0]
    /\ UNCHANGED <<now, process, store, file, note, cost, since, chain>>

RefuseBudget(r) ==
    /\ pc[r] = "budget"
    /\ ~DepositCovers(r)
    /\ Refuse(r)

\* Step 6.
AssertRegistrationCurrent(r) ==
    /\ Goto(r, "registry", "withdraw")
    /\ registered
    /\ UNCHANGED <<now, process, store, file, note, cost, since, seen, chain>>

\* The simulations not looking at the chain as it is now.
WithdrawAlwaysSucceeds(r) == TRUE

\* What a dry run of the withdrawal answers: the burn and the pool both pass.
WithdrawWouldSucceed(r) == registered /\ spentBy[note[r]] = None

\* Steps 7 and 8: the relay alone, then the whole operation on the bundler.
AssertWithdrawSimulates(r) ==
    /\ Goto(r, "withdraw", "bundler")
    /\ WithdrawWouldSucceed(r)
    /\ UNCHANGED <<now, process, store, file, note, cost, since, seen, chain>>

AssertBundlerSimulates(r) ==
    /\ Goto(r, "bundler", "signing")
    /\ WithdrawWouldSucceed(r)
    /\ UNCHANGED <<now, process, store, file, note, cost, since, seen, chain>>

\* Step 9 before the signer is asked: paymasterHash throws on a quantity of more than 128
\* bits, outside the try that gives the note back.
HashFails(r) ==
    /\ Goto(r, "bundler", "failed")
    /\ WithdrawWouldSucceed(r)
    /\ UNCHANGED <<now, process, store, file, note, cost, since, seen, chain>>

\* A commit that marks the entry signed and leaves the file for later.
CommitInMemory(r) ==
    /\ Goto(r, "signing", "replying")
    /\ HeldBy(store, note[r], r)
    /\ store' = CommitEntry(store, note[r])
    /\ UNCHANGED <<now, process, file, note, cost, since, seen, chain>>

\* Steps 9 and 10: the signer has answered; record, first on disk, then in memory.
Commit(r) ==
    /\ Goto(r, "signing", "replying")
    /\ HeldBy(store, note[r], r)
    /\ file' = PersistSigned(store, note[r])
    /\ store' = CommitEntry(store, note[r])
    /\ UNCHANGED <<now, process, note, cost, since, seen, chain>>

\* The response, and the signature in it, leaves the process.
Reply(r) ==
    /\ Goto(r, "replying", "issued")
    /\ UNCHANGED <<now, process, store, file, note, cost, since, seen, chain>>

Handle(r) ==
    \/ RefuseFee(r)
    \/ ReserveNote(r) \/ RefuseHeldNote(r)
    \/ CheckFails(r)
    \/ ResolveSenderImplementation(r)
    \/ ReadDeposit(r) \/ AssertDepositCovers(r) \/ RefuseBudget(r)
    \/ AssertRegistrationCurrent(r)
    \/ AssertWithdrawSimulates(r) \/ AssertBundlerSimulates(r) \/ HashFails(r)
    \/ Commit(r)
    \/ Reply(r)

-----------------------------------------------------------------------------
(* The rest of the process.                                                 *)

\* GET /status and tornado_status prune on the way.
Status ==
    /\ up
    /\ store' = Prune(store, now)
    /\ UNCHANGED <<now, process, file, local, chain>>

\* The handlers die with the process; what they had recorded stays on disk.
Crash ==
    /\ up /\ crashes < MaxCrashes
    /\ up' = FALSE
    /\ crashes' = crashes + 1
    /\ store' = EmptyStore
    /\ pc' = [r \in Requests |-> CASE pc[r] \in Running \ Granted -> "died"
                                   [] pc[r] = "replying" -> "lost"
                                   [] OTHER -> pc[r]]
    /\ seen' = [r \in Requests |-> 0]
    /\ UNCHANGED <<now, file, note, cost, since, chain>>

\* The file store's constructor loads the file and writes it back at once.
Start ==
    /\ ~up
    /\ up' = TRUE
    /\ store' = Load(file, now)
    /\ file' = Load(file, now)
    /\ UNCHANGED <<now, crashes, local, chain>>

-----------------------------------------------------------------------------
(* The environment.                                                         *)

Tick ==
    /\ now < MaxTime
    /\ SlowDepositReads \/ \A r \in Requests : pc[r] # "budget"
    /\ now' = now + 1
    /\ UNCHANGED <<process, store, file, local, chain>>

\* A bundle includes the operation.  The EntryPoint takes the whole prefund
\* first, and keeps the actual cost whether or not the withdrawal reverts.
Land(r, charge) ==
    /\ Live(r)
    /\ charge <= cost[r] /\ cost[r] <= deposit
    /\ deposit' = deposit - charge
    /\ outcome' = [outcome EXCEPT ![r] =
                     IF ~registered THEN "notRegistered"
                     ELSE IF spentBy[note[r]] # None THEN "noteSpent"
                     ELSE "withdrawn"]
    /\ spentBy' = IF outcome'[r] = "withdrawn"
                  THEN [spentBy EXCEPT ![note[r]] = r] ELSE spentBy
    /\ UNCHANGED <<now, process, store, file, local, registered, moves>>

\* The owner tops the deposit up (withdrawTo while serving is not modelled).
TopUp(amount) ==
    /\ deposit + amount <= MaxDeposit
    /\ deposit' = deposit + amount
    /\ UNCHANGED <<now, process, store, file, local, outcome, spentBy, registered, moves>>

\* The note's owner withdraws through another relayer.
SpendElsewhere(n) ==
    /\ spentBy[n] = None
    /\ spentBy' = [spentBy EXCEPT ![n] = Elsewhere]
    /\ UNCHANGED <<now, process, store, file, local, deposit, outcome, registered, moves>>

\* The master unregisters the paymaster, or takes it back.
MoveRegistration ==
    /\ moves < MaxMoves
    /\ moves' = moves + 1
    /\ registered' = ~registered
    /\ UNCHANGED <<now, process, store, file, local, deposit, outcome, spentBy>>

-----------------------------------------------------------------------------

Next ==
    \/ \E r \in Requests, n \in Notes, c \in GasCosts : Arrive(r, n, c)
    \/ \E r \in Requests : Handle(r)
    \/ Status
    \/ Crash
    \/ Start
    \/ Tick
    \/ \E r \in Requests, c \in GasCosts : Land(r, c)
    \/ \E c \in GasCosts : TopUp(c)
    \/ \E n \in Notes : SpendElsewhere(n)
    \/ MoveRegistration

Spec == Init /\ [][Next]_vars

(* The event loop runs every handler whose await has settled, and every     *)
(* await settles: the chain reads and the price have their transports'      *)
(* timeouts, the bundler its own.  Nothing is assumed of the environment.   *)
FairSpec == Spec /\ \A r \in Requests : WF_vars(Handle(r))

-----------------------------------------------------------------------------
(* What the service promises.                                               *)

\* "One signature per note at a time" (service.ts SponsorshipStore): of two
\* signatures that left the relayer for one note, the first has expired -
\* whatever the interleaving of the requests, crashes and restarts included.
OneLiveSignaturePerNote ==
    \A r, s \in Requests :
        /\ pc[r] = "issued" /\ validUntil(r) + ClockLag >= now
        /\ pc[s] = "issued" /\ validUntil(s) + ClockLag >= now
        /\ note[r] = note[s]
        => r = s

\* "Record before issuing" (service.ts sign, step 10): a signature that is out
\* and unexpired is on disk under its own token, whatever was written since.
LiveSignatureOnDisk ==
    \A r \in Requests :
        pc[r] = "issued" /\ validUntil(r) >= now => HeldBy(file, note[r], r)

\* Signatures the paymaster may still have to pay for.
Owed == {r \in Requests : /\ pc[r] \in {"replying", "issued"}
                          /\ validUntil(r) + ClockLag >= now
                          /\ outcome[r] = "none"}

\* The deposit budget (service.ts assertDepositCovers): while a signature of
\* this release is live, the deposit covers every live signature, those of the
\* earlier release included, and still keeps its reserve.
LiveSignaturesCovered ==
    Owed \ LegacyRequests # {} =>
        deposit >= MinDepositWei + SumFunctionOnSet(cost, Owed)

\* The paymaster never pays for an operation whose note a sponsored operation
\* had already spent: a live entry keeps a second request out, and once the
\* first operation has landed the simulation refuses.
NeverPaysTwiceForNote ==
    \A r \in Requests : outcome[r] = "noteSpent" => spentBy[note[r]] = Elsewhere

\* The durable record of a signature is neither dropped nor overwritten while
\* the signature is valid: not by another request's write, which rewrites the
\* whole file from memory, nor by a restart (store.ts persistSigned, constructor).
LiveRecordKept ==
    [][\A n \in Notes : LiveAt(file[n], now') => file'[n] = file[n]]_vars

\* Every request is answered, or dies with the process.
EveryRequestEnds == \A r \in Requests : pc[r] \in Running ~> pc[r] \in Ended

Pending(r) == note[r] # None /\ HeldBy(store, note[r], r) /\ store[note[r]].status = "pending"

\* No reservation outlives its request: it is committed, released, pruned or lost in a
\* crash, and the note does not stay blocked - except after the one exception that no
\* handler of sign catches, when it waits for the next prune after validUntil.
EveryReservationResolved ==
    \A r \in Requests : Pending(r) ~> ~Pending(r) \/ pc[r] = "failed"

-----------------------------------------------------------------------------
(* The service as a ledger of grants: a signature is granted when its record *)
(* is written, and neither a refusal nor a crash ever takes it back.         *)

GrantOf(r) == [note |-> note[r], request |-> r, until |-> validUntil(r)]

Ledger == INSTANCE SponsorshipLedger WITH
    grants <- {GrantOf(r) : r \in {q \in Requests : pc[q] \in Granted}},
    used <- {r \in Requests : outcome[r] # "none"}

\* The service implements the ledger: every step grants a note whose last grant
\* has expired, uses a live grant once, lets time pass, or changes nothing there.
ImplementsLedger == Ledger!Spec

=============================================================================
