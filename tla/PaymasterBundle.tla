--------------------------- MODULE PaymasterBundle ---------------------------
(***************************************************************************)
(* TornadoRelayerPaymasterCore.sol inside EntryPoint.handleOps: a bundle   *)
(* is one transaction that first validates every operation (the paymaster  *)
(* grants each its withdrawal, in transient storage) and then, one after   *)
(* the other, executes each and calls postOp.  Any validation failure      *)
(* reverts the bundle; a failing postOp reverts its own operation's        *)
(* execution with it.  Transient storage lasts until the transaction ends, *)
(* so operations of one bundle, and of one sender, can meet in it.         *)
(*                                                                         *)
(* `world` is the state a revert restores.  The EntryPoint (v0.8: one      *)
(* handleOps per transaction, called by an account without code), the      *)
(* pools and the accounts are external.  A pool of ether pays the recipient *)
(* by calling it, before it pays the relayer, so a relay is two steps and   *)
(* an account that executes what it likes may relay again between them.     *)
(* Between bundles the owner acts and accounts change their EIP-7702        *)
(* delegation.                                                              *)
(***************************************************************************)
EXTENDS FeeMath, Sequences, FiniteSets

CONSTANTS
    Ops,               \* user operations that carry this paymaster's data
    Senders,           \* their sender accounts
    Notes,
    poolOf,            \* the pool each note is in; withdraw is not reentrant, pool by pool
    Withdrawals,       \* what withdrawalHash tells apart; toPaymaster: the proof names the
                       \* paymaster as relayer (master mode), not the master EOA
    Eth, Token,        \* fee assets
    Keys,              \* values of verifyingSigner
    NoKey,             \* a signature by none of them
    TokenRate,         \* tokenPerEth the relayer signs for a token instance
    FaithfulSenders,   \* whose approved implementation executes callData as written
    Prefunds, ServiceFees, FeePerGas,   \* what an instance enumerates
    MaxFunds, MaxAdmin                  \* bounds of the instance checked

Assets == {Eth, Token}

ASSUME BundleAssumption ==
    /\ Withdrawals \subseteq [note : Notes, recipient : Senders, asset : Assets, fee : Nat,
                           toPaymaster : BOOLEAN]
    /\ Eth # Token
    /\ IsFiniteSet(Senders)
    /\ NoKey \notin Keys
    /\ TokenRate \in Nat \ {0}
    /\ FaithfulSenders \subseteq Senders
    /\ Prefunds \subseteq Nat \ {0} /\ ServiceFees \subseteq Nat
    /\ FeePerGas \in Nat \ {0} /\ MaxFunds \in Nat

VARIABLES
    terms,            \* the terms each operation carries
    signed,           \* the key that signed them, or NoKey
    delegated,        \* senders delegated to the implementation the terms name
    verifyingSigner,
    held,             \* the paymaster's own balances
    master,           \* what the master EOA was paid
    deposit,          \* the paymaster's, at the EntryPoint
    spent,            \* nullifiers, in the pools
    relayed,          \* Relayed events
    allowance,        \* transient: sponsorships open for (sender, withdrawal)
    received,         \* transient: what relayWithdraw collected for a sender
    nested,           \* history: a relay of this transaction was entered inside another
    bundleStart,      \* world when the bundle's transaction began
    frameStart,       \* world when the current operation's execution began
    queue,            \* operations validated and not yet settled
    phase,
    open,             \* the relays whose recipient is being paid, the innermost first
    called,           \* withdrawals relayed in the current execution
    executed,         \* did the execution that just ran succeed?
    result,           \* what became of each operation
    admin             \* number of administrative actions taken

fixed == <<terms, signed>>
config == <<delegated, verifyingSigner, admin>>
chain == <<held, master, deposit, spent, relayed, allowance, received, nested>>
frame == <<frameStart, open, called, executed>>
vars == <<fixed, config, chain, bundleStart, frame, queue, phase, result>>

\* The state a revert restores.
world == [held |-> held, master |-> master, deposit |-> deposit, spent |-> spent,
          relayed |-> relayed, allowance |-> allowance, received |-> received,
          nested |-> nested]

Restore(w) ==
    /\ held' = w.held /\ master' = w.master /\ deposit' = w.deposit
    /\ spent' = w.spent /\ relayed' = w.relayed
    /\ allowance' = w.allowance /\ received' = w.received /\ nested' = w.nested

\* fee and feeToken are those of the withdrawal: the relayer takes them from it.
Terms == [sender : Senders, withdrawal : Withdrawals, serviceFee : Nat, prefund : Nat]

Balances == [Assets -> Nat]

Worlds == [held : Balances, master : Balances, deposit : Nat,
           spent : SUBSET Notes, relayed : SUBSET Withdrawals,
           allowance : [Senders -> [Withdrawals -> Nat]],
           received : [Senders -> Balances],
           nested : BOOLEAN]

\* A call of relayWithdraw under way: `before` is what it measured first.
Relays == [withdrawal : Withdrawals, before : Balances]

TypeOK ==
    /\ terms \in [Ops -> Terms]
    /\ signed \in [Ops -> Keys \cup {NoKey}]
    /\ delegated \in SUBSET Senders
    /\ verifyingSigner \in Keys
    /\ world \in Worlds /\ bundleStart \in Worlds /\ frameStart \in Worlds
    /\ queue \in Seq(Ops)
    /\ phase \in {"idle", "validating", "executing", "running", "settling"}
    /\ open \in Seq(Relays) /\ called \in SUBSET Withdrawals
    /\ executed \in BOOLEAN
    /\ result \in [Ops -> {"pending", "validated", "succeeded", "reverted"}]
    /\ admin \in Nat

tokenPerEth(asset) == IF asset = Eth THEN 0 ELSE TokenRate

NoAllowance == [s \in Senders |-> [x \in Withdrawals |-> 0]]
NothingReceived == [s \in Senders |-> [a \in Assets |-> 0]]

-----------------------------------------------------------------------------
(* The relayer signs only terms that pass its rules: the recipient is the   *)
(* sender and the fee covers the worst case (RelayerService.sign, 1 and 2). *)
(* Terms nobody signed are any terms.                                       *)

Signable(t) ==
    /\ t.withdrawal.recipient = t.sender
    /\ t.withdrawal.fee >= minimumFee(t.prefund, t.serviceFee, tokenPerEth(t.withdrawal.asset))

Init ==
    /\ terms \in [Ops -> [sender : Senders, withdrawal : Withdrawals,
                          serviceFee : ServiceFees, prefund : Prefunds]]
    /\ signed \in [Ops -> Keys \cup {NoKey}]
    /\ \A o \in Ops : signed[o] # NoKey => Signable(terms[o])
    /\ delegated = Senders
    /\ verifyingSigner \in Keys
    /\ held = [a \in Assets |-> MaxFunds] /\ master = [a \in Assets |-> 0]
    /\ deposit = MaxFunds
    /\ spent = {} /\ relayed = {}
    /\ allowance = NoAllowance /\ received = NothingReceived /\ nested = FALSE
    /\ bundleStart = world /\ frameStart = world
    /\ queue = <<>>
    /\ phase = "idle"
    /\ open = <<>> /\ called = {} /\ executed = FALSE
    /\ result = [o \in Ops |-> "pending"]
    /\ admin = 0

-----------------------------------------------------------------------------
(* Validation.                                                              *)

\* A validation that leaves out the delegation check.
AcceptedUndelegated(o) == signed[o] = verifyingSigner

\* validatePaymasterUserOp does not revert and its signature is the signer's.
Accepted(o) ==
    /\ terms[o].sender \in delegated
    /\ signed[o] = verifyingSigner

GrantSponsorship(s, x) == allowance' = [allowance EXCEPT ![s][x] = @ + 1]

BeginBundle ==
    /\ phase = "idle"
    /\ \E o \in Ops : result[o] = "pending"
    /\ phase' = "validating"
    /\ bundleStart' = world
    /\ UNCHANGED <<fixed, config, chain, frame, queue, result>>

\* The EntryPoint takes the prefund, then asks the paymaster.
Validate(o) ==
    /\ phase = "validating" /\ result[o] = "pending"
    /\ terms[o].prefund <= deposit
    /\ Accepted(o)
    /\ deposit' = deposit - terms[o].prefund
    /\ GrantSponsorship(terms[o].sender, terms[o].withdrawal)
    /\ queue' = Append(queue, o)
    /\ result' = [result EXCEPT ![o] = "validated"]
    /\ UNCHANGED <<fixed, config, held, master, spent, relayed, received, nested,
                   bundleStart, frame, phase>>

\* AA31 (deposit too low), AA33 (the paymaster reverted) or AA34 (bad signature).
RevertBundle(o) ==
    /\ phase = "validating" /\ result[o] = "pending"
    /\ terms[o].prefund > deposit \/ ~Accepted(o)
    /\ Restore(bundleStart)
    /\ result' = [p \in Ops |-> IF result[p] = "validated" THEN "pending" ELSE result[p]]
    /\ queue' = <<>>
    /\ phase' = "idle"
    /\ UNCHANGED <<fixed, config, bundleStart, frame>>

BeginExecution ==
    /\ phase = "validating" /\ queue # <<>>
    /\ phase' = "executing"
    /\ UNCHANGED <<fixed, config, chain, bundleStart, frame, queue, result>>

-----------------------------------------------------------------------------
(* Execution of the operation at the head of the queue: a frame of its own, *)
(* in which the account calls relayWithdraw and whatever else it likes.     *)

BeginFrame ==
    /\ phase = "executing" /\ queue # <<>>
    /\ frameStart' = world
    /\ called' = {}
    /\ phase' = "running"
    /\ UNCHANGED <<fixed, config, chain, bundleStart, open, executed, queue, result>>

\* The relayer has checked that callData holds exactly the signed relayWithdraw, and
\* the approved implementation runs it for the EntryPoint alone; only an account of
\* another make calls anything else, or nothing.
ApprovedSenders == FaithfulSenders \cap delegated
Faithful(o) == terms[o].sender \in ApprovedSenders

\* Who can call: whomever the batch reaches and, while a pool of ether pays a
\* recipient, whomever the recipient's code reaches.  Tokens, and the approved
\* implementation's receive(), call nobody.
MayCall(s) ==
    \/ open = <<>> /\ (s \in ApprovedSenders => s = terms[Head(queue)].sender)
    \/ /\ open # <<>> /\ s \notin ApprovedSenders
       /\ Head(open).withdrawal.asset = Eth
       /\ Head(open).withdrawal.recipient \notin ApprovedSenders

\* _consumeSponsorship without the test of the allowance.
ConsumeUnchecked(s, x) == allowance' = [allowance EXCEPT ![s][x] = @ - 1]

ConsumeSponsorship(s, x) ==
    /\ allowance[s][x] > 0
    /\ allowance' = [allowance EXCEPT ![s][x] = @ - 1]

\* relayWithdraw, up to the payment of the recipient: the caller is the recipient, a
\* grant is open, the balances are measured, and the pool, which is not paying out
\* already, marks the note spent.  A call that reverts is no call.
RelayWithdraw(x) ==
    /\ phase = "running" /\ MayCall(x.recipient)
    /\ x.recipient \in ApprovedSenders => x = terms[Head(queue)].withdrawal
    /\ ConsumeSponsorship(x.recipient, x)
    /\ x.note \notin spent
    /\ \A i \in 1 .. Len(open) : poolOf[open[i].withdrawal.note] # poolOf[x.note]
    /\ spent' = spent \cup {x.note}
    /\ open' = <<[withdrawal |-> x, before |-> held]>> \o open
    /\ nested' = (nested \/ open # <<>>)
    /\ UNCHANGED <<fixed, config, held, master, deposit, relayed, received, bundleStart,
                   frameStart, called, executed, queue, phase, result>>

\* The fee goes to the relayer the proof names: the paymaster or the master EOA.
PayFee(x) ==
    IF x.toPaymaster
    THEN held' = [held EXCEPT ![x.asset] = @ + x.fee] /\ UNCHANGED master
    ELSE master' = [master EXCEPT ![x.asset] = @ + x.fee] /\ UNCHANGED held

\* _addReceived of what the balances grew by since they were measured; the token's
\* only if the pool has one.
AddReceived(s, asset, before) ==
    received' = [received EXCEPT ![s] =
                    [a \in Assets |-> IF a = Eth \/ a = asset
                                      THEN @[a] + held'[a] - before[a] ELSE @[a]]]

\* The rest of relayWithdraw: the pool pays the relayer, the paymaster counts.
RelayReturns ==
    LET x == Head(open).withdrawal IN
    /\ phase = "running" /\ open # <<>>
    /\ PayFee(x)
    /\ AddReceived(x.recipient, x.asset, Head(open).before)
    /\ open' = Tail(open)
    /\ relayed' = relayed \cup {x}
    /\ called' = called \cup {x}
    /\ UNCHANGED <<fixed, config, deposit, spent, allowance, nested, bundleStart, frameStart,
                   executed, queue, phase, result>>

ExecutionEnds(o) ==
    /\ phase = "running" /\ o = Head(queue) /\ open = <<>>
    /\ Faithful(o) => terms[o].withdrawal \in called
    /\ executed' = TRUE
    /\ phase' = "settling"
    /\ UNCHANGED <<fixed, config, chain, bundleStart, frameStart, open, called, queue,
                   result>>

\* relayWithdraw or a tail call reverts, or the gas runs out.
ExecutionReverts(o) ==
    /\ phase = "running" /\ o = Head(queue)
    /\ Restore(frameStart)
    /\ open' = <<>>
    /\ executed' = FALSE
    /\ phase' = "settling"
    /\ UNCHANGED <<fixed, config, bundleStart, frameStart, called, queue, result>>

-----------------------------------------------------------------------------
(* postOp.                                                                  *)

\* A settlement that reads the received amount and does not clear it.
TakeNothing(s) == UNCHANGED received

TakeReceived(s) == received' = [received EXCEPT ![s] = [a \in Assets |-> 0]]

\* What the EntryPoint bills: the gas so far and postOp's own, which
\* postOpGasOverhead is configured to cover; never more than the prefund.
Charges(prefund, actual) ==
    {c \in actual .. prefund : c <= GasCost(actual, FeePerGas)}

\* The EntryPoint keeps `charge` of the prefund and returns the rest to the deposit.
Returned(t, charge) == t.prefund - charge

RefundOf(t, balance, gasCost) ==
    IF t.withdrawal.toPaymaster
    THEN Refund(t.withdrawal.fee,
                Keep(gasCost, t.serviceFee, tokenPerEth(t.withdrawal.asset)), balance)
    ELSE 0

\* _settleEth: the refund, if refundTo takes it, then the rest into the deposit; a
\* call with more than is held fails.
SettleEth(t, balance, gasCost, charge) ==
    \E refund \in {0, RefundOf(t, balance, gasCost)}, deposited \in BOOLEAN :
        LET rest == IF deposited THEN balance - refund ELSE 0 IN
        /\ refund + rest <= held[Eth]
        /\ held' = [held EXCEPT ![Eth] = @ - refund - rest]
        /\ deposit' = deposit + rest + Returned(t, charge)

\* _settleToken: the refund, if the token moves; the rest stays with the paymaster.
SettleToken(t, balance, gasCost, charge) ==
    \E refund \in {0, RefundOf(t, balance, gasCost)} :
        /\ refund <= held[Token]
        /\ held' = [held EXCEPT ![Token] = @ - refund]
        /\ deposit' = deposit + Returned(t, charge)

Finish(o, how) ==
    /\ queue' = Tail(queue)
    /\ result' = [result EXCEPT ![o] = how]
    /\ phase' = "executing"
    /\ UNCHANGED <<fixed, config, bundleStart, frame>>

PostOp(o) ==
    LET t == terms[o]
        balance == received[t.sender][t.withdrawal.asset]
    IN
    /\ phase = "settling" /\ o = Head(queue) /\ executed
    /\ TakeReceived(t.sender)
    /\ \E actual \in 1 .. t.prefund : \E charge \in Charges(t.prefund, actual) :
          IF t.withdrawal.asset = Eth
          THEN SettleEth(t, balance, GasCost(actual, FeePerGas), charge)
          ELSE SettleToken(t, balance, GasCost(actual, FeePerGas), charge)
    /\ Finish(o, "succeeded")
    /\ UNCHANGED <<master, spent, relayed, allowance, nested>>

\* mode # opSucceeded: nothing was received, the gas is the paymaster's loss.
PostOpAfterRevert(o) ==
    /\ phase = "settling" /\ o = Head(queue) /\ ~executed
    /\ TakeReceived(terms[o].sender)
    /\ \E charge \in 1 .. terms[o].prefund : deposit' = deposit + Returned(terms[o], charge)
    /\ Finish(o, "reverted")
    /\ UNCHANGED <<held, master, spent, relayed, allowance, nested>>

\* postOp runs out of gas: the execution is undone with it.
PostOpReverts(o) ==
    /\ phase = "settling" /\ o = Head(queue)
    /\ \E charge \in 1 .. terms[o].prefund :
          Restore([frameStart EXCEPT !.deposit = @ + Returned(terms[o], charge)])
    /\ Finish(o, "reverted")

\* The transaction ends, and transient storage with it.
EndBundle ==
    /\ phase = "executing" /\ queue = <<>>
    /\ allowance' = NoAllowance /\ received' = NothingReceived /\ nested' = FALSE
    /\ phase' = "idle"
    /\ UNCHANGED <<fixed, config, held, master, deposit, spent, relayed, bundleStart,
                   frame, queue, result>>

-----------------------------------------------------------------------------
(* Between bundles.                                                         *)

Administer ==
    /\ phase = "idle" /\ admin < MaxAdmin
    /\ admin' = admin + 1
    /\ UNCHANGED <<fixed, master, spent, relayed, allowance, received, nested, bundleStart,
                   frame, queue, phase, result>>

\* withdrawTo by the owner, and deposit by anyone.
MoveDeposit ==
    /\ Administer
    /\ deposit' \in 0 .. MaxFunds
    /\ UNCHANGED <<held, delegated, verifyingSigner>>

\* sweep and sweepERC20 by the owner.
Sweep(a) ==
    /\ Administer
    /\ \E amount \in 0 .. held[a] : held' = [held EXCEPT ![a] = @ - amount]
    /\ UNCHANGED <<deposit, delegated, verifyingSigner>>

SetVerifyingSigner(k) ==
    /\ Administer
    /\ verifyingSigner' = k
    /\ UNCHANGED <<held, deposit, delegated>>

\* An account authorizes another implementation, or the approved one again.
Redelegate(s) ==
    /\ Administer
    /\ delegated' = IF s \in delegated THEN delegated \ {s} ELSE delegated \cup {s}
    /\ UNCHANGED <<held, deposit, verifyingSigner>>

-----------------------------------------------------------------------------

Next ==
    \/ BeginBundle \/ BeginExecution \/ BeginFrame \/ EndBundle
    \/ \E o \in Ops : Validate(o) \/ RevertBundle(o)
    \/ \E x \in Withdrawals : RelayWithdraw(x)
    \/ RelayReturns
    \/ \E o \in Ops : ExecutionEnds(o) \/ ExecutionReverts(o)
    \/ \E o \in Ops : PostOp(o) \/ PostOpAfterRevert(o) \/ PostOpReverts(o)
    \/ MoveDeposit
    \/ \E a \in Assets : Sweep(a)
    \/ \E k \in Keys : SetVerifyingSigner(k)
    \/ \E s \in Senders : Redelegate(s)

Spec == Init /\ [][Next]_vars

-----------------------------------------------------------------------------
(* What the paymaster promises.                                             *)

\* "Only the recipient may trigger it, and only with exactly the arguments the
\* relayer signed" (relayWithdraw): whatever the accounts execute and however
\* operations share a bundle, each withdrawal relayed was signed into an operation
\* of its own sender that was included, so no stake is burned for anything else.
OnlyApprovedRelayed ==
    \A x \in relayed : \E o \in Ops :
        /\ signed[o] # NoKey
        /\ result[o] # "pending"
        /\ terms[o].sender = x.recipient /\ terms[o].withdrawal = x

\* "postOp settles exactly that and never touches ETH or tokens the address held
\* beforehand" (_relayWithdraw): no bundle leaves, or passes through, less than the
\* paymaster held when it began.  Of ETH this is false: a recipient that relays again
\* while it is paid has the inner fee counted by both calls.
HeldUntouched ==
    phase # "idle" => \A a \in Assets : held[a] >= bundleStart.held[a]

\* What is true of it: no token held before is ever touched, and no ETH in a
\* transaction in which no relay was entered inside another, whatever else the accounts
\* execute and however operations share a bundle or a sender.
HeldUnlessNested ==
    phase # "idle" => /\ held[Token] >= bundleStart.held[Token]
                      /\ nested \/ held[Eth] >= bundleStart.held[Eth]

\* What the relayer owns in ETH, and in tokens, prefunds not counted.
EthWorth(w) == w.deposit + w.held[Eth] + w.master[Eth]
TokenWorth(w) == w.held[Token] + w.master[Token]

\* fee.ts minimumFee against postOp: an operation of an approved account that
\* succeeded has paid for its gas and the service fee.  In a token the gas is paid at the signed rate, rounded down.
SuccessPays(o) ==
    LET t == terms[o]
        gas == frameStart.deposit + t.prefund - deposit'
    IN IF t.withdrawal.asset = Eth
       THEN EthWorth(world)' >= EthWorth(frameStart) + t.prefund + t.serviceFee
       ELSE TokenWorth(world)' >= TokenWorth(frameStart) + t.serviceFee
                                  + (gas * TokenRate) \div RateScale

SuccessNeverLoses ==
    [][\A o \in Ops :
          result[o] = "validated" /\ result'[o] = "succeeded" /\ terms[o].sender \in FaithfulSenders
             => SuccessPays(o)]_vars

=============================================================================
