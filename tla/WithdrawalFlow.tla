---------------------------- MODULE WithdrawalFlow ----------------------------
(***************************************************************************)
(* sponsoredWithdraw (client/src/flow.ts) against the relayer: the client  *)
(* checks its root, asks for a quote, proves, has the bundler estimate,    *)
(* asks again at the estimate, proves again if the fee moved, asks for the *)
(* sponsorship, sends the operation and waits for it.  Its user starts it  *)
(* again after a failure.                                                  *)
(*                                                                         *)
(* An action is one round trip of the client.  Gas prices, the token's     *)
(* rate, what the operation needs, the relayer's configuration, the pool   *)
(* and the account's EIP-7702 delegation move between two of them.  The    *)
(* relayer's own awaits are the subject of RelayerService: here its answer *)
(* is one step, and the sponsorship it gives is live until it expires.     *)
(***************************************************************************)
EXTENDS OperationRules, OperationHash, FeeMath, FiniteSets, TLC

CONSTANTS
    Pool, Sender, Elsewhere,      \* addresses: the client's pool and account, anything else
    Note,                         \* the client's nullifier hash
    Denomination,
    DEFAULT_GAS, TailCallsGas, ERC20_WITHDRAW_EXTRA_GAS,
    Implementation,      \* the account code the client delegates to
    Foreign,             \* the account code of another wallet
    AllowedImplementations,
    Configs,             \* [rewardAccount, serviceFeeBps, gasPriceMarginBps,
                         \*  maxSponsorshipGasWei (or None), registryMode]
    GasPrices,           \* [maxFeePerGas, maxPriorityFeePerGas] as the bundler answers
    IsToken,             \* an ERC-20 pool
    Rates,               \* tokenPerEth as the oracle answers; 0 when it does not
    Needs,               \* answers to eth_estimateUserOperationGas; fields may be missing
    Standings, Serving,  \* of the paymaster: what it may come to, and at first
    RootHistorySize,
    OtherCalls,          \* what other callers make batches of
    Forms,               \* [factory, factoryData, initCode]: how they name the account's code
    MaxMoves             \* bound of the instance checked: changes of the environment

GasFields == DOMAIN DEFAULT_GAS
PaymasterFields == {"paymasterVerificationGasLimit", "paymasterPostOpGasLimit"}

\* How the paymaster stands with those it depends on: what its deposit is known to leave
\* for one more operation, after the reserve and what is promised to others (None while
\* that cannot be told); whether the registry answers and resolves it to rewardAccount;
\* whether the router relays for it (the registry may find its stake too small to burn);
\* whether the bundler answers.
PaymasterStandings ==
    [budget : Int \cup {None}, registered : BOOLEAN, relays : BOOLEAN, answers : BOOLEAN]

ASSUME FlowAssumption ==
    /\ Pool \in Instances /\ Implementation \in AllowedImplementations
    /\ {None, Foreign} \cap AllowedImplementations = {} /\ Elsewhere # Paymaster
    /\ None \notin [address : {Implementation}, nonce : Nat] \cup [estimate : Needs, gas : GasLimits]
    /\ DEFAULT_GAS \in GasLimits
    /\ {TailCallsGas, ERC20_WITHDRAW_EXTRA_GAS, Denomination} \subseteq Nat
    /\ Serving \in Standings /\ Standings \subseteq PaymasterStandings
    /\ IsToken \in BOOLEAN /\ Rates \subseteq Nat /\ MaxMoves \in Nat
    /\ \A c \in Configs : {c.serviceFeeBps, c.gasPriceMarginBps} \subseteq Nat
    /\ \A p \in GasPrices : {p.maxFeePerGas, p.maxPriorityFeePerGas} \subseteq Nat
    /\ \A n \in Needs :
        /\ DOMAIN n \subseteq GasFields /\ GasFields \ PaymasterFields \subseteq DOMAIN n
        /\ \A f \in DOMAIN n : n[f] \in Nat

VARIABLES
    config,              \* of the relayer that is running
    gasPrice, rate, need, deposits, standing,
    code,                \* [implementation, nonce]: what Sender is delegated to
    spent,
    moves,
    cachedRate,          \* what the relayer's price source remembers, or None
    held,                \* the live sponsorship of Note, or None
    skipEstimation,
    pc, leaves, quote, proof, limits,
    delegated,           \* did the client see a delegated account?
    quotedUnder,         \* the configuration, and the estimate, the last quote is based on
    receipt,             \* of the operation waited for
    other                \* a batch of another caller that the relayer would sponsor

env == <<config, gasPrice, rate, need, deposits, standing>>
figures == <<leaves, quote, proof, limits, delegated, quotedUnder>>
vars == <<env, code, spent, moves, cachedRate, held, skipEstimation, pc, figures, receipt, other>>

Init ==
    /\ config \in Configs /\ gasPrice \in GasPrices /\ rate \in Rates /\ need \in Needs
    /\ code = [implementation |-> None, nonce |-> 0]
    /\ deposits = 1 /\ spent = {} /\ standing = Serving
    /\ moves = 0 /\ cachedRate = None /\ held = None
    /\ skipEstimation \in BOOLEAN
    /\ pc = "idle" /\ leaves = 0
    /\ quote = None /\ proof = None /\ limits = None /\ delegated = FALSE
    /\ quotedUnder = None /\ receipt = None /\ other = None

-----------------------------------------------------------------------------
(* The relayer's figures.                                                   *)

\* A rate is kept for a while; then the oracle is asked again.
tokenPerEth == IF cachedRate = None THEN rate ELSE cachedRate

\* Without a price there is neither a quote nor a sponsorship.
rateFor == IsToken => tokenPerEth # 0

Priced == cachedRate' = IF rateFor /\ IsToken THEN tokenPerEth ELSE None

WithPriceMargin(wei) == (wei * config.gasPriceMarginBps) \div Bps

withTailCalls(gas) ==
    [gas EXCEPT !.callGasLimit = @ + TailCallsGas + IF IsToken THEN ERC20_WITHDRAW_EXTRA_GAS ELSE 0]

feeFor(gas, maxFeePerGas) ==
    minimumFee(totalGas(gas) * maxFeePerGas, serviceFeeFor(Denomination, config.serviceFeeBps),
               IF IsToken THEN tokenPerEth ELSE 0)

Lesser(a, b) == IF a < b THEN a ELSE b
Greater(a, b) == IF a > b THEN a ELSE b

\* The tip as the bundler suggests it.
TipAsAnswered(gas, maxFeePerGas) ==
    [relayer |-> config.rewardAccount, gas |-> gas, maxFeePerGas |-> maxFeePerGas,
     maxPriorityFeePerGas |-> WithPriceMargin(gasPrice.maxPriorityFeePerGas),
     tokenPerEth |-> tokenPerEth, fee |-> feeFor(gas, maxFeePerGas)]

\* tornado_quote.
quoteFor(gas, maxFeePerGas) ==
    [relayer |-> config.rewardAccount, gas |-> gas, maxFeePerGas |-> maxFeePerGas,
     maxPriorityFeePerGas |-> Lesser(WithPriceMargin(gasPrice.maxPriorityFeePerGas), maxFeePerGas),
     tokenPerEth |-> tokenPerEth, fee |-> feeFor(gas, maxFeePerGas)]

\* No look at the fee.
AnyQuote(q) == rateFor

\* A fee that leaves nothing of the note is not quoted.
Quotable(q) == rateFor /\ q.fee < Denomination

-----------------------------------------------------------------------------
(* Operations.                                                              *)

\* The proof binds the sender as recipient, the relayer and the fee to the root.
prove(q) == [instance |-> Pool, nullifierHash |-> Note, root |-> leaves, recipient |-> Sender,
             relayer |-> q.relayer, fee |-> q.fee]

\* The withdrawal, and a tail call that moves `value` of the pool's asset.
buildCalls(w, fee) ==
    << [target |-> Paymaster, value |-> 0, function |-> "relayWithdraw", withdraw |-> w],
       [target |-> Elsewhere, value |-> Denomination - fee, function |-> "transfer", withdraw |-> None] >>

\* An account without code gets its delegation with the operation.
Operation(calls, q) ==
    [sender |-> Sender, initCode |-> None, factoryData |-> <<>>,
     factory |-> IF delegated \/ code.implementation # None THEN None ELSE Bare,
     authorization |->
        IF delegated THEN None ELSE [address |-> Implementation, nonce |-> code.nonce],
     callData |-> [function |-> "executeBatch", calls |-> calls], gas |-> q.gas,
     maxFeePerGas |-> q.maxFeePerGas, maxPriorityFeePerGas |-> q.maxPriorityFeePerGas]

\* A root is in the ring while fewer deposits have followed it than the ring is long.
isKnownRoot(n) == n > 0 /\ deposits - n < RootHistorySize

\* The pool and the router let the withdrawal pass, and the calls after it find what
\* they spend.
WouldSucceed(w, calls) ==
    /\ isKnownRoot(w.root) /\ w.nullifierHash \notin spent /\ standing.relays
    /\ \A i \in DOMAIN calls : calls[i].value <= Denomination - w.fee

\* An estimate without the paymaster's limits is no estimate.
asGasEstimate(estimate) == DOMAIN estimate = GasFields

Fits(estimate, gas) == asGasEstimate(estimate) /\ \A f \in DOMAIN estimate : estimate[f] <= gas[f]

Sponsoring(op) ==
    LET calls == decodeAccountCalls(op.callData)
    IN {calls[i].withdraw : i \in findSponsoringWithdraw(calls, config.rewardAccount, Sender)}

\* The operation's own authorization is applied before validation.
resolveSenderImplementation(op) ==
    IF op.authorization # None THEN op.authorization.address ELSE code.implementation

\* What the EntryPoint can charge for an operation with these limits.
maxGasCostWei(gas, maxFeePerGas) == totalGas(gas) * maxFeePerGas

belowCap(cost) == config.maxSponsorshipGasWei # None => cost <= config.maxSponsorshipGasWei

depositCovers(cost) == standing.budget # None /\ cost <= standing.budget

\* Not asked where a start-up found nothing to ask.
registrationCurrent ==
    config.registryMode \notin {"no-router", "unregistered"} => standing.registered

Reasons == {"rules", "price", "fee", "sponsored", "implementation", "cap", "deposit",
            "registration", "withdrawal", "bundler", "gas", "words"}

\* Why pm_getPaymasterData would refuse; the service reports the first reason.
Refused(op, why) ==
    LET calls == decodeAccountCalls(op.callData) IN
    \/ why = "rules" /\ Sponsoring(op) = {}
    \/ \E w \in Sponsoring(op) :
        \/ why = "rules" /\ (w.fee > Denomination \/ op.maxPriorityFeePerGas > op.maxFeePerGas)
        \/ why = "price" /\ ~rateFor
        \/ why = "fee" /\ rateFor /\ w.fee < feeFor(op.gas, op.maxFeePerGas)
        \/ why = "sponsored" /\ held # None /\ w.nullifierHash = Note
        \/ why = "implementation" /\ resolveSenderImplementation(op) \notin AllowedImplementations
        \/ why = "cap" /\ ~belowCap(maxGasCostWei(op.gas, op.maxFeePerGas))
        \/ why = "deposit" /\ ~depositCovers(maxGasCostWei(op.gas, op.maxFeePerGas))
        \/ why = "registration" /\ ~registrationCurrent
        \/ why = "withdrawal" /\ ~WouldSucceed(w, calls)
        \/ why = "bundler" /\ ~standing.answers
        \/ why = "gas" /\ ~Fits(need, op.gas)
        \/ why = "words" /\ ~Hashable(op)

sign(op) == {why \in Reasons : Refused(op, why)}

\* What is signed when there is no reason against it.
Sponsorship(op) ==
    LET w == CHOOSE w \in Sponsoring(op) : TRUE
        terms == [fee |-> w.fee, withdrawalHash |-> w,
                  senderImplementation |-> resolveSenderImplementation(op)]
    IN [op |-> op, terms |-> terms, hash |-> paymasterHash(op, terms), status |-> "signed"]

-----------------------------------------------------------------------------
(* The client.                                                              *)

Goto(l) == pc' = l
Forget ==
    /\ leaves' = 0 /\ quote' = None /\ proof' = None /\ limits' = None
    /\ delegated' = FALSE /\ quotedUnder' = None

Throw == Goto("idle") /\ Forget

\* A round trip the client does at l; quiet ones leave the relayer as it is.
At(l) == pc = l /\ UNCHANGED <<env, code, spent, moves, skipEstimation, other>>
Quiet == UNCHANGED <<cachedRate, held, receipt>>

\* With the leaves synced up to now.
Start ==
    /\ At("idle") /\ Quiet
    /\ leaves' = deposits
    /\ Goto("checking")
    /\ UNCHANGED <<quote, proof, limits, delegated, quotedUnder>>

CheckRoot ==
    /\ At("checking") /\ Quiet
    /\ IF isKnownRoot(leaves) THEN Goto("quoting") /\ UNCHANGED figures ELSE Throw

\* The client takes over a quote and what it was made under.
TakeQuote(q) ==
    /\ quote' = q
    /\ quotedUnder' = [config |-> config, estimate |-> limits]
    /\ Priced
    /\ UNCHANGED <<held, receipt>>

\* Steps 1 and 2: a quote at the ceilings, the proof, and a look at the account.
QuoteAndProve ==
    /\ At("quoting")
    /\ LET q == quoteFor(withTailCalls(DEFAULT_GAS), WithPriceMargin(gasPrice.maxFeePerGas)) IN
       IF Quotable(q)
       THEN /\ TakeQuote(q)
            /\ proof' = prove(q)
            /\ delegated' = (code.implementation # None)
            /\ Goto(IF skipEstimation THEN "sponsoring" ELSE "estimating")
            /\ UNCHANGED <<leaves, limits>>
       ELSE Throw /\ Priced /\ UNCHANGED <<held, receipt>>

Bump(x, bps) == (x * (Bps + bps)) \div Bps

\* The limits asked for after an estimate: the paymaster's never below the quoted ones.
RaisedLimits(estimate, quoted) ==
    LET Of(f) == IF f \in DOMAIN estimate THEN estimate[f] ELSE 0 IN
    [callGasLimit |-> Bump(Of("callGasLimit"), 1500),
     verificationGasLimit |-> Bump(Of("verificationGasLimit"), 1500),
     preVerificationGas |-> Bump(Of("preVerificationGas"), 1000),
     paymasterVerificationGasLimit |->
        Greater(Bump(Of("paymasterVerificationGasLimit"), 1500), quoted.paymasterVerificationGasLimit),
     paymasterPostOpGasLimit |->
        Greater(Bump(Of("paymasterPostOpGasLimit"), 2000), quoted.paymasterPostOpGasLimit)]

\* The bundler runs the account's code, or what the client shows it in its place.
Runs ==
    {~delegated \/ code.implementation = Implementation} \cup
    IF code.implementation = Foreign THEN {TRUE} ELSE {}

\* Step 3: the stub approves the withdrawal only if the rules do; without it the
\* estimation reverts like the operation would.  Another wallet's code may do either.
Estimate ==
    /\ At("estimating") /\ Quiet
    /\ LET calls == buildCalls(proof, quote.fee)
           op == Operation(calls, quote)
       IN \E runs \in Runs :
          IF runs /\ standing.answers /\ Sponsoring(op) # {} /\ WouldSucceed(proof, calls)
          THEN /\ limits' = [estimate |-> need, gas |-> RaisedLimits(need, quote.gas)]
               /\ Goto("requoting")
               /\ UNCHANGED <<leaves, quote, proof, delegated, quotedUnder>>
          ELSE Throw

\* Keeps the proof it has.
KeepProof(q) == proof

\* A proof is made again only for another fee.
ProofAfter(q) == IF q.fee # quote.fee THEN prove(q) ELSE proof

\* Step 4, at the price per gas of the first quote.
Requote ==
    /\ At("requoting")
    /\ LET q == quoteFor(limits.gas, quote.maxFeePerGas) IN
       IF Quotable(q)
       THEN /\ TakeQuote(q)
            /\ proof' = ProofAfter(q)
            /\ Goto("sponsoring")
            /\ UNCHANGED <<leaves, limits, delegated>>
       ELSE Throw /\ Priced /\ UNCHANGED <<held, receipt>>

\* Steps 5 and 6: pm_getPaymasterData.
RequestSponsorship ==
    /\ At("sponsoring")
    /\ \E op \in {Operation(buildCalls(proof, quote.fee), quote)} :
          IF sign(op) = {}
          THEN held' = Sponsorship(op) /\ Goto("sending") /\ UNCHANGED figures
          ELSE Throw /\ UNCHANGED held
    /\ Priced
    /\ UNCHANGED receipt

\* The bundler takes the operation, if it answers; too late if its sponsorship has expired.
Send ==
    /\ At("sending")
    /\ IF held = None \/ ~standing.answers
       THEN Throw /\ UNCHANGED held
       ELSE Goto("waiting") /\ held' = [held EXCEPT !.status = "sent"] /\ UNCHANGED figures
    /\ UNCHANGED <<cachedRate, receipt>>

\* A receipt, or none in the time the client waits; the operation may still land.
Waited ==
    /\ At("waiting") /\ UNCHANGED <<cachedRate, held>>
    /\ Goto(IF receipt = "success" THEN "done" ELSE "idle")
    /\ Forget /\ receipt' = None

sponsoredWithdraw ==
    \/ Start \/ CheckRoot \/ QuoteAndProve \/ Estimate \/ Requote
    \/ RequestSponsorship \/ Send \/ Waited

-----------------------------------------------------------------------------
(* Everyone else.                                                           *)

\* An authorization counts while the account's nonce is the one it was made for.
Authorized(authorization) ==
    IF authorization # None /\ authorization.nonce = code.nonce
    THEN [implementation |-> authorization.address, nonce |-> code.nonce + 1]
    ELSE code

\* The deposit pays for an operation that brings nothing in: at most what it was signed for.
AfterCharge(op) ==
    IF standing.budget = None THEN standing
    ELSE [standing EXCEPT !.budget = @ - maxGasCostWei(op.gas, op.maxFeePerGas)]

\* The bundler includes the operation if the paymaster takes it on, and drops it if
\* not.  An execution that reverts takes nothing and is paid for.
Land ==
    /\ held # None /\ held.status = "sent"
    /\ \E initCode \in InitCodes(held.op) :
       LET after == Authorized(held.op.authorization)
           taken == validatePaymasterUserOp(PackedUserOperation(held.op, initCode), held.terms,
                                            held.hash, after.implementation)
           calls == held.op.callData.calls
           done == taken /\ WouldSucceed(calls[1].withdraw, calls) /\ Fits(need, held.op.gas)
       IN /\ code' = IF taken THEN after ELSE code
          /\ spent' = IF done THEN spent \cup {Note} ELSE spent
          /\ standing' = IF taken /\ ~done THEN AfterCharge(held.op) ELSE standing
          /\ receipt' = IF taken /\ pc = "waiting"
                        THEN IF done THEN "success" ELSE "failed" ELSE receipt
    /\ held' = [held EXCEPT !.status = "settled"]
    /\ UNCHANGED <<config, gasPrice, rate, need, deposits, moves, cachedRate, skipEstimation, pc, figures, other>>

\* signatureTtlSec after its signature; the client gives up waiting before that.
Expire ==
    /\ held # None
    /\ ~(held.status = "sent" /\ pc = "waiting")
    /\ held' = None
    /\ UNCHANGED <<env, code, spent, moves, cachedRate, skipEstimation, pc, figures, receipt, other>>

ExpirePrice ==
    /\ cachedRate # None
    /\ cachedRate' = None
    /\ UNCHANGED <<env, code, spent, moves, held, skipEstimation, pc, figures, receipt, other>>

Move ==
    /\ moves < MaxMoves /\ pc # "closed" /\ moves' = moves + 1
    /\ UNCHANGED <<held, skipEstimation, other>>

MoveElsewhere == Move /\ UNCHANGED <<pc, figures, receipt>>

\* Prices, needs, the pool and how the paymaster stands; another relayer may withdraw
\* the note.
EnvironmentMoves ==
    /\ MoveElsewhere
    /\ \/ gasPrice' \in GasPrices \ {gasPrice} /\ UNCHANGED <<config, rate, need, deposits, standing, spent>>
       \/ rate' \in Rates \ {rate} /\ UNCHANGED <<config, gasPrice, need, deposits, standing, spent>>
       \/ need' \in Needs \ {need} /\ UNCHANGED <<config, gasPrice, rate, deposits, standing, spent>>
       \/ deposits' = deposits + 1 /\ UNCHANGED <<config, gasPrice, rate, need, standing, spent>>
       \/ standing' \in Standings \ {standing}
          /\ UNCHANGED <<config, gasPrice, rate, need, deposits, spent>>
       \/ Note \notin spent /\ spent' = {Note} /\ UNCHANGED env
    /\ UNCHANGED <<code, cachedRate>>

\* The account's owner delegates it from another wallet, or takes its code away.
Redelegate ==
    /\ MoveElsewhere
    /\ \E i \in {None, Implementation, Foreign} \ {code.implementation} :
          code' = [implementation |-> i, nonce |-> code.nonce + 1]
    /\ UNCHANGED <<env, spent, cachedRate>>

\* The relayer's operator starts it with other settings; the file keeps what is signed.
\* A start ends once the registry names its rewardAccount (RelayerBoot).
Restart ==
    /\ MoveElsewhere
    /\ config' \in Configs \ {config}
    /\ standing' = [standing EXCEPT !.registered = TRUE]
    /\ cachedRate' = None
    /\ UNCHANGED <<gasPrice, rate, need, deposits, code, spent>>

\* A request, the bundler or the client's process fails.
ClientFails ==
    /\ Move /\ pc \notin {"idle", "done"}
    /\ Throw /\ receipt' = None
    /\ UNCHANGED <<env, code, spent, cachedRate>>

\* Any other caller asks, for the same account, with a batch of its own and in a form
\* of its own: followed by itself, instead of the client.
OtherCaller ==
    /\ pc = "idle" /\ moves = 0 /\ held = None
    /\ \E calls \in UNION {[1 .. n -> OtherCalls] : n \in 0 .. 2},
         function \in {"execute", "executeBatch", "unknown"} :
       LET callData == [function |-> function, calls |-> calls] IN
          /\ function = "execute" => Len(calls) = 1
          /\ Sponsoring([callData |-> callData]) # {}
          /\ \E form \in Forms, a \in {None, Implementation, Foreign}, price \in {0, gasPrice.maxFeePerGas},
               callGasLimit \in {withTailCalls(DEFAULT_GAS).callGasLimit, Word} :
               LET op == form @@ [
                       sender |-> Sender, callData |-> callData,
                       authorization |-> IF a = None THEN None ELSE [address |-> a, nonce |-> code.nonce],
                       gas |-> [withTailCalls(DEFAULT_GAS) EXCEPT !.callGasLimit = callGasLimit],
                       maxFeePerGas |-> price, maxPriorityFeePerGas |-> 0]
               IN sign(op) = {} /\ other' = Sponsorship(op)
    /\ pc' = "closed"
    /\ UNCHANGED <<env, code, spent, moves, cachedRate, held, skipEstimation, figures, receipt>>

-----------------------------------------------------------------------------

Next ==
    \/ sponsoredWithdraw \/ Land \/ Expire \/ ExpirePrice
    \/ EnvironmentMoves \/ Redelegate \/ Restart \/ ClientFails
    \/ OtherCaller

Spec == Init /\ [][Next]_vars

(* The user starts the client again after a failure and its calls are       *)
(* answered; time passes.  Of operations signed again and again one is sent *)
(* within its validity, which is minutes, and of operations sent again and  *)
(* again one is included in time.                                           *)
FairSpec == Spec /\ WF_vars(sponsoredWithdraw) /\ WF_vars(Expire)
    /\ SF_vars(Send /\ held # None) /\ SF_vars(Land)

-----------------------------------------------------------------------------

TypeOK ==
    /\ config \in Configs /\ gasPrice \in GasPrices /\ rate \in Rates /\ need \in Needs
    /\ deposits \in 1 .. 1 + moves /\ leaves \in 0 .. deposits /\ moves \in 0 .. MaxMoves
    /\ standing \in PaymasterStandings /\ cachedRate \in Rates \cup {None}
    /\ spent \subseteq {Note} /\ skipEstimation \in BOOLEAN
    /\ pc \in {"idle", "checking", "quoting", "estimating", "requoting", "sponsoring", "sending",
               "waiting", "done", "closed"}
    /\ quote # None => quote.fee \in 0 .. Denomination - 1 /\ quote.gas \in GasLimits
    /\ held # None => held.status \in {"signed", "sent", "settled"}
    /\ code \in [implementation : {None, Implementation, Foreign}, nonce : Nat]
    /\ delegated \in BOOLEAN
    /\ receipt \in {None, "success", "failed"}

\* What the tail calls spend is what the withdrawal brings: of every operation the
\* relayer has signed, fee and tail call add up to the note, also when the fee moved
\* after the first proof (flow.ts buildCalls, step 4).
TailCallsSpendWhatArrives ==
    held # None =>
        LET calls == held.op.callData.calls
        IN calls[1].withdraw.fee + calls[2].value = Denomination

\* Why a client that did as told is refused: the relayer was restarted since its last
\* quote, or between its two quotes when both name the same fee (step 4 proves again
\* for another fee, not for another relayer); the token got cheaper, or has no price; the
\* operation quoted to it costs more than the relayer's own limit (which no quote looks
\* at), or than its deposit is known to leave; the registration lapsed, or the stake; the
\* bundler fails, its estimate moved or was skipped; the pool moved; its own earlier
\* operation is still live; the account it saw delegated is so no more, or elsewhere.
\* For no other of sign's checks (flow.ts, service.ts sign; the signer's and the disk's
\* failures are RelayerService's).
Justified(why) ==
    CASE why = "implementation" -> delegated /\ code.implementation # Implementation
      [] why = "words" -> FALSE
      [] why = "rules" -> config # quotedUnder.config \/ proof.relayer # quote.relayer
      [] why = "price" -> rate = 0
      [] why = "fee" -> config # quotedUnder.config \/ tokenPerEth > quote.tokenPerEth
      [] why = "sponsored" -> held # None
      [] why = "cap" -> ~belowCap(maxGasCostWei(quote.gas, quote.maxFeePerGas))
      [] why = "deposit" -> ~depositCovers(maxGasCostWei(quote.gas, quote.maxFeePerGas))
      [] why = "registration" -> ~standing.registered
      [] why = "withdrawal" -> ~isKnownRoot(leaves) \/ Note \in spent \/ ~standing.relays
      [] why = "bundler" -> ~standing.answers
      [] why = "gas" -> IF quotedUnder.estimate = None THEN skipEstimation
                        ELSE need # quotedUnder.estimate.estimate \/ ~asGasEstimate(need)

RefusalsHaveCause ==
    pc = "sponsoring" =>
        \A why \in sign(Operation(buildCalls(proof, quote.fee), quote)) : Justified(why)

\* Whatever batch a caller sends: an operation the relayer signs takes exactly one note
\* out of the pools with its own calls, through the paymaster, and pays its fee to
\* rewardAccount (validate.ts findSponsoringWithdraw; wrapped calls are not covered).
SponsoredPaysOnce ==
    other # None => PaysOnce(decodeAccountCalls(other.op.callData), config.rewardAccount, Sender)

\* However a bundler spells what it is given: the paymaster computes the hash the relayer
\* has signed, if the account runs the code the relayer approved (userop.ts paymasterHash
\* "mirrors" getHash, which hashes packed fields and the delegate it finds), and the
\* EntryPoint reads the limits the fee was computed from.
SignatureHolds ==
    \A s \in {held, other} \ {None} : \A initCode \in InitCodes(s.op) :
        LET userOp == PackedUserOperation(s.op, initCode)
            gas == s.op.gas
        IN /\ getHash(userOp, s.terms, s.terms.senderImplementation) = s.hash
           /\ unpackUints(userOp) =
                << gas.verificationGasLimit, gas.callGasLimit,
                   gas.paymasterVerificationGasLimit, gas.paymasterPostOpGasLimit,
                   s.op.maxPriorityFeePerGas, s.op.maxFeePerGas >>

\* Between the signature and the inclusion the owner may put other code under the account:
\* a note only leaves the pool through the code the relayer approved, never through what
\* callData means to another (service.ts step 4, validatePaymasterUserOp).
ApprovedCodeRuns ==
    [][Land /\ spent' # spent => code'.implementation \in AllowedImplementations]_vars

\* Can the note pay for the operation at all, and the relayer sponsor it, as things stand?
Affordable ==
    LET ceilings == withTailCalls(DEFAULT_GAS)
        price == WithPriceMargin(gasPrice.maxFeePerGas)
        FitsFee(gas) == Quotable(quoteFor(gas, price))
        Sponsorable(gas) ==
            /\ belowCap(maxGasCostWei(gas, price))
            /\ depositCovers(maxGasCostWei(gas, price))
    IN /\ code.implementation # Foreign
       /\ FitsFee(ceilings)
       /\ asGasEstimate(need)
       /\ IF skipEstimation
          THEN Fits(need, ceilings) /\ Sponsorable(ceilings)
          ELSE FitsFee(RaisedLimits(need, ceilings)) /\ Sponsorable(RaisedLimits(need, ceilings))
       /\ registrationCurrent /\ standing.relays /\ standing.answers

\* Once things stop moving, a user who keeps trying gets the note out: no earlier refusal,
\* timeout, late inclusion, failed operation or expired sponsorship blocks it for good.
\* Left out, because it does: a note the fee would use up; an operation over the relayer's
\* limit, or over what its deposit leaves; a lapsed registration or stake; a bundler that
\* does not answer; an account that another wallet has delegated, which the client takes
\* as it is (flow.ts step 5).
NoteWithdrawn == <>[](Note \in spent \/ ~Affordable \/ pc = "closed")

=============================================================================
