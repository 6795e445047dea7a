-------------------------- MODULE WithdrawalFlowProofs --------------------------
(***************************************************************************)
(* What the relayer signs, for every pool, every price, rate, estimate and *)
(* configuration, any number of changes of these, and every batch of calls *)
(* in every form that another caller may send.                             *)
(***************************************************************************)
EXTENDS WithdrawalFlow, ArithmeticTheorems

-----------------------------------------------------------------------------
(* Packed words.                                                            *)

LEMMA Packed ==
    ASSUME NEW high, NEW low, packable(high, low)
    PROVE  /\ high \in Nat /\ low \in Nat /\ low < Word
           /\ high * Word \in Nat
           /\ packHighLow(high, low) = high * Word + low
<1>1. high \in Nat /\ low \in Nat /\ low < Word
  BY HashAssumption DEF packable
<1>2. high * Word \in Nat
  BY <1>1, HashAssumption, TimesMonotone
<1> QED
  BY <1>1, <1>2 DEF packHighLow

\* A higher half makes a larger word, whatever the lower halves are.
LEMMA HighHalfOrders ==
    ASSUME NEW h \in Nat, NEW k \in Nat, NEW l \in Nat, NEW m \in Nat, l < Word, h < k
    PROVE  h * Word + l < k * Word + m
<1>1. Word \in Nat
  BY HashAssumption
<1>2. (h + 1) * Word <= k * Word
  BY <1>1, TimesMonotone
<1>3. (h + 1) * Word = h * Word + Word
  BY <1>1
<1>4. h * Word \in Nat /\ k * Word \in Nat
  BY <1>1, TimesMonotone
<1> QED
  BY <1>1, <1>2, <1>3, <1>4

\* Two halves can be told from their word (userop.ts packHighLow).
THEOREM HalvesBound ==
    ASSUME NEW h, NEW l, packable(h, l), NEW k, NEW m, packable(k, m),
           packHighLow(h, l) = packHighLow(k, m)
    PROVE  h = k /\ l = m
<1>1. /\ h \in Nat /\ l \in Nat /\ l < Word /\ h * Word \in Nat
      /\ k \in Nat /\ m \in Nat /\ m < Word /\ k * Word \in Nat
      /\ h * Word + l = k * Word + m
  BY Packed
<1>2. ~(h < k)
  BY <1>1, HighHalfOrders
<1>3. ~(k < h)
  BY <1>1, HighHalfOrders
<1>4. h = k
  BY <1>1, <1>2, <1>3
<1> QED
  BY <1>1, <1>4

\* And division reads them back.
LEMMA HalvesRead ==
    ASSUME NEW h, NEW l, packable(h, l)
    PROVE  /\ (h * Word + l) \div Word = h
           /\ (h * Word + l) % Word = l
<1> DEFINE w == h * Word + l
           q == w \div Word
           r == w % Word
<1>1. h \in Nat /\ l \in Nat /\ l < Word /\ w \in Nat /\ Word \in Nat \ {0}
  BY Packed, HashAssumption
<1>2. q \in Nat /\ r \in Nat /\ r < Word /\ w = q * Word + r
  BY <1>1, Z3
<1>3. packable(q, r)
  <2>1. h < Word
    BY HashAssumption DEF packable
  <2>2. ~(h < q)
    BY <1>1, <1>2, HighHalfOrders
  <2> QED
    BY <1>1, <1>2, <2>1, <2>2 DEF packable
<1>4. packHighLow(q, r) = packHighLow(h, l)
  BY <1>2 DEF packHighLow
<1>5. q = h /\ r = l
  <2> HIDE DEF q, r
  <2> QED
    BY <1>3, <1>4, HalvesBound
<1> QED
  BY <1>5

-----------------------------------------------------------------------------
(* The two hashes.                                                          *)

\* One marker, two spellings, one hash.
LEMMA MarkersAgree ==
    ASSUME NEW op, NEW initCode \in InitCodes(op), NEW terms
    PROVE  InitCodeHashOverride(initCode, terms.senderImplementation)
             = initCodeHash(op, terms.senderImplementation)
<1> DEFINE packed == packInitCode(op)
           impl == terms.senderImplementation
<1>1. initCode = packed \/ (initCode \in {<<Bare>>, <<Padded>>} /\ packed \in {<<Bare>>, <<Padded>>})
  BY DEF InitCodes
<1>2. initCodeHash(op, impl) = IF isEip7702InitCode(packed) THEN <<impl>> \o Tail(packed) ELSE packed
  BY DEF initCodeHash
<1>3. /\ <<Bare>> # <<>> /\ <<Padded>> # <<>>
      /\ Head(<<Padded>>) = Padded
      /\ Tail(<<Bare>>) = Tail(<<Padded>>)
  OBVIOUS
<1> HIDE DEF packed, impl
<1>4. CASE initCode = packed
  BY <1>2, <1>3, <1>4 DEF InitCodeHashOverride, isEip7702InitCode, isPaddedInitCode, impl
<1>5. CASE initCode \in {<<Bare>>, <<Padded>>} /\ packed \in {<<Bare>>, <<Padded>>}
  <2>1. isEip7702InitCode(packed)
    BY <1>3, <1>5 DEF isEip7702InitCode, isPaddedInitCode
  <2>2. InitCodeHashOverride(initCode, impl) = <<impl>> \o Tail(initCode)
    BY <1>3, <1>5 DEF InitCodeHashOverride
  <2>3. Tail(initCode) = Tail(packed)
    BY <1>3, <1>5
  <2> QED
    BY <1>2, <2>1, <2>2, <2>3 DEF impl
<1> QED
  BY <1>1, <1>4, <1>5

\* What the relayer signs is what the paymaster computes of the packed operation, in each
\* form a bundler may give it, while the sender runs the code the terms name
\* (userop.ts paymasterHash, getHash).
THEOREM HashAgrees ==
    ASSUME NEW op, NEW initCode \in InitCodes(op), NEW terms
    PROVE  getHash(PackedUserOperation(op, initCode), terms, terms.senderImplementation)
             = paymasterHash(op, terms)
<1> DEFINE userOp == PackedUserOperation(op, initCode)
           impl == terms.senderImplementation
           account == packHighLow(op.gas.verificationGasLimit, op.gas.callGasLimit)
           paymaster == packHighLow(op.gas.paymasterVerificationGasLimit,
                                    op.gas.paymasterPostOpGasLimit)
           fees == packHighLow(op.maxPriorityFeePerGas, op.maxFeePerGas)
           pre == op.gas.preVerificationGas
<1>1. /\ userOp.sender = op.sender /\ userOp.initCode = initCode
      /\ userOp.callData = op.callData /\ userOp.accountGasLimits = account
      /\ userOp.paymasterGasLimits = paymaster /\ userOp.preVerificationGas = pre
      /\ userOp.gasFees = fees
  BY DEF PackedUserOperation, packHighLow
<1>2. paymasterHash(op, terms)
        = << << op.sender, initCodeHash(op, impl), op.callData, account, paymaster, pre, fees >>, terms >>
  BY DEF paymasterHash
<1>3. InitCodeHashOverride(initCode, impl) = initCodeHash(op, impl)
  BY MarkersAgree
<1> HIDE DEF userOp, impl, account, paymaster, fees, pre
<1>4. userOpFieldsHash(userOp, impl)
        = << op.sender, initCodeHash(op, impl), op.callData, account, paymaster, pre, fees >>
  BY <1>1, <1>3 DEF userOpFieldsHash
<1>5. getHash(userOp, terms, impl) = paymasterHash(op, terms)
  BY <1>2, <1>4 DEF getHash
<1> QED
  BY <1>5 DEF userOp, impl

\* The limits and prices the fee was computed from are the ones the EntryPoint reads.
LEMMA LimitsRead ==
    ASSUME NEW op, NEW initCode, Hashable(op)
    PROVE  unpackUints(PackedUserOperation(op, initCode)) =
             << op.gas.verificationGasLimit, op.gas.callGasLimit,
                op.gas.paymasterVerificationGasLimit, op.gas.paymasterPostOpGasLimit,
                op.maxPriorityFeePerGas, op.maxFeePerGas >>
<1> DEFINE userOp == PackedUserOperation(op, initCode)
<1>1. /\ userOp.accountGasLimits = op.gas.verificationGasLimit * Word + op.gas.callGasLimit
      /\ userOp.paymasterGasLimits =
            op.gas.paymasterVerificationGasLimit * Word + op.gas.paymasterPostOpGasLimit
      /\ userOp.gasFees = op.maxPriorityFeePerGas * Word + op.maxFeePerGas
  BY DEF PackedUserOperation
<1>2. /\ packable(op.gas.verificationGasLimit, op.gas.callGasLimit)
      /\ packable(op.gas.paymasterVerificationGasLimit, op.gas.paymasterPostOpGasLimit)
      /\ packable(op.maxPriorityFeePerGas, op.maxFeePerGas)
  BY DEF Hashable
<1> HIDE DEF userOp
<1>3. /\ userOp.accountGasLimits \div Word = op.gas.verificationGasLimit
      /\ userOp.accountGasLimits % Word = op.gas.callGasLimit
  BY <1>1, <1>2, HalvesRead
<1>4. /\ userOp.paymasterGasLimits \div Word = op.gas.paymasterVerificationGasLimit
      /\ userOp.paymasterGasLimits % Word = op.gas.paymasterPostOpGasLimit
  BY <1>1, <1>2, HalvesRead
<1>5. /\ userOp.gasFees \div Word = op.maxPriorityFeePerGas
      /\ userOp.gasFees % Word = op.maxFeePerGas
  BY <1>1, <1>2, HalvesRead
<1>6. unpackUints(userOp) =
             << op.gas.verificationGasLimit, op.gas.callGasLimit,
                op.gas.paymasterVerificationGasLimit, op.gas.paymasterPostOpGasLimit,
                op.maxPriorityFeePerGas, op.maxFeePerGas >>
  BY <1>3, <1>4, <1>5 DEF unpackUints
<1> QED
  BY <1>6 DEF userOp

\* A signature for one operation is none for another with other calls, limits, prices or
\* terms: nothing the relayer checked can be replaced after it signed.
THEOREM HashBinds ==
    ASSUME NEW op, NEW terms, Hashable(op), NEW twin, NEW itsTerms, Hashable(twin),
           paymasterHash(op, terms) = paymasterHash(twin, itsTerms)
    PROVE  /\ op.sender = twin.sender /\ op.callData = twin.callData /\ terms = itsTerms
           /\ op.gas.verificationGasLimit = twin.gas.verificationGasLimit
           /\ op.gas.callGasLimit = twin.gas.callGasLimit
           /\ op.gas.paymasterVerificationGasLimit = twin.gas.paymasterVerificationGasLimit
           /\ op.gas.paymasterPostOpGasLimit = twin.gas.paymasterPostOpGasLimit
           /\ op.gas.preVerificationGas = twin.gas.preVerificationGas
           /\ op.maxPriorityFeePerGas = twin.maxPriorityFeePerGas
           /\ op.maxFeePerGas = twin.maxFeePerGas
<1>1. /\ op.sender = twin.sender /\ op.callData = twin.callData /\ terms = itsTerms
      /\ op.gas.preVerificationGas = twin.gas.preVerificationGas
      /\ packHighLow(op.gas.verificationGasLimit, op.gas.callGasLimit)
           = packHighLow(twin.gas.verificationGasLimit, twin.gas.callGasLimit)
      /\ packHighLow(op.gas.paymasterVerificationGasLimit, op.gas.paymasterPostOpGasLimit)
           = packHighLow(twin.gas.paymasterVerificationGasLimit, twin.gas.paymasterPostOpGasLimit)
      /\ packHighLow(op.maxPriorityFeePerGas, op.maxFeePerGas)
           = packHighLow(twin.maxPriorityFeePerGas, twin.maxFeePerGas)
  BY DEF paymasterHash
<1>2. /\ packable(op.gas.verificationGasLimit, op.gas.callGasLimit)
      /\ packable(twin.gas.verificationGasLimit, twin.gas.callGasLimit)
      /\ packable(op.gas.paymasterVerificationGasLimit, op.gas.paymasterPostOpGasLimit)
      /\ packable(twin.gas.paymasterVerificationGasLimit, twin.gas.paymasterPostOpGasLimit)
      /\ packable(op.maxPriorityFeePerGas, op.maxFeePerGas)
      /\ packable(twin.maxPriorityFeePerGas, twin.maxFeePerGas)
  BY DEF Hashable
<1>3. /\ op.gas.verificationGasLimit = twin.gas.verificationGasLimit
      /\ op.gas.callGasLimit = twin.gas.callGasLimit
  BY <1>1, <1>2, HalvesBound
<1>4. /\ op.gas.paymasterVerificationGasLimit = twin.gas.paymasterVerificationGasLimit
      /\ op.gas.paymasterPostOpGasLimit = twin.gas.paymasterPostOpGasLimit
  BY <1>1, <1>2, HalvesBound
<1>5. op.maxPriorityFeePerGas = twin.maxPriorityFeePerGas /\ op.maxFeePerGas = twin.maxFeePerGas
  BY <1>1, <1>2, HalvesBound
<1> QED
  BY <1>1, <1>3, <1>4, <1>5

-----------------------------------------------------------------------------
(* The search for the withdrawal that pays.                                 *)

\* Whatever the search accepts takes one note, with the call it found: a call it did not
\* take for a withdrawal is none of a served pool (validate.ts findSponsoringWithdraw).
THEOREM SearchIsSound ==
    ASSUME NEW calls, NEW rewardAccount, NEW sender,
           findSponsoringWithdraw(calls, rewardAccount, sender) # {}
    PROVE  PaysOnce(calls, rewardAccount, sender)
<1>1. PICK i \in DOMAIN calls :
        /\ Relayed(calls[i])
        /\ decodeTornadoWithdraws(calls) = {i}
        /\ calls[i].withdraw.relayer = rewardAccount
        /\ calls[i].withdraw.recipient = sender
        /\ calls[i].withdraw.instance \in Instances
  BY DEF findSponsoringWithdraw
<1>2. TakesNote(calls[i], sender)
  BY <1>1 DEF TakesNote
<1>3. ASSUME NEW k \in DOMAIN calls, TakesNote(calls[k], sender)
      PROVE  k = i
  <2>1. Relayed(calls[k]) \/ Direct(calls[k])
    BY <1>3, RulesAssumption DEF TakesNote, Direct
  <2>2. k \in decodeTornadoWithdraws(calls)
    BY <2>1 DEF decodeTornadoWithdraws
  <2> QED
    BY <1>1, <2>2
<1>4. {k \in DOMAIN calls : TakesNote(calls[k], sender)} = {i}
  BY <1>2, <1>3
<1> QED
  BY <1>1, <1>4 DEF PaysOnce

-----------------------------------------------------------------------------
(* What a signature is for.                                                 *)

Sponsored(s) ==
    /\ s = [op |-> s.op, terms |-> s.terms, hash |-> s.hash, status |-> s.status]
    /\ s.hash = paymasterHash(s.op, s.terms) /\ Hashable(s.op)
    /\ s.terms.senderImplementation \in AllowedImplementations

\* An operation without a reason against it.
LEMMA Signed ==
    ASSUME NEW op, sign(op) = {}
    PROVE  /\ Sponsored(Sponsorship(op))
           /\ Sponsorship(op).op = op /\ Sponsorship(op).status = "signed"
           /\ findSponsoringWithdraw(decodeAccountCalls(op.callData), config.rewardAccount, Sender) # {}
<1> DEFINE w == CHOOSE w \in Sponsoring(op) : TRUE
           t == [fee |-> w.fee, withdrawalHash |-> w,
                 senderImplementation |-> resolveSenderImplementation(op)]
<1>1. \A why \in Reasons : ~Refused(op, why)
  BY DEF sign
<1>2. ~Refused(op, "rules") /\ ~Refused(op, "implementation") /\ ~Refused(op, "words")
  BY <1>1 DEF Reasons
<1>3. Sponsoring(op) # {}
  BY <1>2 DEF Refused
<1>4. /\ resolveSenderImplementation(op) \in AllowedImplementations
      /\ Hashable(op)
  BY <1>2, <1>3 DEF Refused
<1>5. /\ Sponsorship(op) =
            [op |-> op, terms |-> t, hash |-> paymasterHash(op, t), status |-> "signed"]
      /\ t.senderImplementation = resolveSenderImplementation(op)
  BY DEF Sponsorship
<1> HIDE DEF t
<1>6. findSponsoringWithdraw(decodeAccountCalls(op.callData), config.rewardAccount, Sender) # {}
  BY <1>3 DEF Sponsoring
<1> QED
  BY <1>4, <1>5, <1>6 DEF Sponsored

LEMMA StatusChanges ==
    ASSUME NEW s, Sponsored(s), NEW new
    PROVE  LET t == [s EXCEPT !.status = new]
           IN Sponsored(t) /\ t.op = s.op /\ t.status = new
BY DEF Sponsored

-----------------------------------------------------------------------------
(* Figures are numbers.                                                     *)

Figures(q) ==
    q.fee \in 0 .. Denomination - 1 /\ q.gas \in GasLimits /\ q.maxFeePerGas \in Nat

LEMMA ScaledNat ==
    ASSUME NEW x \in Nat, NEW bps \in Nat
    PROVE  (x * bps) \div Bps \in Nat
<1>1. x * bps \in Nat
  BY TimesMonotone
<1> QED
  BY <1>1, Division, FeeAssumption

LEMMA MinimumNat ==
    ASSUME NEW prefund \in Nat, NEW serviceFee \in Nat, NEW r \in Nat
    PROVE  minimumFee(prefund, serviceFee, r) \in Nat
<1>1. WithMargin(prefund) \in Nat
  BY ScaledNat, FeeAssumption DEF WithMargin
<1>2. WithMargin(prefund) * r \in Nat
  BY <1>1, TimesMonotone
<1>3. WithMargin(prefund) * r + RateScale - 1 \in Nat
  BY <1>2, FeeAssumption
<1>4. CeilDiv(WithMargin(prefund) * r, RateScale) \in Nat
  BY <1>3, Division, FeeAssumption DEF CeilDiv
<1> QED
  BY <1>1, <1>4 DEF minimumFee

LEMMA BumpNat ==
    ASSUME NEW x \in Nat, NEW bps \in Nat
    PROVE  Bump(x, bps) \in Nat
<1>1. Bps + bps \in Nat
  BY FeeAssumption
<1> QED
  BY <1>1, ScaledNat DEF Bump

LEMMA CeilingsTyped == withTailCalls(DEFAULT_GAS) \in GasLimits
<1> USE FlowAssumption DEF GasLimits
<1>1. DEFAULT_GAS.callGasLimit + TailCallsGas
        + (IF IsToken THEN ERC20_WITHDRAW_EXTRA_GAS ELSE 0) \in Nat
  OBVIOUS
<1> QED
  BY <1>1 DEF withTailCalls

LEMMA RaisedTyped ==
    ASSUME NEW estimate \in Needs, NEW quoted \in GasLimits
    PROVE  RaisedLimits(estimate, quoted) \in GasLimits
<1> DEFINE Of(f) == IF f \in DOMAIN estimate THEN estimate[f] ELSE 0
<1>1. \A f : Of(f) \in Nat
  BY FlowAssumption
<1> HIDE DEF Of
<1>2. ASSUME NEW f
      PROVE  Bump(Of(f), 1500) \in Nat /\ Bump(Of(f), 1000) \in Nat /\ Bump(Of(f), 2000) \in Nat
  <2>1. PICK limit \in Nat : limit = Of(f)
    BY <1>1
  <2>2. \A bps \in Nat : Bump(limit, bps) \in Nat
    BY BumpNat
  <2>3. Bump(limit, 1500) \in Nat
    BY <2>2
  <2>4. Bump(limit, 1000) \in Nat
    BY <2>2
  <2>5. Bump(limit, 2000) \in Nat
    BY <2>2
  <2> QED
    BY <2>1, <2>3, <2>4, <2>5
<1>3. quoted.paymasterVerificationGasLimit \in Nat /\ quoted.paymasterPostOpGasLimit \in Nat
  BY DEF GasLimits
<1>4. /\ Greater(Bump(Of("paymasterVerificationGasLimit"), 1500), quoted.paymasterVerificationGasLimit) \in Nat
      /\ Greater(Bump(Of("paymasterPostOpGasLimit"), 2000), quoted.paymasterPostOpGasLimit) \in Nat
  BY <1>2, <1>3 DEF Greater
<1>5. RaisedLimits(estimate, quoted) =
        [callGasLimit |-> Bump(Of("callGasLimit"), 1500),
         verificationGasLimit |-> Bump(Of("verificationGasLimit"), 1500),
         preVerificationGas |-> Bump(Of("preVerificationGas"), 1000),
         paymasterVerificationGasLimit |->
            Greater(Bump(Of("paymasterVerificationGasLimit"), 1500), quoted.paymasterVerificationGasLimit),
         paymasterPostOpGasLimit |->
            Greater(Bump(Of("paymasterPostOpGasLimit"), 2000), quoted.paymasterPostOpGasLimit)]
  BY DEF RaisedLimits, Of
<1> QED
  BY <1>2, <1>4, <1>5 DEF GasLimits

\* The environment and the cache, of which the relayer's figures are made.
EnvTyped ==
    /\ config \in Configs /\ gasPrice \in GasPrices /\ rate \in Rates
    /\ cachedRate \in Rates \cup {None}

LEMMA PriceNat ==
    ASSUME EnvTyped
    PROVE  WithPriceMargin(gasPrice.maxFeePerGas) \in Nat /\ tokenPerEth \in Nat
<1>1. gasPrice.maxFeePerGas \in Nat /\ config.gasPriceMarginBps \in Nat
  BY FlowAssumption DEF EnvTyped
<1>2. tokenPerEth \in Nat
  BY FlowAssumption DEF EnvTyped, tokenPerEth
<1> QED
  BY <1>1, <1>2, ScaledNat DEF WithPriceMargin

LEMMA FeeNat ==
    ASSUME EnvTyped, NEW gas \in GasLimits, NEW price \in Nat
    PROVE  feeFor(gas, price) \in Nat
<1> DEFINE total == totalGas(gas)
           serviceFee == serviceFeeFor(Denomination, config.serviceFeeBps)
           r == IF IsToken THEN tokenPerEth ELSE 0
<1>1. total \in Nat
  BY DEF totalGas, GasLimits
<1>2. serviceFee \in Nat
  <2>1. config.serviceFeeBps \in Nat /\ Denomination \in Nat
    BY FlowAssumption DEF EnvTyped
  <2> QED
    BY <2>1, ScaledNat DEF serviceFeeFor
<1>3. r \in Nat
  BY PriceNat
<1>4. feeFor(gas, price) = minimumFee(total * price, serviceFee, r)
  BY DEF feeFor
<1> HIDE DEF total, serviceFee, r
<1>5. total * price \in Nat
  BY <1>1, TimesMonotone
<1> QED
  BY <1>2, <1>3, <1>4, <1>5, MinimumNat

LEMMA QuoteTyped ==
    ASSUME EnvTyped, NEW gas \in GasLimits, NEW price \in Nat, Quotable(quoteFor(gas, price))
    PROVE  Figures(quoteFor(gas, price))
<1> DEFINE q == quoteFor(gas, price)
<1>1. q.fee = feeFor(gas, price) /\ q.gas = gas /\ q.maxFeePerGas = price
  BY DEF quoteFor
<1>2. q.fee < Denomination
  BY DEF Quotable
<1> HIDE DEF q
<1>3. q.fee \in Nat /\ Denomination \in Nat
  BY <1>1, FeeNat, FlowAssumption
<1>4. Figures(q)
  BY <1>1, <1>2, <1>3 DEF Figures
<1> QED
  BY <1>4 DEF q

-----------------------------------------------------------------------------
(* The invariant.  Working figures are numbers of one quote, and a          *)
(* sponsorship was made of such figures, or of another caller's operation   *)
(* that the search accepted.                                                *)

QuoteInv ==
    /\ quote # None \/ pc \in {"estimating", "requoting", "sponsoring"} => Figures(quote)
    /\ pc \in {"estimating", "requoting", "sponsoring"} => proof.fee = quote.fee
    /\ pc = "requoting" => limits.gas \in GasLimits

HeldInv ==
    held # None =>
        /\ Sponsored(held) /\ held.status \in {"signed", "sent", "settled"}
        /\ held.op.authorization # None => held.op.authorization.address = Implementation
        /\ held.op.gas \in GasLimits
        /\ held.op.callData.calls[1].withdraw.fee + held.op.callData.calls[2].value = Denomination

OtherInv ==
    other # None =>
        /\ pc = "closed"
        /\ Sponsored(other)
        /\ findSponsoringWithdraw(decodeAccountCalls(other.op.callData), config.rewardAccount, Sender) # {}

IInv == TypeOK /\ QuoteInv /\ HeldInv /\ OtherInv

LEMMA InitHolds == Init => IInv
<1> USE DEF Init
<1>1. Init => TypeOK
  <2> SUFFICES ASSUME Init PROVE TypeOK
    OBVIOUS
  <2>1. moves \in 0 .. MaxMoves /\ deposits \in 1 .. 1 + moves /\ leaves \in 0 .. deposits
    BY FlowAssumption
  <2>2. /\ code \in [implementation : {None, Implementation, Foreign}, nonce : Nat]
        /\ standing \in PaymasterStandings
    BY FlowAssumption
  <2> QED
    BY <2>1, <2>2 DEF TypeOK
<1>2. Init => QuoteInv /\ HeldInv /\ OtherInv
  BY DEF QuoteInv, HeldInv, OtherInv
<1> QED
  BY <1>1, <1>2 DEF IInv

\* A sponsorship of the client's own operation.
LEMMA ClientSponsored ==
    ASSUME QuoteInv, pc = "sponsoring",
           LET op == Operation(buildCalls(proof, quote.fee), quote)
           IN sign(op) = {} /\ held' = Sponsorship(op)
    PROVE  HeldInv'
<1> DEFINE calls == buildCalls(proof, quote.fee)
           op == Operation(calls, quote)
<1>1. Sponsored(held') /\ held'.op = op /\ held'.status = "signed"
  BY Signed
<1>2. /\ op.authorization # None => op.authorization.address = Implementation
      /\ op.callData.calls = calls /\ op.gas = quote.gas
  BY DEF Operation
<1>3. calls[1].withdraw.fee = proof.fee /\ calls[2].value = Denomination - quote.fee
  BY DEF buildCalls
<1>4. proof.fee = quote.fee /\ quote.fee \in Nat /\ Denomination \in Nat /\ quote.gas \in GasLimits
  BY FlowAssumption DEF QuoteInv, Figures
<1> HIDE DEF calls, op
<1>5. calls[1].withdraw.fee + calls[2].value = Denomination
  BY <1>3, <1>4
<1> QED
  BY <1>1, <1>2, <1>4, <1>5 DEF HeldInv

LEMMA HeldChangesStatus ==
    ASSUME HeldInv, held # None, NEW new \in {"sent", "settled"},
           held' = [held EXCEPT !.status = new]
    PROVE  HeldInv'
<1>1. Sponsored(held') /\ held'.op = held.op /\ held'.status = new
  BY StatusChanges DEF HeldInv
<1> QED
  BY <1>1 DEF HeldInv

\* Every step keeps what is known of the sponsorship that is live.
LEMMA HeldStep ==
    ASSUME IInv, [Next]_vars
    PROVE  HeldInv'
<1>1. CASE UNCHANGED held \/ held' = None
  BY <1>1 DEF IInv, HeldInv
<1>2. CASE sponsoredWithdraw
  <2>1. Start \/ CheckRoot \/ Estimate => UNCHANGED held
    BY DEF Start, CheckRoot, Estimate, Quiet
  <2>2. QuoteAndProve \/ Requote \/ Waited => UNCHANGED held
    BY DEF QuoteAndProve, Requote, Waited, TakeQuote
  <2>3. CASE RequestSponsorship
    BY <1>1, <2>3, ClientSponsored DEF RequestSponsorship, At, IInv
  <2>4. CASE Send
    BY <1>1, <2>4, HeldChangesStatus DEF Send, IInv
  <2> QED
    BY <1>1, <1>2, <2>1, <2>2, <2>3, <2>4 DEF sponsoredWithdraw
<1>3. CASE Land
  BY <1>3, HeldChangesStatus DEF Land, IInv
<1>4. Expire => held' = None
  BY DEF Expire
<1>5. ExpirePrice \/ EnvironmentMoves \/ Redelegate \/ Restart \/ ClientFails \/ OtherCaller
        => UNCHANGED held
  BY DEF ExpirePrice, EnvironmentMoves, Redelegate, Restart, ClientFails, OtherCaller,
         MoveElsewhere, Move
<1>6. UNCHANGED vars => UNCHANGED held
  BY DEF vars
<1> QED
  BY <1>1, <1>2, <1>3, <1>4, <1>5, <1>6 DEF Next

\* Once another caller has been answered nothing moves its sponsorship, or the
\* configuration it was made under.
LEMMA OtherStep ==
    ASSUME IInv, [Next]_vars
    PROVE  OtherInv'
<1>1. CASE UNCHANGED other /\ other = None
  BY <1>1 DEF OtherInv
<1>2. CASE UNCHANGED <<other, pc, config>>
  BY <1>2 DEF OtherInv, IInv
<1>3. sponsoredWithdraw => UNCHANGED other /\ pc # "closed"
  BY DEF sponsoredWithdraw, Start, CheckRoot, QuoteAndProve, Estimate, Requote,
         RequestSponsorship, Send, Waited, At
<1>4. Land \/ Expire \/ ExpirePrice => UNCHANGED <<other, pc, config>>
  BY DEF Land, Expire, ExpirePrice, env
<1>5. EnvironmentMoves \/ Redelegate \/ Restart \/ ClientFails => UNCHANGED other /\ pc # "closed"
  BY DEF EnvironmentMoves, Redelegate, Restart, ClientFails, MoveElsewhere, Move
<1>6. CASE OtherCaller
  <2>1. PICK op : sign(op) = {} /\ other' = Sponsorship(op)
    BY <1>6 DEF OtherCaller
  <2>2. UNCHANGED config /\ pc' = "closed"
    BY <1>6 DEF OtherCaller, env
  <2> QED
    BY <2>1, <2>2, Signed DEF OtherInv
<1>7. UNCHANGED vars => UNCHANGED <<other, pc, config>>
  BY DEF vars, env
<1> QED
  BY <1>1, <1>2, <1>3, <1>4, <1>5, <1>6, <1>7 DEF Next, IInv, OtherInv

LEMMA EnvKnown == TypeOK => EnvTyped
BY DEF TypeOK, EnvTyped

\* A step that does not touch a figure, or forgets them all, leaves nothing to show.
LEMMA QuoteKept ==
    ASSUME QuoteInv,
           \/ Throw
           \/ UNCHANGED figures /\ (pc' = pc \/ pc' \notin {"estimating", "requoting", "sponsoring"})
    PROVE  QuoteInv'
<1>1. CASE Throw
  BY <1>1 DEF Throw, Goto, Forget, QuoteInv
<1>2. CASE UNCHANGED figures /\ (pc' = pc \/ pc' \notin {"estimating", "requoting", "sponsoring"})
  <2>1. quote' = quote /\ proof' = proof /\ limits' = limits
    BY <1>2 DEF figures
  <2> QED
    BY <1>2, <2>1 DEF QuoteInv
<1> QED
  BY <1>1, <1>2

\* The proof that is kept, or made again, names the fee of the new quote.
LEMMA ProofNamesFee ==
    ASSUME NEW q, proof.fee = quote.fee
    PROVE  prove(q).fee = q.fee /\ ProofAfter(q).fee = q.fee
BY DEF prove, ProofAfter

LEMMA FirstQuote ==
    ASSUME IInv, QuoteAndProve
    PROVE  QuoteInv'
<1> DEFINE q == quoteFor(withTailCalls(DEFAULT_GAS), WithPriceMargin(gasPrice.maxFeePerGas))
<1>1. CASE Quotable(q)
  <2>1. Figures(q)
    BY <1>1, EnvKnown, PriceNat, CeilingsTyped, QuoteTyped DEF IInv
  <2>2. prove(q).fee = q.fee
    BY DEF prove
  <2> HIDE DEF q
  <2>3. /\ quote' = q /\ proof' = prove(q)
        /\ pc' \in {"sponsoring", "estimating"}
    BY <1>1 DEF QuoteAndProve, q, TakeQuote, Goto
  <2> QED
    BY <2>1, <2>2, <2>3 DEF QuoteInv
<1>2. CASE ~Quotable(q)
  BY <1>2, QuoteKept DEF QuoteAndProve, IInv
<1> QED
  BY <1>1, <1>2

LEMMA SecondQuote ==
    ASSUME IInv, Requote
    PROVE  QuoteInv'
<1> DEFINE q == quoteFor(limits.gas, quote.maxFeePerGas)
<1>1. CASE Quotable(q)
  <2>1. /\ limits.gas \in GasLimits /\ quote.maxFeePerGas \in Nat
        /\ proof.fee = quote.fee
    BY DEF Requote, At, IInv, QuoteInv, Figures
  <2>2. Figures(q)
    BY <1>1, <2>1, EnvKnown, QuoteTyped DEF IInv
  <2>3. ProofAfter(q).fee = q.fee
    BY <2>1, ProofNamesFee
  <2> HIDE DEF q
  <2>4. quote' = q /\ proof' = ProofAfter(q) /\ pc' = "sponsoring"
    BY <1>1 DEF Requote, q, TakeQuote, Goto
  <2> QED
    BY <2>2, <2>3, <2>4 DEF QuoteInv
<1>2. CASE ~Quotable(q)
  BY <1>2, QuoteKept DEF Requote, IInv
<1> QED
  BY <1>1, <1>2

LEMMA QuoteStep ==
    ASSUME IInv, [Next]_vars
    PROVE  QuoteInv'
<1>1. CASE Start
  BY <1>1 DEF Start, Goto, IInv, QuoteInv
<1>2. CheckRoot \/ RequestSponsorship \/ Send \/ ClientFails \/ Waited
        => Throw \/ (UNCHANGED figures /\ pc' \notin {"estimating", "requoting", "sponsoring"})
           \/ (Forget /\ pc' \in {"done", "idle"})
  BY DEF CheckRoot, RequestSponsorship, Send, ClientFails, Waited, Goto
<1>3. CASE Forget /\ pc' \in {"done", "idle"}
  BY <1>3 DEF Forget, QuoteInv
<1>4. CASE Estimate
  <2>1. CASE Throw
    BY <2>1, QuoteKept DEF IInv
  <2>2. CASE ~Throw
    <3>1. /\ limits' = [estimate |-> need, gas |-> RaisedLimits(need, quote.gas)]
          /\ pc' = "requoting" /\ UNCHANGED <<quote, proof>> /\ pc = "estimating"
      BY <1>4, <2>2 DEF Estimate, At, Goto
    <3>2. need \in Needs /\ quote.gas \in GasLimits
      BY <3>1 DEF IInv, TypeOK, QuoteInv, Figures
    <3>3. RaisedLimits(need, quote.gas) \in GasLimits
      BY <3>2, RaisedTyped
    <3> QED
      BY <3>1, <3>3 DEF IInv, QuoteInv
  <2> QED
    BY <2>1, <2>2
<1>5. Land \/ Expire \/ ExpirePrice \/ EnvironmentMoves \/ Redelegate \/ Restart
        => UNCHANGED figures /\ pc' = pc
  BY DEF Land, Expire, ExpirePrice, EnvironmentMoves, Redelegate, Restart, MoveElsewhere
<1>6. OtherCaller => UNCHANGED figures /\ pc' = "closed"
  BY DEF OtherCaller
<1>7. UNCHANGED vars => UNCHANGED figures /\ pc' = pc
  BY DEF vars
<1> QED
  BY <1>1, <1>2, <1>3, <1>4, <1>5, <1>6, <1>7, FirstQuote, SecondQuote, QuoteKept
     DEF IInv, Next, sponsoredWithdraw

-----------------------------------------------------------------------------
(* Types.                                                                   *)

\* The client leaves the world as it is, and counts leaves it has seen.
LEMMA ClientTypes ==
    ASSUME IInv, sponsoredWithdraw
    PROVE  /\ UNCHANGED <<env, code, spent, moves, skipEstimation>>
           /\ leaves' \in 0 .. deposits
           /\ cachedRate' \in Rates \cup {None}
           /\ delegated' \in BOOLEAN
           /\ receipt' \in {None, "success", "failed"}
           /\ pc' \in {"idle", "checking", "quoting", "estimating", "requoting", "sponsoring",
                       "sending", "waiting", "done", "closed"}
<1> USE DEF IInv, TypeOK
<1>1. UNCHANGED <<env, code, spent, moves, skipEstimation>>
  BY DEF sponsoredWithdraw, Start, CheckRoot, QuoteAndProve, Estimate, Requote,
         RequestSponsorship, Send, Waited, At
<1>2. Priced => cachedRate' \in Rates \cup {None}
  BY DEF Priced, tokenPerEth
<1>3. cachedRate' \in Rates \cup {None}
  BY <1>2 DEF sponsoredWithdraw, Start, CheckRoot, QuoteAndProve, Estimate, Requote,
         RequestSponsorship, Send, Waited, At, Quiet, TakeQuote
<1>4. receipt' \in {None, "success", "failed"}
  BY DEF sponsoredWithdraw, Start, CheckRoot, QuoteAndProve, Estimate, Requote,
         RequestSponsorship, Send, Waited, Quiet, TakeQuote
<1>5. 0 \in 0 .. deposits /\ deposits \in 0 .. deposits
  OBVIOUS
<1>6. leaves' \in 0 .. deposits /\ delegated' \in BOOLEAN
  BY <1>5 DEF sponsoredWithdraw, Start, CheckRoot, QuoteAndProve, Estimate, Requote,
         RequestSponsorship, Send, Waited, Throw, Forget, figures
<1>7. pc' \in {"idle", "checking", "quoting", "estimating", "requoting", "sponsoring",
               "sending", "waiting", "done", "closed"}
  BY DEF sponsoredWithdraw, Start, CheckRoot, QuoteAndProve, Estimate, Requote,
         RequestSponsorship, Send, Waited, Throw, Goto
<1> QED
  BY <1>1, <1>3, <1>4, <1>6, <1>7

\* What a failed operation costs leaves a number.
LEMMA ChargeTyped ==
    ASSUME NEW op, Hashable(op), op.gas \in GasLimits, standing \in PaymasterStandings
    PROVE  AfterCharge(op) \in PaymasterStandings
<1>1. maxGasCostWei(op.gas, op.maxFeePerGas) \in Nat
  <2>1. totalGas(op.gas) \in Nat /\ op.maxFeePerGas \in Nat
    BY HashAssumption DEF Hashable, packable, totalGas, GasLimits
  <2> QED
    BY <2>1, TimesMonotone DEF maxGasCostWei
<1> QED
  BY <1>1 DEF AfterCharge, PaymasterStandings

\* An operation that lands delegates the account to nothing but the client's implementation.
LEMMA LandTypes ==
    ASSUME IInv, Land
    PROVE  /\ code' \in [implementation : {None, Implementation, Foreign}, nonce : Nat]
           /\ spent' \subseteq {Note}
           /\ receipt' \in {None, "success", "failed"} /\ standing' \in PaymasterStandings
           /\ UNCHANGED <<config, gasPrice, rate, need, deposits, moves, cachedRate,
                          skipEstimation, pc, figures>>
<1>1. Authorized(held.op.authorization) \in
        [implementation : {None, Implementation, Foreign}, nonce : Nat]
  BY DEF Land, IInv, TypeOK, HeldInv, Authorized
<1>2. code' \in {code, Authorized(held.op.authorization)}
  BY DEF Land
<1>3. standing' \in {standing, AfterCharge(held.op)}
  BY DEF Land
<1>4. AfterCharge(held.op) \in PaymasterStandings
  BY ChargeTyped DEF Land, IInv, HeldInv, Sponsored, TypeOK
<1> QED
  BY <1>1, <1>2, <1>3, <1>4 DEF Land, IInv, TypeOK

LEMMA MoveTypes ==
    ASSUME IInv, EnvironmentMoves \/ Redelegate \/ Restart \/ ClientFails
    PROVE  /\ config' \in Configs /\ gasPrice' \in GasPrices /\ rate' \in Rates /\ need' \in Needs
           /\ deposits' \in 1 .. 1 + moves' /\ leaves' \in 0 .. deposits'
           /\ moves' \in 0 .. MaxMoves
           /\ code' \in [implementation : {None, Implementation, Foreign}, nonce : Nat]
           /\ spent' \subseteq {Note}
           /\ cachedRate' \in Rates \cup {None} /\ standing' \in PaymasterStandings
           /\ receipt' \in {None, "success", "failed"} /\ delegated' \in BOOLEAN
           /\ pc' \in {pc, "idle"}
           /\ UNCHANGED skipEstimation
<1> USE DEF IInv, TypeOK
<1>1. moves < MaxMoves /\ moves' = moves + 1 /\ UNCHANGED skipEstimation
  BY DEF EnvironmentMoves, Redelegate, Restart, ClientFails, MoveElsewhere, Move
<1>2. moves' \in 0 .. MaxMoves
  BY <1>1, FlowAssumption
<1>3. /\ config' \in Configs /\ gasPrice' \in GasPrices /\ rate' \in Rates /\ need' \in Needs
      /\ spent' \subseteq {Note} /\ cachedRate' \in Rates \cup {None}
  BY DEF EnvironmentMoves, Redelegate, Restart, ClientFails, env
<1>4. deposits' \in {deposits, deposits + 1}
  BY DEF EnvironmentMoves, Redelegate, Restart, ClientFails, env
<1>5. leaves' \in {leaves, 0} /\ delegated' \in {delegated, FALSE}
      /\ receipt' \in {receipt, None} /\ pc' \in {pc, "idle"}
  BY DEF EnvironmentMoves, Redelegate, Restart, ClientFails, MoveElsewhere, Throw, Goto, Forget, figures
<1>6. deposits' \in 1 .. 1 + moves' /\ leaves' \in 0 .. deposits'
  BY <1>1, <1>4, <1>5
<1>7. code' \in [implementation : {None, Implementation, Foreign}, nonce : Nat]
  BY DEF EnvironmentMoves, Redelegate, Restart, ClientFails
<1>8. standing' \in PaymasterStandings
  BY FlowAssumption DEF EnvironmentMoves, Redelegate, Restart, ClientFails, env, PaymasterStandings
<1> QED
  BY <1>1, <1>2, <1>3, <1>5, <1>6, <1>7, <1>8

LEMMA TypeStep ==
    ASSUME IInv, [Next]_vars, QuoteInv', HeldInv'
    PROVE  TypeOK'
<1>1. /\ quote' # None => quote'.fee \in 0 .. Denomination - 1 /\ quote'.gas \in GasLimits
      /\ held' # None => held'.status \in {"signed", "sent", "settled"}
  BY DEF QuoteInv, HeldInv, Figures
<1>2. CASE sponsoredWithdraw
  BY <1>1, <1>2, ClientTypes DEF TypeOK, IInv, env
<1>3. CASE Land
  BY <1>1, <1>3, LandTypes DEF TypeOK, IInv, env, figures
<1>4. CASE EnvironmentMoves \/ Redelegate \/ Restart \/ ClientFails
  BY <1>1, <1>4, MoveTypes DEF TypeOK, IInv
<1>5. CASE Expire \/ ExpirePrice \/ OtherCaller
  <2>1. UNCHANGED <<env, code, spent, moves, skipEstimation, figures, receipt>>
    BY <1>5 DEF Expire, ExpirePrice, OtherCaller
  <2>2. cachedRate' \in Rates \cup {None} /\ pc' \in {pc, "closed"}
    BY <1>5 DEF Expire, ExpirePrice, OtherCaller, IInv, TypeOK
  <2> QED
    BY <1>1, <2>1, <2>2 DEF TypeOK, IInv, env, figures
<1>6. CASE UNCHANGED vars
  BY <1>6 DEF TypeOK, IInv, vars, env, figures
<1> QED
  BY <1>2, <1>3, <1>4, <1>5, <1>6 DEF Next

-----------------------------------------------------------------------------
(* What follows.                                                            *)

LEMMA Preserved == IInv /\ [Next]_vars => IInv'
<1> SUFFICES ASSUME IInv, [Next]_vars PROVE IInv'
  OBVIOUS
<1>1. QuoteInv' /\ HeldInv' /\ OtherInv'
  BY QuoteStep, HeldStep, OtherStep
<1>2. TypeOK'
  BY <1>1, TypeStep
<1> QED
  BY <1>1, <1>2 DEF IInv

\* The inductive invariant.
THEOREM FlowInvariant == Spec => []IInv
BY InitHolds, Preserved, PTL DEF Spec

\* Type correctness; in particular every quote leaves something of the note.
THEOREM FlowTypes == Spec => []TypeOK
<1>1. IInv => TypeOK
  BY DEF IInv
<1> QED
  BY <1>1, FlowInvariant, PTL

\* Fee and tail call of everything the relayer has signed for the client add up to the
\* note, for all prices and estimates (flow.ts, step 4).
THEOREM TailCallsCovered == Spec => []TailCallsSpendWhatArrives
<1>1. IInv => TailCallsSpendWhatArrives
  BY DEF IInv, HeldInv, TailCallsSpendWhatArrives
<1> QED
  BY <1>1, FlowInvariant, PTL

\* Whatever batch another caller sends, what is sponsored takes one note and pays for it
\* (validate.ts).
THEOREM OthersPayOnce == Spec => []SponsoredPaysOnce
<1>1. IInv => SponsoredPaysOnce
  BY SearchIsSound DEF IInv, OtherInv, SponsoredPaysOnce
<1> QED
  BY <1>1, FlowInvariant, PTL

\* Every signature is over the hash the paymaster computes, in either form a bundler may
\* give the operation, and of the limits the EntryPoint reads (userop.ts, getHash).
THEOREM SignaturesHold == Spec => []SignatureHolds
<1>1. ASSUME NEW s, Sponsored(s), NEW initCode \in InitCodes(s.op)
      PROVE  /\ getHash(PackedUserOperation(s.op, initCode), s.terms, s.terms.senderImplementation) = s.hash
             /\ unpackUints(PackedUserOperation(s.op, initCode)) =
                  << s.op.gas.verificationGasLimit, s.op.gas.callGasLimit,
                     s.op.gas.paymasterVerificationGasLimit, s.op.gas.paymasterPostOpGasLimit,
                     s.op.maxPriorityFeePerGas, s.op.maxFeePerGas >>
  <2>1. s.hash = paymasterHash(s.op, s.terms) /\ Hashable(s.op)
    BY <1>1 DEF Sponsored
  <2> QED
    BY <2>1, HashAgrees, LimitsRead
<1>2. IInv => \A s \in {held, other} \ {None} : Sponsored(s)
  BY DEF IInv, HeldInv, OtherInv
<1>3. IInv => SignatureHolds
  BY <1>1, <1>2 DEF SignatureHolds
<1> QED
  BY <1>3, FlowInvariant, PTL

\* A note only leaves through code the relayer approved, whatever the owner has put under
\* the account since (validatePaymasterUserOp).
THEOREM ApprovedCodeOnly == Spec => ApprovedCodeRuns
<1>1. ASSUME IInv, Land, spent' # spent
      PROVE  code'.implementation \in AllowedImplementations
  <2>1. held # None
    BY <1>1 DEF Land
  <2>2. held.terms.senderImplementation \in AllowedImplementations
    BY <1>1, <2>1 DEF IInv, HeldInv, Sponsored
  <2>3. /\ code' = Authorized(held.op.authorization)
        /\ delegatedTo(code'.implementation, held.terms.senderImplementation)
    BY <1>1 DEF Land, validatePaymasterUserOp
  <2> QED
    BY <2>2, <2>3 DEF delegatedTo
<1>2. IInv /\ [Next]_vars =>
        [Land /\ spent' # spent => code'.implementation \in AllowedImplementations]_vars
  BY <1>1
<1> QED
  BY <1>2, FlowInvariant, PTL DEF Spec, ApprovedCodeRuns

-----------------------------------------------------------------------------
(* Why a client is refused.  Its quote is that of one configuration, its    *)
(* limits are the ceilings or raised from one estimate, and its proof names *)
(* the quote's fee.                                                         *)

Ceilings == withTailCalls(DEFAULT_GAS)

FitWords(gas) ==
    /\ gas.callGasLimit < Word /\ gas.verificationGasLimit < Word
    /\ gas.paymasterVerificationGasLimit < Word /\ gas.paymasterPostOpGasLimit < Word

\* What the client may ask for fits into 128 bits: the ceilings, every estimate of a bundler
\* raised, and every price per gas with its margin.
WordsSuffice ==
    /\ FitWords(Ceilings) /\ \A n \in Needs : FitWords(RaisedLimits(n, Ceilings))
    /\ \A c \in Configs, p \in GasPrices : (p.maxFeePerGas * c.gasPriceMarginBps) \div Bps < Word

Quoted == {"estimating", "requoting", "sponsoring"}

\* The proof of a quote, whichever relayer it names.
ProofOf(root, relayer, fee) ==
    [instance |-> Pool, nullifierHash |-> Note, root |-> root, recipient |-> Sender,
     relayer |-> relayer, fee |-> fee]

FeeUnder(c, gas, price, r) ==
    minimumFee(totalGas(gas) * price, serviceFeeFor(Denomination, c.serviceFeeBps),
               IF IsToken THEN r ELSE 0)

QuotedUnder(q, c) ==
    /\ c \in Configs /\ q.relayer = c.rewardAccount
    /\ q.tokenPerEth \in Nat /\ q.fee = FeeUnder(c, q.gas, q.maxFeePerGas, q.tokenPerEth)
    /\ q.maxFeePerGas \in 0 .. Word - 1 /\ q.maxPriorityFeePerGas \in 0 .. q.maxFeePerGas

Raised(e) ==
    e.estimate \in Needs /\ e = [estimate |-> e.estimate, gas |-> RaisedLimits(e.estimate, Ceilings)]

ProofInv ==
    pc \in Quoted =>
        QuotedUnder(quote, quotedUnder.config) /\ proof = ProofOf(leaves, proof.relayer, quote.fee)

LimitsInv ==
    /\ pc \in {"idle", "checking", "quoting"} => limits = None
    /\ pc = "estimating" => quote.gas = Ceilings
    /\ pc = "requoting" => Raised(limits)
    /\ pc = "sponsoring" =>
        \/ skipEstimation /\ quotedUnder.estimate = None /\ quote.gas = Ceilings
        \/ Raised(quotedUnder.estimate) /\ quote.gas = quotedUnder.estimate.gas

PriceInv == IsToken /\ cachedRate # None => cachedRate # 0

CauseInv == ProofInv /\ LimitsInv /\ PriceInv

\* Figures the step leaves alone, or forgets.
LEMMA CauseKept ==
    ASSUME IInv, CauseInv,
           \/ Forget /\ pc' \in {"idle", "done"}
           \/ /\ UNCHANGED <<figures, skipEstimation>>
              /\ \/ pc' = pc \/ pc' \in {"sending", "waiting", "closed"}
                 \/ pc = "checking" /\ pc' = "quoting"
    PROVE  ProofInv' /\ LimitsInv'
<1>1. CASE Forget /\ pc' \in {"idle", "done"}
  BY <1>1 DEF Forget, ProofInv, LimitsInv, Quoted
<1>2. CASE /\ UNCHANGED <<figures, skipEstimation>>
           /\ \/ pc' = pc \/ pc' \in {"sending", "waiting", "closed"}
              \/ pc = "checking" /\ pc' = "quoting"
  <2>1. UNCHANGED <<leaves, quote, proof, limits, quotedUnder, skipEstimation>>
    BY <1>2 DEF figures
  <2>2. ProofInv'
    BY <1>2, <2>1 DEF CauseInv, ProofInv, Quoted
  <2>3. LimitsInv'
    BY <1>2, <2>1 DEF CauseInv, LimitsInv
  <2> QED
    BY <2>2, <2>3
<1> QED
  BY <1>1, <1>2

\* A rate that is remembered is one.
LEMMA PriceKept ==
    ASSUME CauseInv, [Next]_vars
    PROVE  PriceInv'
<1>1. UNCHANGED cachedRate \/ cachedRate' = None => PriceInv'
  BY DEF CauseInv, PriceInv
<1>2. Priced => PriceInv'
  BY DEF Priced, rateFor, PriceInv
<1>3. CASE sponsoredWithdraw
  BY <1>1, <1>2, <1>3 DEF sponsoredWithdraw, Start, CheckRoot, QuoteAndProve, Estimate, Requote,
     RequestSponsorship, Send, Waited, Quiet, TakeQuote
<1>4. CASE ~sponsoredWithdraw
  BY <1>1, <1>4 DEF Next, Land, Expire, ExpirePrice, EnvironmentMoves, Redelegate, Restart,
     ClientFails, OtherCaller, MoveElsewhere, Move, vars
<1> QED
  BY <1>3, <1>4

\* A quote the relayer gives now is one under its configuration.
LEMMA QuoteNow ==
    ASSUME IInv, NEW gas, NEW price \in 0 .. Word - 1
    PROVE  /\ QuotedUnder(quoteFor(gas, price), config)
           /\ quoteFor(gas, price).gas = gas
<1> DEFINE q == quoteFor(gas, price)
           tip == WithPriceMargin(gasPrice.maxPriorityFeePerGas)
<1>1. /\ q.relayer = config.rewardAccount /\ q.gas = gas /\ q.maxFeePerGas = price
      /\ q.maxPriorityFeePerGas = Lesser(tip, price) /\ q.tokenPerEth = tokenPerEth
      /\ q.fee = feeFor(gas, price)
  BY DEF quoteFor
<1>2. EnvTyped
  BY EnvKnown DEF IInv
<1>3. tokenPerEth \in Nat
  BY <1>2, PriceNat
<1>4. tip \in Nat
  <2>1. gasPrice.maxPriorityFeePerGas \in Nat /\ config.gasPriceMarginBps \in Nat
    BY <1>2, FlowAssumption DEF EnvTyped
  <2> QED
    BY <2>1, ScaledNat DEF WithPriceMargin
<1> HIDE DEF tip
<1>5. Lesser(tip, price) \in 0 .. price
  BY <1>4, HashAssumption DEF Lesser
<1>6. feeFor(gas, price) = FeeUnder(config, gas, price, tokenPerEth)
  BY DEF feeFor, FeeUnder
<1> HIDE DEF q
<1>7. QuotedUnder(q, config)
  BY <1>1, <1>2, <1>3, <1>5, <1>6 DEF QuotedUnder, EnvTyped
<1> QED
  BY <1>1, <1>7 DEF q

LEMMA FirstCause ==
    ASSUME IInv, CauseInv, WordsSuffice, QuoteAndProve
    PROVE  ProofInv' /\ LimitsInv'
<1> DEFINE price == WithPriceMargin(gasPrice.maxFeePerGas)
           q == quoteFor(Ceilings, price)
<1>1. CASE Quotable(q)
  <2>1. price \in 0 .. Word - 1
    <3>1. price \in Nat
      BY EnvKnown, PriceNat DEF IInv
    <3>2. price < Word
      BY DEF WordsSuffice, WithPriceMargin, IInv, TypeOK
    <3> QED
      BY <3>1, <3>2, HashAssumption
  <2> HIDE DEF price
  <2>2. QuotedUnder(q, config) /\ q.gas = Ceilings
    BY <2>1, QuoteNow
  <2>3. prove(q) = ProofOf(leaves, q.relayer, q.fee)
    BY DEF prove, ProofOf
  <2> HIDE DEF q
  <2>4. /\ quote' = q /\ proof' = prove(q)
        /\ quotedUnder' = [config |-> config, estimate |-> limits]
        /\ pc' = IF skipEstimation THEN "sponsoring" ELSE "estimating"
        /\ UNCHANGED <<leaves, limits, skipEstimation>>
    BY <1>1 DEF QuoteAndProve, q, price, TakeQuote, Goto, At, Ceilings
  <2>5. limits = None
    BY DEF QuoteAndProve, At, CauseInv, LimitsInv
  <2>6. ProofInv'
    <3>1. proof' = ProofOf(leaves', proof'.relayer, quote'.fee)
      BY <2>3, <2>4 DEF ProofOf
    <3>2. QuotedUnder(quote', quotedUnder'.config)
      BY <2>2, <2>4
    <3> QED
      BY <3>1, <3>2 DEF ProofInv, Quoted, QuotedUnder, ProofOf, FeeUnder
  <2>7. LimitsInv'
    BY <2>2, <2>4, <2>5 DEF LimitsInv
  <2> QED
    BY <2>6, <2>7
<1>2. CASE ~Quotable(q)
  <2>1. Throw
    BY <1>2 DEF QuoteAndProve, Ceilings
  <2> QED
    BY <2>1, CauseKept DEF Throw, Goto
<1> QED
  BY <1>1, <1>2

LEMMA EstimateCause ==
    ASSUME IInv, CauseInv, Estimate
    PROVE  ProofInv' /\ LimitsInv'
<1>1. CASE Throw
  BY <1>1, CauseKept DEF Throw, Goto
<1>2. CASE ~Throw
  <2>1. /\ limits' = [estimate |-> need, gas |-> RaisedLimits(need, quote.gas)]
        /\ pc' = "requoting" /\ pc = "estimating"
        /\ UNCHANGED <<leaves, quote, proof, quotedUnder>>
    BY <1>2 DEF Estimate, At, Goto
  <2>2. quote.gas = Ceilings /\ need \in Needs
    BY <2>1 DEF CauseInv, LimitsInv, IInv, TypeOK
  <2>3. Raised(limits')
    BY <2>1, <2>2 DEF Raised
  <2>4. LimitsInv'
    BY <2>1, <2>3 DEF LimitsInv, Raised
  <2>5. ProofInv'
    BY <2>1 DEF CauseInv, ProofInv, Quoted
  <2> QED
    BY <2>4, <2>5
<1> QED
  BY <1>1, <1>2

LEMMA SecondCause ==
    ASSUME IInv, CauseInv, Requote
    PROVE  ProofInv' /\ LimitsInv'
<1> DEFINE q == quoteFor(limits.gas, quote.maxFeePerGas)
<1>1. CASE Quotable(q)
  <2>1. /\ quote.maxFeePerGas \in 0 .. Word - 1 /\ Raised(limits)
        /\ proof = ProofOf(leaves, proof.relayer, quote.fee)
    BY DEF Requote, At, CauseInv, ProofInv, LimitsInv, QuotedUnder, Quoted
  <2>2. QuotedUnder(q, config) /\ q.gas = limits.gas
    BY <2>1, QuoteNow
  <2> HIDE DEF q
  <2>3. ProofAfter(q) = ProofOf(leaves, ProofAfter(q).relayer, q.fee)
    <3>1. CASE q.fee # quote.fee
      BY <3>1 DEF ProofAfter, prove, ProofOf
    <3>2. CASE q.fee = quote.fee
      BY <2>1, <3>2 DEF ProofAfter
    <3> QED
      BY <3>1, <3>2
  <2>4. /\ quote' = q /\ proof' = ProofAfter(q)
        /\ quotedUnder' = [config |-> config, estimate |-> limits]
        /\ pc' = "sponsoring" /\ UNCHANGED <<leaves, limits>>
    BY <1>1 DEF Requote, q, TakeQuote, Goto
  <2>5. ProofInv'
    <3>1. proof' = ProofOf(leaves', proof'.relayer, quote'.fee)
      BY <2>3, <2>4
    <3>2. QuotedUnder(quote', quotedUnder'.config)
      BY <2>2, <2>4
    <3> QED
      BY <3>1, <3>2 DEF ProofInv, Quoted, QuotedUnder, ProofOf, FeeUnder
  <2>6. LimitsInv'
    <3>1. Raised(quotedUnder'.estimate) /\ quote'.gas = quotedUnder'.estimate.gas
      BY <2>1, <2>2, <2>4
    <3> QED
      BY <2>4, <3>1 DEF LimitsInv, Raised
  <2> QED
    BY <2>5, <2>6
<1>2. CASE ~Quotable(q)
  <2>1. Throw
    BY <1>2 DEF Requote
  <2> QED
    BY <2>1, CauseKept DEF Throw, Goto
<1> QED
  BY <1>1, <1>2

LEMMA CauseStep ==
    ASSUME IInv, CauseInv, WordsSuffice, [Next]_vars
    PROVE  CauseInv'
<1>1. CASE Start
  <2>1. pc = "idle" /\ pc' = "checking" /\ UNCHANGED limits
    BY <1>1 DEF Start, At, Goto
  <2> QED
    BY <2>1, PriceKept DEF CauseInv, ProofInv, LimitsInv, Quoted
<1>2. CASE CheckRoot \/ RequestSponsorship \/ Send \/ Waited
  <2>1. UNCHANGED skipEstimation
    BY <1>2 DEF CheckRoot, RequestSponsorship, Send, Waited, At
  <2>2. \/ Forget /\ pc' \in {"idle", "done"}
        \/ /\ UNCHANGED figures
           /\ pc' \in {"sending", "waiting"} \/ (pc = "checking" /\ pc' = "quoting")
    BY <1>2 DEF CheckRoot, RequestSponsorship, Send, Waited, Throw, Goto, At
  <2> QED
    BY <2>1, <2>2, CauseKept, PriceKept DEF CauseInv
<1>3. CASE Land \/ Expire \/ ExpirePrice \/ EnvironmentMoves \/ Redelegate \/ Restart \/ OtherCaller
           \/ UNCHANGED vars
  <2>1. UNCHANGED <<figures, skipEstimation>> /\ pc' \in {pc, "closed"}
    BY <1>3 DEF Land, Expire, ExpirePrice, EnvironmentMoves, Redelegate, Restart, MoveElsewhere,
       Move, OtherCaller, vars
  <2> QED
    BY <2>1, CauseKept, PriceKept DEF CauseInv
<1>4. CASE ClientFails
  <2>1. Forget /\ pc' = "idle"
    BY <1>4 DEF ClientFails, Throw, Goto
  <2> QED
    BY <2>1, CauseKept, PriceKept DEF CauseInv
<1> QED
  BY <1>1, <1>2, <1>3, <1>4, FirstCause, EstimateCause, SecondCause, PriceKept
     DEF CauseInv, Next, sponsoredWithdraw

LEMMA CauseInvHolds == ASSUME WordsSuffice PROVE Spec => [](IInv /\ CauseInv)
<1>1. Init => CauseInv
  BY DEF Init, CauseInv, ProofInv, LimitsInv, PriceInv, Quoted
<1>2. IInv /\ CauseInv /\ [Next]_vars => (IInv /\ CauseInv)'
  BY CauseStep, Preserved
<1> QED
  BY <1>1, <1>2, InitHolds, PTL DEF Spec

\* A rate that fell, at the same price per gas, asks for no more.
LEMMA MinimumMonotone ==
    ASSUME NEW prefund \in Nat, NEW serviceFee \in Nat, NEW r \in Nat \ {0}, NEW s \in Nat, r <= s
    PROVE  minimumFee(prefund, serviceFee, r) <= minimumFee(prefund, serviceFee, s)
<1> DEFINE m == WithMargin(prefund)
<1>1. m \in Nat
  BY ScaledNat, FeeAssumption DEF WithMargin
<1>2. /\ minimumFee(prefund, serviceFee, r) = CeilDiv(m * r, RateScale) + serviceFee
      /\ minimumFee(prefund, serviceFee, s) = CeilDiv(m * s, RateScale) + serviceFee
  BY DEF minimumFee
<1> HIDE DEF m
<1>3. r * m <= s * m /\ r * m \in Nat /\ s * m \in Nat
  BY <1>1, TimesMonotone
<1>4. m * r <= m * s /\ m * r \in Nat /\ m * s \in Nat
  BY <1>1, <1>3
<1> DEFINE low == m * r
           high == m * s
<1> HIDE DEF low, high
<1>5. (low + RateScale - 1) \div RateScale <= (high + RateScale - 1) \div RateScale
      /\ (low + RateScale - 1) \div RateScale \in Nat /\ (high + RateScale - 1) \div RateScale \in Nat
  <2>1. /\ low + RateScale - 1 \in Nat /\ high + RateScale - 1 \in Nat
        /\ low + RateScale - 1 <= high + RateScale - 1 /\ RateScale \in Nat \ {0}
    BY <1>4, FeeAssumption DEF low, high
  <2> QED
    BY <2>1, DivMonotone, Division
<1> QED
  BY <1>2, <1>5 DEF CeilDiv, low, high

\* The calls of the client's operation, and the one withdrawal the search can find in them.
LEMMA ClientCalls ==
    ASSUME NEW w, NEW fee, NEW q
    PROVE  LET op == Operation(buildCalls(w, fee), q)
           IN /\ decodeAccountCalls(op.callData) = buildCalls(w, fee)
              /\ Sponsoring(op) \subseteq {w}
              /\ op.gas = q.gas /\ op.maxFeePerGas = q.maxFeePerGas
              /\ op.maxPriorityFeePerGas = q.maxPriorityFeePerGas
              /\ w.relayer = config.rewardAccount /\ w.recipient = Sender /\ w.instance = Pool
                   => Sponsoring(op) # {}
<1> DEFINE calls == buildCalls(w, fee)
           op == Operation(calls, q)
<1>1. /\ DOMAIN calls = {1, 2}
      /\ calls[1].target = Paymaster /\ calls[1].function = "relayWithdraw"
      /\ calls[1].withdraw = w /\ calls[1].value = 0
      /\ calls[2].target = Elsewhere /\ calls[2].function = "transfer"
  BY DEF buildCalls
<1>2. /\ decodeAccountCalls(op.callData) = calls /\ op.gas = q.gas
      /\ op.maxFeePerGas = q.maxFeePerGas /\ op.maxPriorityFeePerGas = q.maxPriorityFeePerGas
  BY DEF Operation, decodeAccountCalls
<1> HIDE DEF calls, op
<1>3. Relayed(calls[1]) /\ ~Relayed(calls[2]) /\ ~Direct(calls[2])
  BY <1>1 DEF Relayed, Direct
<1>4. decodeTornadoWithdraws(calls) = {1}
  BY <1>1, <1>3 DEF decodeTornadoWithdraws
<1>5. Sponsoring(op) = {calls[i].withdraw : i \in findSponsoringWithdraw(calls, config.rewardAccount, Sender)}
  BY <1>2 DEF Sponsoring
<1>6. findSponsoringWithdraw(calls, config.rewardAccount, Sender) \subseteq {1}
  BY <1>1, <1>3 DEF findSponsoringWithdraw
<1>7. ASSUME w.relayer = config.rewardAccount, w.recipient = Sender, w.instance = Pool
      PROVE  1 \in findSponsoringWithdraw(calls, config.rewardAccount, Sender)
  <2>1. \A k \in DOMAIN calls : calls[k].target = Paymaster => Relayed(calls[k])
    BY <1>1, <1>3, FlowAssumption
  <2> QED
    BY <1>1, <1>3, <1>4, <1>7, <2>1, FlowAssumption DEF findSponsoringWithdraw
<1> QED
  BY <1>1, <1>2, <1>5, <1>6, <1>7 DEF calls, op

\* Raising a complete estimate leaves room for it.
LEMMA BumpCovers ==
    ASSUME NEW x \in Nat, NEW bps \in Nat
    PROVE  x <= Bump(x, bps)
<1>1. /\ Bps \in Nat \ {0} /\ Bps <= Bps + bps /\ Bps + bps \in Nat
  BY FeeAssumption
<1>2. Bps * x <= (Bps + bps) * x /\ Bps * x \in Nat /\ (Bps + bps) * x \in Nat
  BY <1>1, TimesMonotone
<1> DEFINE p == (Bps + bps) * x
           d == p \div Bps
<1>3. Bump(x, bps) = d
  BY <1>1 DEF Bump
<1>4. d \in Nat /\ p < Bps * d + Bps
  BY <1>1, <1>2, Division
<1>5. SUFFICES ASSUME d < x PROVE FALSE
  BY <1>3, <1>4
<1> HIDE DEF d
<1>6. (d + 1) * Bps <= x * Bps
  BY <1>1, <1>4, <1>5, TimesMonotone
<1>7. Bps * d + Bps = (d + 1) * Bps /\ x * Bps = Bps * x
  BY <1>1, <1>4
<1> HIDE DEF p
<1>8. (d + 1) * Bps \in Nat /\ x * Bps \in Nat
  BY <1>1, <1>4, TimesMonotone
<1>9. x * Bps <= p
  BY <1>1, <1>2, <1>7 DEF p
<1> QED
  BY <1>1, <1>2, <1>4, <1>6, <1>7, <1>8, <1>9 DEF p

LEMMA RaisedCovers ==
    ASSUME NEW estimate \in Needs, asGasEstimate(estimate)
    PROVE  Fits(estimate, RaisedLimits(estimate, Ceilings))
<1> DEFINE Of(f) == IF f \in DOMAIN estimate THEN estimate[f] ELSE 0
<1>1. /\ DOMAIN estimate = GasFields /\ \A f \in GasFields : estimate[f] \in Nat /\ Of(f) = estimate[f]
  BY FlowAssumption DEF asGasEstimate
<1>2. GasFields = {"callGasLimit", "verificationGasLimit", "preVerificationGas",
                   "paymasterVerificationGasLimit", "paymasterPostOpGasLimit"}
  BY FlowAssumption DEF GasFields, GasLimits
<1>3. RaisedLimits(estimate, Ceilings) =
        [callGasLimit |-> Bump(Of("callGasLimit"), 1500),
         verificationGasLimit |-> Bump(Of("verificationGasLimit"), 1500),
         preVerificationGas |-> Bump(Of("preVerificationGas"), 1000),
         paymasterVerificationGasLimit |->
            Greater(Bump(Of("paymasterVerificationGasLimit"), 1500), Ceilings.paymasterVerificationGasLimit),
         paymasterPostOpGasLimit |->
            Greater(Bump(Of("paymasterPostOpGasLimit"), 2000), Ceilings.paymasterPostOpGasLimit)]
  BY DEF RaisedLimits, Of
<1>4. Ceilings.paymasterVerificationGasLimit \in Nat /\ Ceilings.paymasterPostOpGasLimit \in Nat
  BY CeilingsTyped DEF Ceilings, GasLimits
<1> HIDE DEF Of
<1>5. ASSUME NEW f \in GasFields
      PROVE  /\ estimate[f] <= Bump(Of(f), 1500) /\ Bump(Of(f), 1500) \in Nat
             /\ estimate[f] <= Bump(Of(f), 1000) /\ Bump(Of(f), 1000) \in Nat
             /\ estimate[f] <= Bump(Of(f), 2000) /\ Bump(Of(f), 2000) \in Nat
  <2>1. Of(f) = estimate[f] /\ estimate[f] \in Nat
    BY <1>1
  <2>2. \A bps \in Nat : estimate[f] <= Bump(estimate[f], bps) /\ Bump(estimate[f], bps) \in Nat
    BY <2>1, BumpCovers, BumpNat
  <2> HIDE DEF GasFields
  <2> QED
    BY <2>1, <2>2
<1>6. \A x \in Nat, y \in Nat, z \in Nat : x <= y => x <= Greater(y, z)
  BY DEF Greater
<1>7. ASSUME NEW f \in GasFields
      PROVE  estimate[f] <= RaisedLimits(estimate, Ceilings)[f]
  <2>1. estimate[f] \in Nat
    BY <1>1
  <2> QED
    BY <1>2, <1>3, <1>4, <1>5, <1>6, <2>1
<1> QED
  BY <1>1, <1>7 DEF Fits

\* The gas the last quote was made for fits into words.
LEMMA QuoteFits ==
    ASSUME IInv, CauseInv, WordsSuffice, pc = "sponsoring"
    PROVE  /\ packable(quote.gas.verificationGasLimit, quote.gas.callGasLimit)
           /\ packable(quote.gas.paymasterVerificationGasLimit, quote.gas.paymasterPostOpGasLimit)
           /\ packable(quote.maxPriorityFeePerGas, quote.maxFeePerGas)
<1>1. quote.gas \in GasLimits
  BY DEF IInv, QuoteInv, Figures
<1>2. FitWords(quote.gas)
  <2>1. quote.gas = Ceilings \/ \E n \in Needs : quote.gas = RaisedLimits(n, Ceilings)
    BY DEF CauseInv, LimitsInv, Raised
  <2> QED
    BY <2>1 DEF WordsSuffice
<1>3. /\ quote.gas.verificationGasLimit \in 0 .. Word - 1 /\ quote.gas.callGasLimit \in 0 .. Word - 1
      /\ quote.gas.paymasterVerificationGasLimit \in 0 .. Word - 1
      /\ quote.gas.paymasterPostOpGasLimit \in 0 .. Word - 1
  BY <1>1, <1>2, HashAssumption DEF FitWords, GasLimits
<1>4. /\ quote.maxFeePerGas \in 0 .. Word - 1
      /\ quote.maxPriorityFeePerGas \in 0 .. quote.maxFeePerGas
  BY DEF CauseInv, ProofInv, Quoted, QuotedUnder
<1>5. quote.maxPriorityFeePerGas \in 0 .. Word - 1
  BY <1>4, HashAssumption
<1> QED
  BY <1>3, <1>4, <1>5 DEF packable

\* At the configuration of its last quote, and while the token is no cheaper, the relayer
\* asks for no more than it quoted.
LEMMA FeeStands ==
    ASSUME IInv, CauseInv, pc = "sponsoring", rateFor, config = quotedUnder.config,
           tokenPerEth <= quote.tokenPerEth
    PROVE  feeFor(quote.gas, quote.maxFeePerGas) <= quote.fee
<1> DEFINE prefund == totalGas(quote.gas) * quote.maxFeePerGas
           serviceFee == serviceFeeFor(Denomination, config.serviceFeeBps)
<1>1. /\ quote.gas \in GasLimits /\ quote.maxFeePerGas \in Nat /\ quote.tokenPerEth \in Nat
      /\ quote.fee = FeeUnder(config, quote.gas, quote.maxFeePerGas, quote.tokenPerEth)
  BY DEF CauseInv, ProofInv, Quoted, QuotedUnder, IInv, QuoteInv, Figures
<1>2. prefund \in Nat
  <2>1. totalGas(quote.gas) \in Nat
    BY <1>1 DEF totalGas, GasLimits
  <2> QED
    BY <1>1, <2>1, TimesMonotone
<1>3. serviceFee \in Nat
  <2>1. config.serviceFeeBps \in Nat /\ Denomination \in Nat
    BY FlowAssumption DEF IInv, TypeOK
  <2> QED
    BY <2>1, ScaledNat DEF serviceFeeFor
<1>4. tokenPerEth \in Nat
  BY EnvKnown, PriceNat DEF IInv
<1>5. /\ quote.fee = minimumFee(prefund, serviceFee, IF IsToken THEN quote.tokenPerEth ELSE 0)
      /\ feeFor(quote.gas, quote.maxFeePerGas)
           = minimumFee(prefund, serviceFee, IF IsToken THEN tokenPerEth ELSE 0)
  BY <1>1 DEF FeeUnder, feeFor
<1> HIDE DEF prefund, serviceFee
<1>6. CASE IsToken
  <2>1. tokenPerEth \in Nat \ {0}
    BY <1>4, <1>6 DEF rateFor
  <2> QED
    BY <1>1, <1>2, <1>3, <1>5, <1>6, <2>1, MinimumMonotone
<1>7. CASE ~IsToken
  <2>1. minimumFee(prefund, serviceFee, 0) \in Nat
    BY <1>2, <1>3, MinimumNat
  <2> QED
    BY <1>5, <1>7, <2>1
<1> QED
  BY <1>6, <1>7

\* Nothing but a cause refuses a client.
LEMMA Caused ==
    ASSUME IInv, CauseInv, WordsSuffice, pc = "sponsoring",
           NEW why \in sign(Operation(buildCalls(proof, quote.fee), quote))
    PROVE  Justified(why)
<1> DEFINE calls == buildCalls(proof, quote.fee)
           op == Operation(calls, quote)
<1>1. /\ decodeAccountCalls(op.callData) = calls /\ Sponsoring(op) \subseteq {proof}
      /\ op.gas = quote.gas /\ op.maxFeePerGas = quote.maxFeePerGas
      /\ op.maxPriorityFeePerGas = quote.maxPriorityFeePerGas
      /\ proof.relayer = config.rewardAccount /\ proof.recipient = Sender /\ proof.instance = Pool
           => Sponsoring(op) # {}
  BY ClientCalls
<1>2. op.authorization = IF delegated THEN None ELSE [address |-> Implementation, nonce |-> code.nonce]
  BY DEF Operation
<1>3. /\ DOMAIN calls = {1, 2} /\ calls[1].value = 0 /\ calls[2].value = Denomination - quote.fee
  BY DEF buildCalls
<1>4. /\ quote.fee \in 0 .. Denomination - 1 /\ quote.gas \in GasLimits
      /\ quote.maxFeePerGas \in Nat /\ Denomination \in Nat
  BY FlowAssumption DEF IInv, QuoteInv, Figures
<1>5. /\ proof.fee = quote.fee /\ proof.recipient = Sender /\ proof.instance = Pool
      /\ proof.root = leaves /\ proof.nullifierHash = Note
      /\ QuotedUnder(quote, quotedUnder.config)
  BY DEF CauseInv, ProofInv, Quoted, ProofOf
<1>6. why \in Reasons /\ Refused(op, why)
  BY DEF sign
<1> HIDE DEF calls, op
<1>7. CASE why = "implementation"
  <2>1. resolveSenderImplementation(op) \notin AllowedImplementations
    BY <1>6, <1>7 DEF Refused
  <2>2. delegated
    <3>1. SUFFICES ASSUME ~delegated PROVE FALSE
      OBVIOUS
    <3>2. /\ op.authorization = [address |-> Implementation, nonce |-> code.nonce]
          /\ code.nonce \in Nat
      BY <1>2, <3>1 DEF IInv, TypeOK
    <3>3. op.authorization # None /\ op.authorization.address = Implementation
      BY <3>2, FlowAssumption
    <3> QED
      BY <2>1, <3>3, FlowAssumption DEF resolveSenderImplementation
  <2>3. resolveSenderImplementation(op) = code.implementation
    BY <1>2, <2>2 DEF resolveSenderImplementation
  <2>4. code.implementation # Implementation
    BY <2>1, <2>3, FlowAssumption
  <2> QED
    BY <1>7, <2>2, <2>4 DEF Justified
<1>8. why # "words"
  <2>1. Hashable(op)
    BY <1>1, QuoteFits DEF Hashable
  <2> QED
    BY <1>6, <2>1 DEF Refused
<1>9. CASE why = "rules"
  <2>1. SUFFICES ASSUME config = quotedUnder.config, proof.relayer = quote.relayer PROVE FALSE
    BY <1>9 DEF Justified
  <2>2. proof.relayer = config.rewardAccount
    BY <1>5, <2>1 DEF QuotedUnder
  <2>3. Sponsoring(op) = {proof}
    BY <1>1, <1>5, <2>2
  <2>4. proof.fee > Denomination \/ op.maxPriorityFeePerGas > op.maxFeePerGas
    BY <1>6, <1>9, <2>3 DEF Refused
  <2>5. quote.fee <= Denomination /\ quote.maxPriorityFeePerGas <= quote.maxFeePerGas
    BY <1>4, <1>5 DEF QuotedUnder
  <2>6. ~(quote.fee > Denomination) /\ ~(quote.maxPriorityFeePerGas > quote.maxFeePerGas)
    BY <1>4, <1>5, <2>5 DEF QuotedUnder
  <2> QED
    BY <1>1, <1>5, <2>4, <2>6
<1>10. CASE why = "price"
  <2>1. IsToken /\ tokenPerEth = 0
    BY <1>6, <1>10 DEF Refused, rateFor
  <2>2. rate = 0
    BY <2>1 DEF tokenPerEth, CauseInv, PriceInv
  <2> QED
    BY <1>10, <2>2 DEF Justified
<1>11. CASE why = "fee"
  <2>1. SUFFICES ASSUME config = quotedUnder.config, ~(tokenPerEth > quote.tokenPerEth) PROVE FALSE
    BY <1>11 DEF Justified
  <2>2. rateFor /\ proof.fee < feeFor(op.gas, op.maxFeePerGas)
    BY <1>1, <1>6, <1>11 DEF Refused
  <2>3. tokenPerEth <= quote.tokenPerEth
    <3>1. tokenPerEth \in Nat /\ quote.tokenPerEth \in Nat
      BY <1>5, EnvKnown, PriceNat DEF IInv, QuotedUnder
    <3> QED
      BY <2>1, <3>1
  <2>4. feeFor(quote.gas, quote.maxFeePerGas) <= quote.fee
    BY <2>1, <2>2, <2>3, FeeStands
  <2>5. feeFor(quote.gas, quote.maxFeePerGas) \in Nat
    BY <1>4, EnvKnown, FeeNat DEF IInv
  <2> QED
    BY <1>1, <1>4, <1>5, <2>2, <2>4, <2>5
<1>12. CASE why = "sponsored"
  BY <1>6, <1>12 DEF Refused, Justified
<1>13. CASE why = "withdrawal"
  <2>1. ~WouldSucceed(proof, calls)
    BY <1>1, <1>6, <1>13 DEF Refused
  <2>2. \A i \in DOMAIN calls : calls[i].value <= Denomination - proof.fee
    BY <1>3, <1>4, <1>5
  <2>3. ~isKnownRoot(leaves) \/ Note \in spent \/ ~standing.relays
    BY <1>5, <2>1, <2>2 DEF WouldSucceed
  <2> QED
    BY <1>13, <2>3 DEF Justified
<1>14. CASE why = "gas"
  <2>1. ~Fits(need, quote.gas)
    BY <1>1, <1>6, <1>14 DEF Refused
  <2>2. CASE skipEstimation /\ quotedUnder.estimate = None
    BY <1>14, <2>2 DEF Justified
  <2>3. CASE Raised(quotedUnder.estimate) /\ quote.gas = quotedUnder.estimate.gas
    <3>1. quotedUnder.estimate # None
      <4>1. /\ quotedUnder.estimate =
                 [estimate |-> quotedUnder.estimate.estimate, gas |-> quote.gas]
            /\ quotedUnder.estimate.estimate \in Needs
        BY <2>3 DEF Raised
      <4> QED
        BY <1>4, <4>1, FlowAssumption
    <3>2. need # quotedUnder.estimate.estimate \/ ~asGasEstimate(need)
      <4>1. SUFFICES ASSUME need = quotedUnder.estimate.estimate, asGasEstimate(need) PROVE FALSE
        OBVIOUS
      <4>2. quote.gas = RaisedLimits(need, Ceilings) /\ need \in Needs
        BY <2>3, <4>1 DEF Raised
      <4> QED
        BY <2>1, <4>1, <4>2, RaisedCovers
    <3> QED
      BY <1>14, <3>1, <3>2 DEF Justified
  <2> QED
    BY <2>2, <2>3 DEF CauseInv, LimitsInv
<1>15. CASE why \in {"cap", "deposit"}
  <2>1. maxGasCostWei(op.gas, op.maxFeePerGas) = maxGasCostWei(quote.gas, quote.maxFeePerGas)
    BY <1>1
  <2>2. /\ why = "cap" => ~belowCap(maxGasCostWei(quote.gas, quote.maxFeePerGas))
        /\ why = "deposit" => ~depositCovers(maxGasCostWei(quote.gas, quote.maxFeePerGas))
    BY <1>6, <2>1 DEF Refused
  <2> QED
    BY <1>15, <2>2 DEF Justified
<1>16. CASE why \in {"registration", "bundler"}
  BY <1>6, <1>16 DEF Refused, registrationCurrent, Justified
<1> QED
  BY <1>6, <1>7, <1>8, <1>9, <1>10, <1>11, <1>12, <1>13, <1>14, <1>15, <1>16 DEF Reasons

\* Whichever of sign's checks refuses a client that did as told (rules, price, fee, live
\* sponsorship, implementation, limit, deposit, registration, withdrawal, bundler, gas,
\* words), one of the causes the property names has happened, for all prices, rates,
\* estimates, configurations and standings of the paymaster, where what the client asks
\* for fits the words it is packed into (flow.ts, service.ts sign).
THEOREM RefusalsCaused == ASSUME WordsSuffice PROVE Spec => []RefusalsHaveCause
<1>1. IInv /\ CauseInv => RefusalsHaveCause
  BY Caused DEF RefusalsHaveCause
<1> QED
  BY <1>1, CauseInvHolds, PTL

=============================================================================
