------------------------ MODULE PaymasterBundleProofs ------------------------
(***************************************************************************)
(* Proofs about PaymasterBundle, for any set of operations, accounts and   *)
(* withdrawals: what was held is not spent, what is relayed was signed,    *)
(* and an operation that succeeds pays for itself.                         *)
(***************************************************************************)
EXTENDS PaymasterBundle, ArithmeticTheorems

-----------------------------------------------------------------------------
(* The fee: what the relayer asks for covers what the paymaster is charged,  *)
(* however the two sides round, for every price, rate, margin and overhead.  *)

LEMMA MarginMonotone ==
    ASSUME NEW a \in Nat, NEW b \in Nat, a <= b
    PROVE  /\ WithMargin(a) \in Nat /\ WithMargin(b) \in Nat
           /\ a <= WithMargin(a)
           /\ WithMargin(a) <= WithMargin(b)
<1> USE FeeAssumption
<1>1. /\ a * GasMarginBps <= b * GasMarginBps
      /\ a * GasMarginBps \in Nat /\ b * GasMarginBps \in Nat
  BY TimesMonotone
<1>2. /\ (a * GasMarginBps) \div Bps <= (b * GasMarginBps) \div Bps
      /\ (a * GasMarginBps) \div Bps \in Nat
      /\ (b * GasMarginBps) \div Bps \in Nat
  BY <1>1, DivMonotone, Division
<1> QED
  BY <1>2 DEF WithMargin

\* The relayer rounds up, the paymaster down.
LEMMA FloorBelowCeiling ==
    ASSUME NEW a \in Nat, NEW d \in Nat \ {0}
    PROVE  a \div d <= CeilDiv(a, d) /\ CeilDiv(a, d) \in Nat
<1>1. a + d - 1 \in Nat /\ a <= a + d - 1
  OBVIOUS
<1> QED
  BY <1>1, DivMonotone, Division DEF CeilDiv

\* A gas cost in the fee asset, as the paymaster rounds it.
InAsset(wei, perEth) ==
    IF perEth = 0 THEN wei ELSE (wei * perEth) \div RateScale

LEMMA InAssetMonotone ==
    ASSUME NEW a \in Nat, NEW b \in Nat, a <= b, NEW r \in Nat
    PROVE  /\ InAsset(a, r) \in Nat /\ InAsset(b, r) \in Nat
           /\ InAsset(a, r) <= InAsset(b, r)
<1>1. a * r <= b * r /\ a * r \in Nat /\ b * r \in Nat
  BY TimesMonotone
<1>2. /\ (a * r) \div RateScale <= (b * r) \div RateScale
      /\ (a * r) \div RateScale \in Nat /\ (b * r) \div RateScale \in Nat
  BY <1>1, DivMonotone, Division, FeeAssumption
<1> QED
  BY <1>2 DEF InAsset

\* What postOp keeps is worth at least the charge and the service fee.
LEMMA KeepCovers ==
    ASSUME NEW charge \in Nat, NEW gasCost \in Nat, charge <= gasCost,
           NEW serviceFee \in Nat, NEW r \in Nat
    PROVE  /\ Keep(gasCost, serviceFee, r) \in Nat
           /\ Keep(gasCost, serviceFee, r) >= InAsset(charge, r) + serviceFee
<1>1. /\ WithMargin(gasCost) \in Nat /\ WithMargin(charge) \in Nat
      /\ charge <= WithMargin(charge)
      /\ WithMargin(charge) <= WithMargin(gasCost)
  BY MarginMonotone
<1>2. charge <= WithMargin(gasCost)
  BY <1>1
<1>3. /\ InAsset(charge, r) <= InAsset(WithMargin(gasCost), r)
      /\ InAsset(WithMargin(gasCost), r) \in Nat /\ InAsset(charge, r) \in Nat
  BY <1>1, <1>2, InAssetMonotone
<1>4. Keep(gasCost, serviceFee, r) = InAsset(WithMargin(gasCost), r) + serviceFee
  BY DEF Keep, InAsset
<1> QED
  BY <1>3, <1>4

\* What the relayer asks for is worth at least any charge within the prefund.
LEMMA MinimumCovers ==
    ASSUME NEW charge \in Nat, NEW prefund \in Nat, charge <= prefund,
           NEW serviceFee \in Nat, NEW r \in Nat
    PROVE  /\ minimumFee(prefund, serviceFee, r) \in Nat
           /\ minimumFee(prefund, serviceFee, r) >= InAsset(charge, r) + serviceFee
<1> DEFINE m == WithMargin(prefund)
<1>1. m \in Nat /\ charge <= m
  BY MarginMonotone
<1> HIDE DEF m
<1>2. InAsset(charge, r) <= InAsset(m, r) /\ InAsset(m, r) \in Nat /\ InAsset(charge, r) \in Nat
  BY <1>1, InAssetMonotone
<1>3. CASE r = 0
  <2>1. minimumFee(prefund, serviceFee, r) = m + serviceFee /\ InAsset(m, r) = m
    BY <1>3 DEF minimumFee, InAsset, m
  <2> QED
    BY <1>2, <2>1
<1>4. CASE r # 0
  <2>1. /\ minimumFee(prefund, serviceFee, r) = CeilDiv(m * r, RateScale) + serviceFee
        /\ InAsset(m, r) = (m * r) \div RateScale
    BY <1>4 DEF minimumFee, InAsset, m
  <2>2. m * r \in Nat
    BY <1>1, TimesMonotone
  <2>3. InAsset(m, r) <= CeilDiv(m * r, RateScale) /\ CeilDiv(m * r, RateScale) \in Nat
    BY <2>1, <2>2, FloorBelowCeiling, FeeAssumption
  <2> QED
    BY <1>2, <2>1, <2>3
<1> QED
  BY <1>3, <1>4

LEMMA RefundBounds ==
    ASSUME NEW fee \in Nat, NEW keep \in Nat, NEW balance \in Nat
    PROVE  Refund(fee, keep, balance) \in 0 .. balance
BY DEF Refund

\* Whatever the gas turned out to be, a fee the relayer accepted leaves, after the
\* refund, at least what the EntryPoint charged plus the service fee - if
\* postOpGasOverhead covers postOp's own billing (charge <= gasCost).
THEOREM FeeCoversCharge ==
    ASSUME NEW prefund \in Nat, NEW gasCost \in Nat, NEW charge \in Nat,
           charge <= prefund, charge <= gasCost,
           NEW serviceFee \in Nat, NEW r \in Nat,
           NEW fee \in Nat, fee >= minimumFee(prefund, serviceFee, r)
    PROVE  fee - Refund(fee, Keep(gasCost, serviceFee, r), fee)
               >= InAsset(charge, r) + serviceFee
<1> DEFINE keep == Keep(gasCost, serviceFee, r)
           owed == InAsset(charge, r) + serviceFee
<1>1. keep \in Nat /\ keep >= owed
  BY KeepCovers
<1>2. InAsset(charge, r) \in Nat
  BY InAssetMonotone
<1>3. owed \in Nat
  BY <1>2
<1>4. fee >= owed
  BY <1>2, MinimumCovers
<1> HIDE DEF keep, owed
<1>5. fee - Refund(fee, keep, fee) >= owed
  BY <1>1, <1>3, <1>4 DEF Refund
<1> QED
  BY <1>5 DEF keep, owed

-----------------------------------------------------------------------------
(* The bundle.                                                              *)

Sender == terms[Head(queue)].sender

InFrame == phase \in {"running", "settling"}

Zero == [a \in Assets |-> 0]

-----------------------------------------------------------------------------
(* What the senders received in all is what the paymaster gained: exactly   *)
(* so while no relay is entered inside another, at most so ever after.      *)

Owed(r, a) == SumFunctionOnSet([s \in Senders |-> r[s][a]], Senders)

\* Nothing of what w counts as received was held when the bundle began.
Backed(w) ==
    /\ bundleStart.held[Token] + Owed(w.received, Token) <= w.held[Token]
    /\ w.nested \/ bundleStart.held[Eth] + Owed(w.received, Eth) <= w.held[Eth]

FrameInv ==
    /\ phase = "idle" => received = NothingReceived /\ ~nested
    /\ phase # "idle" => /\ Backed(world)
                         /\ bundleStart.received = NothingReceived /\ ~bundleStart.nested
    /\ InFrame => queue # <<>> /\ Backed(frameStart)
    /\ phase # "running" => open = <<>>

\* A relay inside which no other can be entered.
Quiet(r) == r.withdrawal.asset = Token \/ r.withdrawal.recipient \in ApprovedSenders

RelaysInv ==
    \A i \in 1 .. Len(open) :
        /\ \A a \in Assets : open[i].before[a] <= held[a]
        /\ Quiet(open[i]) \/ ~nested => i = 1 /\ open[i].before = held

HeldInv == TypeOK /\ FrameInv /\ RelaysInv

-----------------------------------------------------------------------------
(* Types of the state, part by part.                                        *)

Fields ==
    /\ held \in Balances /\ master \in Balances /\ deposit \in Nat
    /\ spent \in SUBSET Notes /\ relayed \in SUBSET Withdrawals
    /\ allowance \in [Senders -> [Withdrawals -> Nat]]
    /\ received \in [Senders -> Balances] /\ nested \in BOOLEAN

LEMMA WorldFields == world \in Worlds <=> Fields
BY DEF world, Worlds, Fields

LEMMA WorldParts ==
    /\ world.held = held /\ world.received = received /\ world.nested = nested
    /\ world.master = master /\ world.deposit = deposit
    /\ world.relayed = relayed /\ world.allowance = allowance
BY DEF world

LEMMA Restoring ==
    ASSUME NEW w \in Worlds, Restore(w)
    PROVE  Fields'
BY DEF Restore, Worlds, Fields

LEMMA EmptyTypes ==
    /\ NoAllowance \in [Senders -> [Withdrawals -> Nat]]
    /\ NothingReceived \in [Senders -> Balances]
    /\ Zero \in Balances
BY DEF NoAllowance, NothingReceived, Balances, Zero

LEMMA WithdrawalTypes ==
    ASSUME NEW x \in Withdrawals
    PROVE  x.note \in Notes /\ x.recipient \in Senders /\ x.asset \in Assets /\ x.fee \in Nat
BY BundleAssumption DEF Assets

LEMMA TermTypes ==
    ASSUME NEW t \in Terms
    PROVE  t.sender \in Senders /\ t.withdrawal \in Withdrawals /\ t.serviceFee \in Nat
           /\ t.prefund \in Nat
BY DEF Terms

LEMMA WorldBalances ==
    ASSUME NEW w \in Worlds
    PROVE  /\ w.held \in Balances /\ w.received \in [Senders -> Balances] /\ w.deposit \in Nat
           /\ w.nested \in BOOLEAN
           /\ \A a \in Assets : w.held[a] \in Nat
BY DEF Worlds, Balances

LEMMA AssetFacts ==
    Eth \in Assets /\ Token \in Assets /\ Eth # Token /\ Assets = {Eth, Token}
BY BundleAssumption DEF Assets

LEMMA HeadTail ==
    ASSUME queue \in Seq(Ops), queue # <<>>
    PROVE  Head(queue) \in Ops /\ Tail(queue) \in Seq(Ops)
OBVIOUS

-----------------------------------------------------------------------------
(* The sums.                                                                *)

LEMMA OwedType ==
    ASSUME NEW r \in [Senders -> Balances], NEW a \in Assets
    PROVE  Owed(r, a) \in Nat
<1>1. \A s \in Senders : [z \in Senders |-> r[z][a]][s] \in Nat
  BY DEF Balances
<1> QED
  BY <1>1, SumType, BundleAssumption DEF Owed

LEMMA OwedNothing ==
    ASSUME NEW a \in Assets
    PROVE  Owed(NothingReceived, a) = 0
<1>1. \A s \in Senders : [z \in Senders |-> NothingReceived[z][a]][s] = 0
  BY DEF NothingReceived
<1> QED
  BY <1>1, SumZero, BundleAssumption DEF Owed

\* Only what one sender received has changed.
LEMMA OwedChange ==
    ASSUME NEW r \in [Senders -> Balances], NEW q \in [Senders -> Balances],
           NEW s \in Senders, \A z \in Senders : z # s => q[z] = r[z],
           NEW a \in Assets
    PROVE  /\ Owed(q, a) = Owed(r, a) + q[s][a] - r[s][a]
           /\ Owed(q, a) \in Nat /\ Owed(r, a) \in Nat
<1> DEFINE f == [z \in Senders |-> r[z][a]]
           g == [z \in Senders |-> q[z][a]]
<1>1. \A z \in Senders : f[z] \in Nat /\ g[z] \in Nat
  BY DEF Balances
<1>2. \A z \in Senders : z # s => g[z] = f[z]
  OBVIOUS
<1>3. f[s] = r[s][a] /\ g[s] = q[s][a]
  OBVIOUS
<1> HIDE DEF f, g
<1>4. SumFunctionOnSet(g, Senders) = SumFunctionOnSet(f, Senders) + g[s] - f[s]
  BY <1>1, <1>2, SumUpdate, BundleAssumption
<1>5. Owed(q, a) = SumFunctionOnSet(g, Senders) /\ Owed(r, a) = SumFunctionOnSet(f, Senders)
  BY DEF Owed, f, g
<1> QED
  BY <1>3, <1>4, <1>5, OwedType

\* Taking what one sender received.
LEMMA OwedTaken ==
    ASSUME NEW r \in [Senders -> Balances], NEW s \in Senders, NEW a \in Assets
    PROVE  /\ [r EXCEPT ![s] = Zero] \in [Senders -> Balances]
           /\ Owed([r EXCEPT ![s] = Zero], a) = Owed(r, a) - r[s][a]
           /\ Owed([r EXCEPT ![s] = Zero], a) \in Nat /\ Owed(r, a) \in Nat
           /\ r[s][a] \in Nat
<1> DEFINE q == [r EXCEPT ![s] = Zero]
<1>1. q \in [Senders -> Balances] /\ q[s][a] = 0 /\ \A z \in Senders : z # s => q[z] = r[z]
  BY EmptyTypes DEF Zero
<1>2. r[s][a] \in Nat
  BY DEF Balances
<1> HIDE DEF q
<1>3. Owed(q, a) = Owed(r, a) + q[s][a] - r[s][a] /\ Owed(q, a) \in Nat /\ Owed(r, a) \in Nat
  BY <1>1, OwedChange
<1> QED
  BY <1>1, <1>2, <1>3 DEF q

\* A bundle that has received nothing has spent nothing.
LEMMA BackedAtStart ==
    ASSUME NEW w \in Worlds, w.received = NothingReceived, w = bundleStart
    PROVE  Backed(w)
<1>1. \A a \in Assets : w.held[a] \in Nat /\ Owed(w.received, a) = 0
  BY OwedNothing, WorldBalances
<1> QED
  BY <1>1, AssetFacts DEF Backed

-----------------------------------------------------------------------------
(* Initially.                                                               *)

LEMMA InitHeldInv == Init => HeldInv
<1> SUFFICES ASSUME Init PROVE HeldInv
  OBVIOUS
<1>1. terms \in [Ops -> Terms]
  <2>1. [sender : Senders, withdrawal : Withdrawals, serviceFee : ServiceFees,
         prefund : Prefunds] \subseteq Terms
    BY BundleAssumption DEF Terms
  <2> QED
    BY <2>1 DEF Init
<1>2. Fields
  BY EmptyTypes, BundleAssumption DEF Init, Fields, Balances
<1>3. world \in Worlds
  BY <1>2, WorldFields
<1>4. TypeOK
  <2>1. bundleStart \in Worlds /\ frameStart \in Worlds
    BY <1>3 DEF Init
  <2>2. /\ delegated \in SUBSET Senders /\ called \in SUBSET Withdrawals
        /\ queue \in Seq(Ops) /\ open \in Seq(Relays)
    BY DEF Init
  <2>3. result \in [Ops -> {"pending", "validated", "succeeded", "reverted"}]
    BY DEF Init
  <2>4. executed \in BOOLEAN
    BY DEF Init
  <2>5. /\ signed \in [Ops -> Keys \cup {NoKey}] /\ verifyingSigner \in Keys
        /\ admin \in Nat /\ phase = "idle"
    BY DEF Init
  <2> QED
    BY <1>1, <1>3, <2>1, <2>2, <2>3, <2>4, <2>5 DEF TypeOK
<1>5. FrameInv /\ RelaysInv
  <2>1. phase = "idle" /\ open = <<>> /\ received = NothingReceived /\ nested = FALSE
    BY DEF Init
  <2> QED
    BY <2>1 DEF FrameInv, RelaysInv, InFrame
<1> QED
  BY <1>4, <1>5 DEF HeldInv

\* A settlement refunds no more than the frame received.
LEMMA RefundOfBounds ==
    ASSUME NEW t \in Terms, NEW balance \in Nat, NEW gasCost \in Nat
    PROVE  RefundOf(t, balance, gasCost) \in 0 .. balance
<1>1. t.serviceFee \in Nat /\ t.withdrawal.fee \in Nat
  BY TermTypes, WithdrawalTypes
<1>2. tokenPerEth(t.withdrawal.asset) \in Nat
  BY BundleAssumption DEF tokenPerEth
<1> DEFINE rate == tokenPerEth(t.withdrawal.asset)
           keep == Keep(gasCost, t.serviceFee, rate)
<1>3. keep \in Nat
  <2> HIDE DEF rate
  <2>1. gasCost <= gasCost
    OBVIOUS
  <2> QED
    BY <1>1, <1>2, <2>1, KeepCovers DEF rate
<1>4. Refund(t.withdrawal.fee, keep, balance) \in 0 .. balance
  <2> HIDE DEF keep
  <2> QED
    BY <1>1, <1>3, RefundBounds
<1>5. RefundOf(t, balance, gasCost) \in {0, Refund(t.withdrawal.fee, keep, balance)}
  BY DEF RefundOf
<1> QED
  BY <1>4, <1>5

LEMMA GasCostType ==
    ASSUME NEW actual \in Nat
    PROVE  GasCost(actual, FeePerGas) \in Nat
<1>1. PostOpGasOverhead * FeePerGas \in Nat
  BY FeeAssumption, BundleAssumption, TimesMonotone
<1> QED
  BY <1>1 DEF GasCost

-----------------------------------------------------------------------------
(* What a settlement does to the balances: it takes at most what was        *)
(* received, and what it takes of the ETH that is not refunded it deposits. *)

LEMMA Settling ==
    ASSUME TypeOK, NEW o \in Ops, PostOp(o)
    PROVE  LET t == terms[o]
               balance == received[t.sender][t.withdrawal.asset]
               b == t.withdrawal.asset
           IN \E gasCost \in Nat, charge \in 1 .. t.prefund, refund \in 0 .. balance :
                 /\ charge <= gasCost
                 /\ refund \in {0, RefundOf(t, balance, gasCost)}
                 /\ deposit' \in Nat /\ held' \in Balances
                 /\ \A a \in Assets : a # b => held'[a] = held[a]
                 /\ held'[b] >= held[b] - balance
                 /\ b = Eth => held'[b] + deposit'
                                   = held[b] + deposit + t.prefund - charge - refund
                 /\ b # Eth => /\ held'[b] = held[b] - refund
                               /\ deposit' = deposit + t.prefund - charge
<1> DEFINE t == terms[o]
           b == t.withdrawal.asset
           balance == received[t.sender][b]
<1>1. t \in Terms
  BY DEF TypeOK
<1>2. t.sender \in Senders /\ t.prefund \in Nat /\ b \in Assets
  BY <1>1, TermTypes, WithdrawalTypes
<1>3. Fields
  BY WorldFields DEF TypeOK
<1>4. balance \in Nat /\ held[b] \in Nat /\ deposit \in Nat
      /\ held \in [Assets -> Nat]
  BY <1>2, <1>3 DEF Fields, Balances
<1>12. PICK actual \in 1 .. t.prefund :
         \E charge \in Charges(t.prefund, actual) :
             IF b = Eth THEN SettleEth(t, balance, GasCost(actual, FeePerGas), charge)
                        ELSE SettleToken(t, balance, GasCost(actual, FeePerGas), charge)
  BY DEF PostOp
<1>5. PICK charge \in Charges(t.prefund, actual) :
         IF b = Eth THEN SettleEth(t, balance, GasCost(actual, FeePerGas), charge)
                    ELSE SettleToken(t, balance, GasCost(actual, FeePerGas), charge)
  BY <1>12
<1> DEFINE gasCost == GasCost(actual, FeePerGas)
           ref == RefundOf(t, balance, gasCost)
<1>6. gasCost \in Nat
  BY <1>2, GasCostType
<1>7. charge \in 1 .. t.prefund /\ charge <= gasCost
  BY <1>2, <1>5 DEF Charges
<1>8. ref \in 0 .. balance
  BY <1>1, <1>4, <1>6, RefundOfBounds
<1>9. Eth \in Assets /\ Token \in Assets /\ Eth # Token /\ Assets = {Eth, Token}
  BY BundleAssumption DEF Assets
<1> HIDE DEF b, balance, gasCost, ref
<1>10. CASE b = Eth
  <2>1. SettleEth(t, balance, gasCost, charge)
    BY <1>5, <1>10 DEF gasCost
  <2>2. PICK refund \in {0, ref}, deposited \in BOOLEAN :
           LET rest == IF deposited THEN balance - refund ELSE 0 IN
           /\ refund + rest <= held[Eth]
           /\ held' = [held EXCEPT ![Eth] = @ - refund - rest]
           /\ deposit' = deposit + rest + Returned(t, charge)
    BY <2>1 DEF SettleEth, ref
  <2> DEFINE rest == IF deposited THEN balance - refund ELSE 0
  <2>3. refund \in 0 .. balance /\ rest \in 0 .. balance /\ refund + rest <= balance
    BY <1>4, <1>8, <2>2
  <2>4. /\ refund + rest <= held[Eth]
        /\ held' = [held EXCEPT ![Eth] = @ - refund - rest]
        /\ deposit' = deposit + rest + (t.prefund - charge)
    BY <2>2 DEF Returned
  <2> HIDE DEF rest
  <2>5. held[Eth] - refund - rest \in Nat /\ held[Eth] - refund - rest >= held[Eth] - balance
    BY <1>4, <1>10, <2>3, <2>4
  <2>6. held'[b] = held[b] - refund - rest /\ \A a \in Assets : a # b => held'[a] = held[a]
    BY <1>4, <1>9, <1>10, <2>4
  <2>7. held' \in Balances
    BY <1>4, <1>9, <2>4, <2>5 DEF Balances
  <2>8. deposit' \in Nat
    BY <1>2, <1>4, <1>7, <2>3, <2>4
  <2>9. held'[b] + deposit' = held[b] + deposit + t.prefund - charge - refund
    BY <1>2, <1>4, <1>7, <2>3, <2>4, <2>6
  <2>10. held'[b] >= held[b] - balance
    BY <1>10, <2>5, <2>6
  <2> QED
    BY <1>6, <1>7, <1>10, <2>2, <2>3, <2>6, <2>7, <2>8, <2>9, <2>10 DEF b, balance, ref
<1>11. CASE b # Eth
  <2>1. SettleToken(t, balance, gasCost, charge) /\ b = Token
    BY <1>2, <1>5, <1>9, <1>11 DEF gasCost
  <2>2. PICK refund \in {0, ref} :
           /\ refund <= held[Token]
           /\ held' = [held EXCEPT ![Token] = @ - refund]
           /\ deposit' = deposit + (t.prefund - charge)
    BY <2>1 DEF SettleToken, Returned, ref
  <2>3. refund \in 0 .. balance
    BY <1>4, <1>8, <2>2
  <2>4. held[Token] - refund \in Nat /\ held[Token] - refund >= held[Token] - balance
    BY <1>4, <2>1, <2>2, <2>3
  <2>5. held'[b] = held[b] - refund /\ \A a \in Assets : a # b => held'[a] = held[a]
    BY <1>4, <1>9, <2>1, <2>2
  <2>6. held' \in Balances
    BY <1>4, <1>9, <2>2, <2>4 DEF Balances
  <2>7. deposit' \in Nat
    BY <1>2, <1>4, <1>7, <2>2
  <2>8. held'[b] >= held[b] - balance
    BY <2>1, <2>4, <2>5
  <2> QED
    BY <1>6, <1>7, <1>11, <1>2, <1>4, <2>2, <2>3, <2>5, <2>6, <2>7, <2>8 DEF b, balance, ref
<1> QED
  BY <1>10, <1>11

-----------------------------------------------------------------------------
(* The type invariant and the held balances, step by step.                  *)

Rest ==
    /\ terms \in [Ops -> Terms] /\ signed \in [Ops -> Keys \cup {NoKey}]
    /\ delegated \in SUBSET Senders /\ verifyingSigner \in Keys
    /\ queue \in Seq(Ops) /\ called \in SUBSET Withdrawals /\ open \in Seq(Relays)
    /\ executed \in BOOLEAN /\ admin \in Nat
    /\ phase \in {"idle", "validating", "executing", "running", "settling"}
    /\ result \in [Ops -> {"pending", "validated", "succeeded", "reverted"}]

LEMMA TypeParts ==
    TypeOK <=> Rest /\ Fields /\ bundleStart \in Worlds /\ frameStart \in Worlds
BY WorldFields DEF TypeOK, Rest

LEMMA TypePartsPrimed ==
    TypeOK' <=> Rest' /\ Fields' /\ bundleStart' \in Worlds /\ frameStart' \in Worlds
BY DEF TypeOK, Rest, world, Worlds, Fields

LEMMA OpenTypes ==
    ASSUME open \in Seq(Relays), NEW i \in 1 .. Len(open)
    PROVE  open[i].withdrawal \in Withdrawals /\ open[i].before \in Balances
<1>1. open[i] \in Relays
  OBVIOUS
<1> QED
  BY <1>1 DEF Relays

\* What Backed says of the state after a step.
LEMMA BackedNext ==
    Backed(world)' <=>
        /\ bundleStart'.held[Token] + Owed(received', Token) <= held'[Token]
        /\ nested' \/ bundleStart'.held[Eth] + Owed(received', Eth) <= held'[Eth]
BY DEF Backed, world, Owed

LEMMA BackedNow ==
    Backed(world) <=>
        /\ bundleStart.held[Token] + Owed(received, Token) <= held[Token]
        /\ nested \/ bundleStart.held[Eth] + Owed(received, Eth) <= held[Eth]
BY DEF Backed, world

LEMMA SameBacked ==
    ASSUME bundleStart' = bundleStart
    PROVE  /\ held' = held /\ received' = received /\ nested' = nested
                 => (Backed(world)' <=> Backed(world))
           /\ frameStart' = frameStart => (Backed(frameStart)' <=> Backed(frameStart))
<1>1. ASSUME held' = held, received' = received, nested' = nested
      PROVE  Backed(world)' <=> Backed(world)
  BY <1>1, BackedNext, BackedNow
<1>2. ASSUME frameStart' = frameStart PROVE Backed(frameStart)' <=> Backed(frameStart)
  BY <1>2 DEF Backed, Owed
<1> QED
  BY <1>1, <1>2

\* A revert to a world that was backed.
LEMMA RestoredBacked ==
    ASSUME NEW w \in Worlds, NEW v, bundleStart' = bundleStart, Backed(v),
           w.held = v.held, w.received = v.received, w.nested = v.nested, Restore(w)
    PROVE  Backed(world)'
<1>1. held' = v.held /\ received' = v.received /\ nested' = v.nested
  BY DEF Restore
<1> QED
  BY <1>1, BackedNext DEF Backed

\* Entering a relay: its balances are measured, and only relays that let others in
\* are under way.
LEMMA RelayWithdrawHeldInv ==
    ASSUME HeldInv, NEW x \in Withdrawals, RelayWithdraw(x)
    PROVE  HeldInv'
<1> DEFINE r == [withdrawal |-> x, before |-> held]
<1>1. Rest /\ Fields /\ bundleStart \in Worlds /\ frameStart \in Worlds
  BY TypeParts DEF HeldInv
<1>2. x.recipient \in Senders /\ x.note \in Notes
  BY WithdrawalTypes
<1>3. /\ phase = "running" /\ phase' = phase /\ queue' = queue /\ held' = held
      /\ received' = received /\ bundleStart' = bundleStart /\ frameStart' = frameStart
      /\ delegated' = delegated /\ nested' = (nested \/ open # <<>>)
      /\ open' = <<r>> \o open /\ MayCall(x.recipient)
  BY DEF RelayWithdraw, fixed, config
<1>4. r \in Relays
  BY <1>1 DEF Relays, Fields
<1> HIDE DEF r
<1>5. /\ open' \in Seq(Relays) /\ Len(open') = Len(open) + 1 /\ Len(open) \in Nat
      /\ open'[1] = r /\ \A i \in 1 .. Len(open) : open'[i + 1] = open[i]
  BY <1>1, <1>3, <1>4 DEF Rest
<1>6. Rest'
  BY <1>1, <1>5 DEF RelayWithdraw, Rest, fixed, config
<1>7. Fields'
  <2>1. allowance' \in [Senders -> [Withdrawals -> Nat]]
    BY <1>1, <1>2 DEF RelayWithdraw, ConsumeSponsorship, Fields
  <2>2. nested' \in BOOLEAN
    BY <1>1, <1>3 DEF Fields
  <2>3. spent' \in SUBSET Notes
    BY <1>1, <1>2 DEF RelayWithdraw, Fields
  <2> QED
    BY <1>1, <1>3, <2>1, <2>2, <2>3 DEF RelayWithdraw, Fields
<1>8. FrameInv'
  <2>1. Backed(world)'
    BY <1>3, BackedNext, BackedNow DEF HeldInv, FrameInv
  <2>2. Backed(frameStart)' <=> Backed(frameStart)
    BY <1>3, SameBacked
  <2> QED
    BY <1>3, <2>1, <2>2 DEF HeldInv, FrameInv, InFrame
<1>9. RelaysInv'
  <2> SUFFICES ASSUME NEW i \in 1 .. Len(open')
               PROVE  /\ \A a \in Assets : open'[i].before[a] <= held'[a]
                      /\ Quiet(open[i])' \/ ~nested' => i = 1 /\ open'[i].before = held'
    BY DEF RelaysInv
  <2>1. CASE i = 1
    <3>1. open'[i].before = held'
      BY <1>3, <1>5, <2>1 DEF r
    <3>2. \A a \in Assets : held[a] \in Nat
      BY <1>1 DEF Fields, Balances
    <3> QED
      BY <1>3, <2>1, <3>1, <3>2
  <2>2. CASE i # 1
    <3> DEFINE j == i - 1
    <3>1. j \in 1 .. Len(open) /\ i = j + 1 /\ open'[i] = open[j] /\ open # <<>>
      BY <1>5, <2>2
    <3> HIDE DEF j
    <3>2. nested' = TRUE
      BY <1>3, <3>1
    <3>3. ~Quiet(open[1])
      <4>1. /\ Head(open).withdrawal.asset = Eth
            /\ Head(open).withdrawal.recipient \notin ApprovedSenders
        BY <1>3, <3>1 DEF MayCall
      <4>2. Head(open) = open[1]
        BY <1>1, <3>1 DEF Rest
      <4> QED
        BY <4>1, <4>2, AssetFacts DEF Quiet
    <3>4. ~Quiet(open[j])
      <4>1. Quiet(open[j]) => j = 1
        BY <3>1 DEF HeldInv, RelaysInv
      <4> QED
        BY <3>3, <4>1
    <3>5. Quiet(open[i])' <=> Quiet(open[j])
      BY <1>3, <3>1 DEF Quiet, ApprovedSenders
    <3>6. \A a \in Assets : open[j].before[a] <= held[a]
      BY <3>1 DEF HeldInv, RelaysInv
    <3> QED
      BY <1>3, <3>1, <3>2, <3>4, <3>5, <3>6
  <2> QED
    BY <2>1, <2>2
<1> QED
  BY <1>1, <1>3, <1>6, <1>7, <1>8, <1>9, TypePartsPrimed DEF HeldInv

\* What a relay that returns has added: to the balances the fee, and to what its
\* recipient received as much, unless another was entered inside it.
LEMMA ReturnFacts ==
    ASSUME HeldInv, RelayReturns
    PROVE  LET x == open[1].withdrawal IN
           /\ x \in Withdrawals /\ x.recipient \in Senders /\ x.asset \in Assets /\ x.fee \in Nat
           /\ open # <<>> /\ open' = Tail(open) /\ phase = "running"
           /\ held' \in Balances /\ master' \in Balances
           /\ received' \in [Senders -> Balances]
           /\ \A z \in Senders : z # x.recipient => received'[z] = received[z]
           /\ \A a \in Assets : held[a] <= held'[a] /\ held'[a] \in Nat /\ held[a] \in Nat
           /\ \A a \in Assets : master[a] <= master'[a]
           /\ \A a \in Assets : a # x.asset => held'[a] = held[a] /\ master'[a] = master[a]
           /\ held'[x.asset] = held[x.asset] + (IF x.toPaymaster THEN x.fee ELSE 0)
           /\ master'[x.asset] = master[x.asset] + (IF x.toPaymaster THEN 0 ELSE x.fee)
           /\ Quiet(open[1]) \/ ~nested =>
                 \A a \in Assets : received'[x.recipient][a]
                                     = received[x.recipient][a] + held'[a] - held[a]
           /\ received'[x.recipient][Token]
                                     = received[x.recipient][Token] + held'[Token] - held[Token]
<1> DEFINE x == open[1].withdrawal
           before == open[1].before
           s == x.recipient
<1>1. Rest /\ Fields /\ bundleStart \in Worlds /\ frameStart \in Worlds
  BY TypeParts DEF HeldInv
<1>2. /\ open # <<>> /\ Head(open) = open[1] /\ open' = Tail(open) /\ phase = "running"
      /\ 1 \in 1 .. Len(open)
  BY <1>1 DEF RelayReturns, Rest
<1>3. x \in Withdrawals /\ before \in Balances
  BY <1>1, <1>2, OpenTypes DEF Rest
<1>4. s \in Senders /\ x.asset \in Assets /\ x.fee \in Nat
  BY <1>3, WithdrawalTypes
<1>5. /\ PayFee(x)
      /\ received' = [received EXCEPT ![s] =
                        [a \in Assets |-> IF a = Eth \/ a = x.asset
                                          THEN @[a] + held'[a] - before[a] ELSE @[a]]]
  BY <1>2 DEF RelayReturns, AddReceived
<1>6. /\ \A a \in Assets : before[a] <= held[a] /\ before[a] \in Nat
      /\ Quiet(open[1]) \/ ~nested => before = held
  BY <1>2, <1>3 DEF HeldInv, RelaysInv, Balances
<1>7. /\ \A a \in Assets : held[a] \in Nat /\ master[a] \in Nat /\ received[s][a] \in Nat
      /\ held \in [Assets -> Nat] /\ master \in [Assets -> Nat]
      /\ received \in [Senders -> [Assets -> Nat]]
  BY <1>1, <1>4 DEF Fields, Balances
<1> HIDE DEF x, before, s
<1>8. /\ held' \in Balances /\ master' \in Balances
      /\ \A a \in Assets : /\ held[a] <= held'[a] /\ held'[a] \in Nat
                           /\ master[a] <= master'[a]
      /\ \A a \in Assets : a # x.asset => held'[a] = held[a] /\ master'[a] = master[a]
      /\ held'[x.asset] = held[x.asset] + (IF x.toPaymaster THEN x.fee ELSE 0)
      /\ master'[x.asset] = master[x.asset] + (IF x.toPaymaster THEN 0 ELSE x.fee)
  <2>1. CASE x.toPaymaster
    <3>1. held' = [held EXCEPT ![x.asset] = @ + x.fee] /\ master' = master
      BY <1>5, <2>1 DEF PayFee
    <3> QED
      BY <1>4, <1>7, <2>1, <3>1 DEF Balances
  <2>2. CASE ~x.toPaymaster
    <3>1. master' = [master EXCEPT ![x.asset] = @ + x.fee] /\ held' = held
      BY <1>5, <2>2 DEF PayFee
    <3> QED
      BY <1>4, <1>7, <2>2, <3>1 DEF Balances
  <2> QED
    BY <2>1, <2>2
<1>9. /\ \A z \in Senders : z # s => received'[z] = received[z]
      /\ \A a \in Assets : received'[s][a] =
            IF a = Eth \/ a = x.asset THEN received[s][a] + held'[a] - before[a]
                                      ELSE received[s][a]
  BY <1>4, <1>5, <1>7
<1>10. received' \in [Senders -> Balances]
  <2>1. [a \in Assets |-> IF a = Eth \/ a = x.asset
                          THEN received[s][a] + held'[a] - before[a]
                          ELSE received[s][a]] \in [Assets -> Nat]
    BY <1>6, <1>7, <1>8
  <2> QED
    BY <1>4, <1>5, <1>7, <2>1 DEF Balances
<1>11. Quiet(open[1]) \/ ~nested =>
          \A a \in Assets : received'[s][a] = received[s][a] + held'[a] - held[a]
  <2> SUFFICES ASSUME Quiet(open[1]) \/ ~nested, NEW a \in Assets
               PROVE  received'[s][a] = received[s][a] + held'[a] - held[a]
    OBVIOUS
  <2>1. before[a] = held[a]
    BY <1>6
  <2>2. CASE a = Eth \/ a = x.asset
    BY <1>9, <2>1, <2>2
  <2>3. CASE ~(a = Eth \/ a = x.asset)
    BY <1>7, <1>8, <1>9, <2>3
  <2> QED
    BY <2>2, <2>3
<1>12. received'[s][Token] = received[s][Token] + held'[Token] - held[Token]
  <2>1. CASE x.asset = Token
    BY <1>11, <2>1, AssetFacts DEF Quiet, x
  <2>2. CASE x.asset # Token
    BY <1>7, <1>8, <1>9, <2>2, AssetFacts
  <2> QED
    BY <2>1, <2>2
<1> QED
  BY <1>2, <1>3, <1>4, <1>7, <1>8, <1>9, <1>10, <1>11, <1>12 DEF x, s

LEMMA RelayReturnsHeldInv ==
    ASSUME HeldInv, RelayReturns
    PROVE  HeldInv'
<1> DEFINE x == open[1].withdrawal
           s == x.recipient
<1>1. Rest /\ Fields /\ bundleStart \in Worlds /\ frameStart \in Worlds
  BY TypeParts DEF HeldInv
<1>2. /\ x \in Withdrawals /\ s \in Senders
      /\ open # <<>> /\ open' = Tail(open) /\ phase = "running"
      /\ held' \in Balances /\ master' \in Balances
      /\ received' \in [Senders -> Balances]
      /\ \A z \in Senders : z # s => received'[z] = received[z]
      /\ \A a \in Assets : held[a] <= held'[a] /\ held'[a] \in Nat /\ held[a] \in Nat
      /\ ~nested => \A a \in Assets : received'[s][a] = received[s][a] + held'[a] - held[a]
      /\ received'[s][Token] = received[s][Token] + held'[Token] - held[Token]
  BY ReturnFacts
<1>3. /\ phase' = phase /\ queue' = queue /\ bundleStart' = bundleStart
      /\ frameStart' = frameStart /\ nested' = nested /\ delegated' = delegated
      /\ Head(open) = open[1]
      /\ relayed' = relayed \cup {x} /\ called' = called \cup {x}
  BY <1>1, <1>2 DEF RelayReturns, fixed, config, Rest
<1> HIDE DEF x, s
<1>4. /\ open' \in Seq(Relays) /\ Len(open') = Len(open) - 1 /\ Len(open) \in Nat
      /\ \A i \in 1 .. Len(open') : i + 1 \in 1 .. Len(open) /\ open'[i] = open[i + 1]
  BY <1>1, <1>2 DEF Rest
<1>5. Rest'
  BY <1>1, <1>2, <1>3, <1>4 DEF RelayReturns, Rest, fixed, config
<1>6. Fields'
  BY <1>1, <1>2, <1>3 DEF RelayReturns, Fields
<1>7. FrameInv'
  <2>1. \A a \in Assets : Owed(received', a) = Owed(received, a) + received'[s][a] - received[s][a]
                           /\ Owed(received', a) \in Nat /\ Owed(received, a) \in Nat
                           /\ received'[s][a] \in Nat /\ received[s][a] \in Nat
                           /\ bundleStart.held[a] \in Nat
    <3>1. received \in [Senders -> Balances]
      BY <1>1 DEF Fields
    <3>2. \A a \in Assets : received'[s][a] \in Nat /\ received[s][a] \in Nat
      BY <1>2, <3>1 DEF Balances
    <3> QED
      BY <1>1, <1>2, <3>1, <3>2, OwedChange, WorldBalances
  <2>2. Backed(world)
    BY <1>2 DEF HeldInv, FrameInv
  <2>3. bundleStart.held[Token] + Owed(received', Token) <= held'[Token]
    <3>1. bundleStart.held[Token] + Owed(received, Token) <= held[Token]
      BY <2>2, BackedNow
    <3>2. /\ held[Token] \in Nat /\ held'[Token] \in Nat /\ bundleStart.held[Token] \in Nat
          /\ Owed(received, Token) \in Nat /\ received[s][Token] \in Nat
          /\ Owed(received', Token)
                = Owed(received, Token) + received'[s][Token] - received[s][Token]
          /\ received'[s][Token] = received[s][Token] + held'[Token] - held[Token]
      BY <1>2, <2>1, AssetFacts
    <3> QED
      BY <3>1, <3>2
  <2>4. ASSUME ~nested PROVE bundleStart.held[Eth] + Owed(received', Eth) <= held'[Eth]
    <3>1. bundleStart.held[Eth] + Owed(received, Eth) <= held[Eth]
      BY <2>2, <2>4, BackedNow
    <3>2. /\ held[Eth] \in Nat /\ held'[Eth] \in Nat /\ bundleStart.held[Eth] \in Nat
          /\ Owed(received, Eth) \in Nat /\ received[s][Eth] \in Nat
          /\ Owed(received', Eth) = Owed(received, Eth) + received'[s][Eth] - received[s][Eth]
          /\ received'[s][Eth] = received[s][Eth] + held'[Eth] - held[Eth]
      BY <1>2, <2>1, <2>4, AssetFacts
    <3> QED
      BY <3>1, <3>2
  <2>5. Backed(world)'
    BY <1>3, <2>3, <2>4, BackedNext
  <2>6. Backed(frameStart)' <=> Backed(frameStart)
    BY <1>3, SameBacked
  <2> QED
    BY <1>2, <1>3, <2>5, <2>6 DEF HeldInv, FrameInv, InFrame
<1>8. RelaysInv'
  <2> SUFFICES ASSUME NEW i \in 1 .. Len(open')
               PROVE  /\ \A a \in Assets : open'[i].before[a] <= held'[a]
                      /\ ~(Quiet(open[i])' \/ ~nested')
    BY DEF RelaysInv
  <2> DEFINE j == i + 1
  <2>1. j \in 1 .. Len(open) /\ j # 1 /\ open'[i] = open[j]
    BY <1>4
  <2> HIDE DEF j
  <2>2. open[j].before \in Balances
    BY <1>1, <2>1, OpenTypes DEF Rest
  <2>3. /\ \A a \in Assets : open[j].before[a] <= held[a] /\ open[j].before[a] \in Nat
        /\ ~(Quiet(open[j]) \/ ~nested)
    BY <2>1, <2>2 DEF HeldInv, RelaysInv, Balances
  <2>4. Quiet(open[i])' <=> Quiet(open[j])
    BY <1>3, <2>1 DEF Quiet, ApprovedSenders
  <2> QED
    BY <1>2, <1>3, <2>1, <2>3, <2>4
<1> QED
  BY <1>1, <1>3, <1>5, <1>6, <1>7, <1>8, TypePartsPrimed DEF HeldInv

\* What the three ways to finish an operation share.
LEMMA FinishHeldInv ==
    ASSUME HeldInv, NEW o \in Ops, NEW how \in {"succeeded", "reverted"}, Finish(o, how),
           phase = "settling", Fields', Backed(world)'
    PROVE  HeldInv'
<1>1. Rest /\ Fields /\ bundleStart \in Worlds /\ frameStart \in Worlds
  BY TypeParts DEF HeldInv
<1>2. queue # <<>> /\ open = <<>>
  BY DEF HeldInv, FrameInv, InFrame
<1>3. queue' = Tail(queue) /\ phase' = "executing" /\ result' = [result EXCEPT ![o] = how]
      /\ frameStart' = frameStart /\ bundleStart' = bundleStart /\ open' = open
  BY DEF Finish, frame
<1>4. queue' \in Seq(Ops)
  BY <1>1, <1>2, <1>3, HeadTail DEF Rest
<1>5. result' \in [Ops -> {"pending", "validated", "succeeded", "reverted"}]
  BY <1>1, <1>3 DEF Rest
<1>6. Rest'
  BY <1>1, <1>3, <1>4, <1>5 DEF Rest, Finish, fixed, config, frame
<1>7. FrameInv' /\ RelaysInv'
  BY <1>2, <1>3 DEF InFrame, FrameInv, RelaysInv, HeldInv
<1> QED
  BY <1>1, <1>3, <1>6, <1>7, TypePartsPrimed DEF HeldInv

\* What postOp finds.
LEMMA FrameFacts ==
    ASSUME HeldInv, NEW o \in Ops, phase = "settling"
    PROVE  /\ terms[o] \in Terms /\ terms[o].sender \in Senders
           /\ terms[o].prefund \in Nat /\ terms[o].withdrawal.asset \in Assets
           /\ received \in [Senders -> Balances] /\ Backed(world)
           /\ \A a \in Assets : /\ held[a] \in Nat /\ frameStart.held[a] \in Nat
                                /\ bundleStart.held[a] \in Nat
                                /\ received[terms[o].sender][a] \in Nat
<1>1. Rest /\ Fields /\ bundleStart \in Worlds /\ frameStart \in Worlds
  BY TypeParts DEF HeldInv
<1>2. terms[o] \in Terms
  BY <1>1 DEF Rest
<1>3. terms[o].sender \in Senders /\ terms[o].prefund \in Nat /\ terms[o].withdrawal.asset \in Assets
  BY <1>2, TermTypes, WithdrawalTypes
<1>4. Backed(world)
  BY DEF HeldInv, FrameInv
<1>5. \A a \in Assets : /\ held[a] \in Nat /\ frameStart.held[a] \in Nat
                        /\ bundleStart.held[a] \in Nat
                        /\ received[terms[o].sender][a] \in Nat
  BY <1>1, <1>3, WorldBalances DEF Fields, Balances
<1> QED
  BY <1>1, <1>2, <1>3, <1>4, <1>5 DEF Fields

LEMMA PostOpHeldInv ==
    ASSUME HeldInv, NEW o \in Ops, PostOp(o)
    PROVE  HeldInv'
<1> DEFINE t == terms[o]
           b == t.withdrawal.asset
<1>1. Rest /\ Fields
  BY TypeParts DEF HeldInv
<1>2. phase = "settling" /\ Finish(o, "succeeded") /\ TakeReceived(t.sender)
      /\ UNCHANGED <<master, spent, relayed, allowance, nested>>
  BY DEF PostOp
<1>3. /\ t \in Terms /\ t.sender \in Senders /\ t.prefund \in Nat /\ b \in Assets
      /\ received \in [Senders -> Balances] /\ Backed(world)
      /\ \A a \in Assets : /\ held[a] \in Nat /\ bundleStart.held[a] \in Nat
                           /\ received[t.sender][a] \in Nat
  BY <1>2, FrameFacts
<1>4. /\ deposit' \in Nat /\ held' \in Balances
      /\ \A a \in Assets : a # b => held'[a] = held[a]
      /\ held'[b] >= held[b] - received[t.sender][b]
  BY Settling DEF HeldInv
<1>5. received' = [received EXCEPT ![t.sender] = Zero] /\ bundleStart' = bundleStart
  BY <1>2 DEF TakeReceived, Zero, Finish
<1> HIDE DEF t, b
<1>6. /\ received' \in [Senders -> Balances]
      /\ \A a \in Assets : /\ Owed(received', a) = Owed(received, a) - received[t.sender][a]
                           /\ Owed(received', a) \in Nat /\ Owed(received, a) \in Nat
  BY <1>3, <1>5, OwedTaken, AssetFacts
<1>7. Fields'
  BY <1>1, <1>2, <1>4, <1>6 DEF Fields
<1>8. \A a \in Assets : bundleStart.held[a] + Owed(received, a) <= held[a]
                           => bundleStart.held[a] + Owed(received', a) <= held'[a]
  <2> SUFFICES ASSUME NEW a \in Assets, bundleStart.held[a] + Owed(received, a) <= held[a]
               PROVE  bundleStart.held[a] + Owed(received', a) <= held'[a]
    OBVIOUS
  <2>1. held'[a] \in Nat /\ held'[a] >= held[a] - received[t.sender][a]
    BY <1>3, <1>4 DEF Balances
  <2> QED
    BY <1>3, <1>6, <2>1
<1>9. Backed(world)'
  BY <1>2, <1>3, <1>5, <1>8, BackedNow, BackedNext, AssetFacts
<1> QED
  BY <1>2, <1>7, <1>9, FinishHeldInv DEF t

LEMMA PostOpAfterRevertHeldInv ==
    ASSUME HeldInv, NEW o \in Ops, PostOpAfterRevert(o)
    PROVE  HeldInv'
<1> DEFINE s == terms[o].sender
<1>1. Rest /\ Fields
  BY TypeParts DEF HeldInv
<1>2. phase = "settling" /\ Finish(o, "reverted")
      /\ TakeReceived(s) /\ UNCHANGED <<held, master, spent, relayed, allowance, nested>>
  BY DEF PostOpAfterRevert
<1>3. PICK charge \in 1 .. terms[o].prefund : deposit' = deposit + (terms[o].prefund - charge)
  BY DEF PostOpAfterRevert, Returned
<1>4. /\ terms[o].prefund \in Nat /\ s \in Senders
      /\ received \in [Senders -> Balances] /\ Backed(world)
      /\ \A a \in Assets : /\ held[a] \in Nat /\ bundleStart.held[a] \in Nat
                           /\ received[s][a] \in Nat
  BY <1>2, FrameFacts
<1>5. deposit' \in Nat
  BY <1>1, <1>3, <1>4 DEF Fields
<1>6. received' = [received EXCEPT ![s] = Zero] /\ bundleStart' = bundleStart
  BY <1>2 DEF TakeReceived, Zero, Finish
<1> HIDE DEF s
<1>7. /\ received' \in [Senders -> Balances]
      /\ \A a \in Assets : /\ Owed(received', a) = Owed(received, a) - received[s][a]
                           /\ Owed(received', a) \in Nat /\ Owed(received, a) \in Nat
  BY <1>4, <1>6, OwedTaken, AssetFacts
<1>8. Fields'
  BY <1>1, <1>2, <1>5, <1>7 DEF Fields
<1>9. \A a \in Assets : bundleStart.held[a] + Owed(received, a) <= held[a]
                           => bundleStart.held[a] + Owed(received', a) <= held'[a]
  BY <1>2, <1>4, <1>7
<1>10. Backed(world)'
  BY <1>2, <1>4, <1>6, <1>9, BackedNow, BackedNext, AssetFacts
<1> QED
  BY <1>2, <1>8, <1>10, FinishHeldInv

LEMMA WorldWithDeposit ==
    ASSUME NEW w \in Worlds, NEW n \in Nat
    PROVE  LET v == [w EXCEPT !.deposit = @ + n] IN
           /\ v \in Worlds
           /\ v.held = w.held /\ v.received = w.received /\ v.deposit = w.deposit + n
           /\ v.allowance = w.allowance /\ v.relayed = w.relayed /\ v.nested = w.nested
BY DEF Worlds

LEMMA PostOpRevertsHeldInv ==
    ASSUME HeldInv, NEW o \in Ops, PostOpReverts(o)
    PROVE  HeldInv'
<1>1. Rest /\ Fields /\ frameStart \in Worlds
  BY TypeParts DEF HeldInv
<1>2. phase = "settling" /\ Finish(o, "reverted") /\ bundleStart' = bundleStart
  BY DEF PostOpReverts, Finish
<1>3. PICK charge \in 1 .. terms[o].prefund :
         Restore([frameStart EXCEPT !.deposit = @ + Returned(terms[o], charge)])
  BY DEF PostOpReverts
<1>4. terms[o].prefund \in Nat
  BY <1>2, FrameFacts
<1>5. Returned(terms[o], charge) \in Nat
  BY <1>4 DEF Returned
<1> DEFINE w == [frameStart EXCEPT !.deposit = @ + Returned(terms[o], charge)]
<1>6. w \in Worlds /\ w.held = frameStart.held /\ w.received = frameStart.received
      /\ w.nested = frameStart.nested
  BY <1>1, <1>5, WorldWithDeposit
<1>7. Restore(w)
  BY <1>3
<1> HIDE DEF w
<1>8. Fields'
  BY <1>6, <1>7, Restoring
<1>9. Backed(frameStart)
  BY <1>2 DEF HeldInv, FrameInv, InFrame
<1>10. Backed(world)'
  BY <1>2, <1>6, <1>7, <1>9, RestoredBacked
<1> QED
  BY <1>2, <1>8, <1>10, FinishHeldInv

LEMMA HeldInvStep ==
    ASSUME HeldInv, [Next]_vars
    PROVE  HeldInv'
<1>1. Rest /\ Fields /\ bundleStart \in Worlds /\ frameStart \in Worlds
  BY TypeParts DEF HeldInv
<1>2. world \in Worlds
  BY <1>1, WorldFields
<1> USE DEF fixed, config, chain, frame
<1>3. ASSUME UNCHANGED vars PROVE HeldInv'
  <2>1. Rest' /\ Fields' /\ bundleStart' = bundleStart /\ frameStart' = frameStart
    BY <1>1, <1>3 DEF vars, Rest, Fields
  <2>2. FrameInv'
    BY <1>3, SameBacked DEF vars, HeldInv, FrameInv, InFrame
  <2>3. RelaysInv'
    BY <1>3 DEF vars, HeldInv, RelaysInv, Quiet, ApprovedSenders
  <2> QED
    BY <1>1, <2>1, <2>2, <2>3, TypePartsPrimed DEF HeldInv
<1>4. ASSUME BeginBundle PROVE HeldInv'
  <2>1. Rest' /\ Fields' /\ bundleStart' = world /\ frameStart' = frameStart
    BY <1>1, <1>4 DEF BeginBundle, Rest, Fields
  <2>2. /\ phase = "idle" /\ phase' = "validating" /\ open' = open
        /\ held' = held /\ received' = received /\ nested' = nested
    BY <1>4 DEF BeginBundle
  <2>3. received = NothingReceived /\ ~nested /\ open = <<>>
    BY <2>2 DEF HeldInv, FrameInv
  <2>4. \A a \in Assets : held[a] \in Nat /\ Owed(received, a) = 0
    BY <1>1, <2>3, OwedNothing DEF Fields, Balances
  <2>5. Backed(world)'
    BY <2>1, <2>2, <2>4, BackedNext, WorldParts, AssetFacts
  <2>6. FrameInv' /\ RelaysInv'
    BY <2>1, <2>2, <2>3, <2>5, WorldParts DEF FrameInv, RelaysInv, InFrame
  <2> QED
    BY <1>1, <1>2, <2>1, <2>6, TypePartsPrimed DEF HeldInv
<1>5. ASSUME BeginExecution PROVE HeldInv'
  <2>1. Rest' /\ Fields' /\ bundleStart' = bundleStart /\ frameStart' = frameStart
    BY <1>1, <1>5 DEF BeginExecution, Rest, Fields
  <2>2. Backed(world)' <=> Backed(world)
    BY <1>5, SameBacked DEF BeginExecution
  <2>3. FrameInv' /\ RelaysInv'
    BY <1>5, <2>2 DEF BeginExecution, HeldInv, FrameInv, RelaysInv, InFrame
  <2> QED
    BY <1>1, <2>1, <2>3, TypePartsPrimed DEF HeldInv
<1>6. ASSUME BeginFrame PROVE HeldInv'
  <2>1. Rest' /\ Fields' /\ bundleStart' = bundleStart /\ frameStart' = world
    BY <1>1, <1>6 DEF BeginFrame, Rest, Fields
  <2>2. /\ phase = "executing" /\ phase' = "running" /\ queue # <<>> /\ queue' = queue
        /\ held' = held /\ received' = received /\ nested' = nested /\ open' = open
    BY <1>6 DEF BeginFrame
  <2>3. Backed(world) /\ open = <<>> /\ bundleStart.received = NothingReceived
        /\ ~bundleStart.nested
    BY <2>2 DEF HeldInv, FrameInv
  <2>4. Backed(world)'
    BY <2>1, <2>2, <2>3, SameBacked
  <2>5. Backed(frameStart)'
    BY <2>1, <2>3 DEF Backed, Owed
  <2>6. FrameInv' /\ RelaysInv'
    BY <2>1, <2>2, <2>3, <2>4, <2>5 DEF FrameInv, RelaysInv, InFrame
  <2> QED
    BY <1>1, <1>2, <2>1, <2>6, TypePartsPrimed DEF HeldInv
<1>7. ASSUME EndBundle PROVE HeldInv'
  <2>1. Rest' /\ Fields' /\ bundleStart' = bundleStart /\ frameStart' = frameStart
    BY <1>1, <1>7, EmptyTypes DEF EndBundle, Rest, Fields
  <2>2. FrameInv' /\ RelaysInv'
    BY <1>7 DEF EndBundle, HeldInv, FrameInv, RelaysInv, InFrame
  <2> QED
    BY <1>1, <2>1, <2>2, TypePartsPrimed DEF HeldInv
<1>8. ASSUME NEW o \in Ops, Validate(o) PROVE HeldInv'
  <2>1. terms[o] \in Terms
    BY <1>1 DEF Rest
  <2>2. terms[o].sender \in Senders /\ terms[o].withdrawal \in Withdrawals /\ terms[o].prefund \in Nat
    BY <2>1, TermTypes
  <2>3. /\ queue' = Append(queue, o) /\ result' = [result EXCEPT ![o] = "validated"]
        /\ phase = "validating" /\ phase' = phase
        /\ deposit' = deposit - terms[o].prefund /\ terms[o].prefund <= deposit
        /\ allowance' = [allowance EXCEPT ![terms[o].sender][terms[o].withdrawal] = @ + 1]
        /\ UNCHANGED <<fixed, config, held, master, spent, relayed, received, nested,
                       bundleStart, frame>>
    BY <1>8 DEF Validate, GrantSponsorship
  <2>4. queue' \in Seq(Ops) /\ result' \in [Ops -> {"pending", "validated", "succeeded", "reverted"}]
    BY <1>1, <2>3 DEF Rest
  <2>5. deposit' \in Nat /\ allowance' \in [Senders -> [Withdrawals -> Nat]]
    BY <1>1, <2>2, <2>3 DEF Fields
  <2>6. Rest' /\ Fields' /\ bundleStart' = bundleStart /\ frameStart' = frameStart
    BY <1>1, <2>3, <2>4, <2>5 DEF Rest, Fields
  <2>7. Backed(world)' <=> Backed(world)
    BY <2>3, SameBacked
  <2>8. FrameInv' /\ RelaysInv'
    BY <2>3, <2>7 DEF HeldInv, FrameInv, RelaysInv, InFrame
  <2> QED
    BY <1>1, <2>6, <2>8, TypePartsPrimed DEF HeldInv
<1>9. ASSUME NEW o \in Ops, RevertBundle(o) PROVE HeldInv'
  <2>1. Fields' /\ received' = bundleStart.received /\ nested' = bundleStart.nested
    BY <1>1, <1>9, Restoring DEF RevertBundle, Restore
  <2>2. result' \in [Ops -> {"pending", "validated", "succeeded", "reverted"}]
    BY <1>1, <1>9 DEF RevertBundle, Rest
  <2>3. Rest' /\ bundleStart' = bundleStart /\ frameStart' = frameStart
    BY <1>1, <1>9, <2>2 DEF RevertBundle, Rest
  <2>4. phase = "validating" /\ phase' = "idle" /\ open' = open
    BY <1>9 DEF RevertBundle
  <2>5. FrameInv' /\ RelaysInv'
    BY <2>1, <2>4 DEF HeldInv, FrameInv, RelaysInv, InFrame
  <2> QED
    BY <1>1, <2>1, <2>3, <2>5, TypePartsPrimed DEF HeldInv
<1>10. ASSUME RelayReturns \/ \E x \in Withdrawals : RelayWithdraw(x) PROVE HeldInv'
  BY <1>10, RelayWithdrawHeldInv, RelayReturnsHeldInv
<1>11. ASSUME NEW o \in Ops, ExecutionEnds(o) PROVE HeldInv'
  <2>1. Rest' /\ Fields' /\ bundleStart' = bundleStart /\ frameStart' = frameStart
    BY <1>1, <1>11 DEF ExecutionEnds, Rest, Fields
  <2>2. /\ phase = "running" /\ phase' = "settling" /\ queue' = queue /\ open' = open
        /\ open = <<>> /\ held' = held /\ received' = received /\ nested' = nested
    BY <1>11 DEF ExecutionEnds
  <2>3. (Backed(world)' <=> Backed(world)) /\ (Backed(frameStart)' <=> Backed(frameStart))
    BY <2>1, <2>2, SameBacked
  <2>4. FrameInv' /\ RelaysInv'
    BY <2>1, <2>2, <2>3 DEF HeldInv, FrameInv, RelaysInv, InFrame
  <2> QED
    BY <1>1, <2>1, <2>4, TypePartsPrimed DEF HeldInv
<1>12. ASSUME NEW o \in Ops, ExecutionReverts(o) PROVE HeldInv'
  <2>1. /\ Restore(frameStart) /\ phase = "running" /\ phase' = "settling"
        /\ queue' = queue /\ open' = <<>> /\ bundleStart' = bundleStart
        /\ frameStart' = frameStart
    BY <1>12 DEF ExecutionReverts
  <2>2. Fields'
    BY <1>1, <2>1, Restoring
  <2>3. Rest'
    <3>1. <<>> \in Seq(Relays)
      OBVIOUS
    <3>2. open' \in Seq(Relays)
      BY <2>1, <3>1
    <3>3. executed' = FALSE /\ executed' \in BOOLEAN
      BY <1>12 DEF ExecutionReverts
    <3> QED
      BY <1>1, <1>12, <3>2, <3>3 DEF ExecutionReverts, Rest
  <2>4. Backed(frameStart)
    BY <2>1 DEF HeldInv, FrameInv, InFrame
  <2>5. Backed(world)' /\ Backed(frameStart)'
    BY <1>1, <2>1, <2>4, RestoredBacked, SameBacked
  <2>6. FrameInv' /\ RelaysInv'
    BY <2>1, <2>5 DEF HeldInv, FrameInv, RelaysInv, InFrame
  <2> QED
    BY <1>1, <2>1, <2>2, <2>3, <2>6, TypePartsPrimed DEF HeldInv
<1>13. ASSUME NEW o \in Ops, PostOp(o) \/ PostOpAfterRevert(o) \/ PostOpReverts(o) PROVE HeldInv'
  BY <1>13, PostOpHeldInv, PostOpAfterRevertHeldInv, PostOpRevertsHeldInv
<1>14. ASSUME MoveDeposit \/ (\E k \in Keys : SetVerifyingSigner(k))
                          \/ (\E s \in Senders : Redelegate(s)) \/ (\E a \in Assets : Sweep(a))
       PROVE HeldInv'
  <2>1. Administer
    BY <1>14 DEF MoveDeposit, SetVerifyingSigner, Redelegate, Sweep
  <2>2. deposit' \in Nat
    BY <1>1, <1>14, BundleAssumption DEF MoveDeposit, SetVerifyingSigner, Redelegate, Sweep, Fields
  <2>3. delegated' \in SUBSET Senders /\ verifyingSigner' \in Keys
    BY <1>1, <1>14 DEF MoveDeposit, SetVerifyingSigner, Redelegate, Sweep, Rest
  <2>4. held' \in Balances
    <3>1. CASE \E a \in Assets : Sweep(a)
      <4>1. PICK a \in Assets : Sweep(a)
        BY <3>1
      <4>2. PICK amount \in 0 .. held[a] : held' = [held EXCEPT ![a] = @ - amount]
        BY <4>1 DEF Sweep
      <4> QED
        BY <1>1, <4>2 DEF Fields, Balances
    <3>2. CASE held' = held
      BY <1>1, <3>2 DEF Fields
    <3> QED
      BY <1>14, <3>1, <3>2 DEF MoveDeposit, SetVerifyingSigner, Redelegate
  <2>5. Rest' /\ Fields' /\ bundleStart' = bundleStart /\ frameStart' = frameStart
    BY <1>1, <2>1, <2>2, <2>3, <2>4 DEF Administer, Rest, Fields
  <2>6. FrameInv' /\ RelaysInv'
    BY <2>1 DEF Administer, HeldInv, FrameInv, RelaysInv, InFrame
  <2> QED
    BY <1>1, <2>5, <2>6, TypePartsPrimed DEF HeldInv
<1> QED
  BY <1>3, <1>4, <1>5, <1>6, <1>7, <1>8, <1>9, <1>10, <1>11, <1>12, <1>13, <1>14
     DEF Next

\* TypeOK, for any bundle.
THEOREM TypeCorrect == Spec => []TypeOK
<1>1. Spec => []HeldInv
  BY InitHeldInv, HeldInvStep, PTL DEF Spec
<1>2. HeldInv => TypeOK
  BY DEF HeldInv
<1> QED
  BY <1>1, <1>2, PTL

LEMMA HeldInvHolds == Spec => []HeldInv
BY InitHeldInv, HeldInvStep, PTL DEF Spec

\* No operation, however it shares a bundle or a sender with others and whatever the
\* accounts execute, is paid in tokens that were held before, nor in ETH that was
\* unless a relay was entered inside another.
THEOREM BalancesUntouched == Spec => []HeldUnlessNested
<1>1. HeldInv => HeldUnlessNested
  <2> SUFFICES ASSUME HeldInv, phase # "idle"
               PROVE  /\ held[Token] >= bundleStart.held[Token]
                      /\ nested \/ held[Eth] >= bundleStart.held[Eth]
    BY DEF HeldUnlessNested
  <2>1. Fields /\ bundleStart \in Worlds
    BY TypeParts DEF HeldInv
  <2>2. Backed(world)
    BY DEF HeldInv, FrameInv
  <2>3. \A a \in Assets : held[a] \in Nat /\ bundleStart.held[a] \in Nat /\ Owed(received, a) \in Nat
    BY <2>1, OwedType, WorldBalances DEF Fields, Balances
  <2> QED
    BY <2>2, <2>3, BackedNow, AssetFacts
<1> QED
  BY <1>1, HeldInvHolds, PTL

-----------------------------------------------------------------------------
(* Every allowance that is open, and everything relayed, goes back to an    *)
(* operation the relayer signed.  What a revert of the bundle brings back   *)
(* must go back to operations of earlier bundles: those of this one become  *)
(* pending again.  Hence the queue: it holds every validated operation.     *)

Signs(o, s, x) == signed[o] # NoKey /\ terms[o].sender = s /\ terms[o].withdrawal = x

Approved(s, x) == \E o \in Ops : Signs(o, s, x) /\ result[o] # "pending"

Settled(s, x) == \E o \in Ops : Signs(o, s, x) /\ result[o] \in {"succeeded", "reverted"}

QueueInv ==
    /\ \A o \in Ops : result[o] = "validated" => \E i \in 1 .. Len(queue) : queue[i] = o
    /\ \A i \in 1 .. Len(queue) : /\ signed[queue[i]] # NoKey
                                  /\ terms[queue[i]].sender \in delegated
    /\ phase = "idle" => queue = <<>> /\ allowance = NoAllowance

ApprovedInv ==
    /\ \A s \in Senders, x \in Withdrawals : allowance[s][x] > 0 => Approved(s, x)
    /\ \A x \in relayed : Approved(x.recipient, x)
    /\ \A i \in 1 .. Len(open) : Approved(open[i].withdrawal.recipient, open[i].withdrawal)
    /\ InFrame => /\ \A s \in Senders, x \in Withdrawals :
                         frameStart.allowance[s][x] > 0 => Approved(s, x)
                  /\ \A x \in frameStart.relayed : Approved(x.recipient, x)
    /\ phase # "idle" => /\ bundleStart.allowance = NoAllowance
                         /\ \A x \in bundleStart.relayed : Settled(x.recipient, x)

SignedInv == HeldInv /\ QueueInv /\ ApprovedInv

LEMMA InitSignedInv == Init => QueueInv /\ ApprovedInv
<1> SUFFICES ASSUME Init PROVE QueueInv /\ ApprovedInv
  OBVIOUS
<1>1. /\ allowance = NoAllowance /\ relayed = {} /\ phase = "idle" /\ queue = <<>> /\ open = <<>>
      /\ \A o \in Ops : result[o] = "pending"
  BY DEF Init
<1>2. \A s \in Senders, x \in Withdrawals : ~(allowance[s][x] > 0)
  BY <1>1 DEF NoAllowance
<1> QED
  BY <1>1, <1>2 DEF QueueInv, ApprovedInv, InFrame

\* Results only become settled: approvals last as long as no bundle reverts.
LEMMA ApprovalsLast ==
    ASSUME \A o \in Ops : result[o] # "pending" => result'[o] # "pending",
           \A o \in Ops : result[o] \in {"succeeded", "reverted"} => result'[o] = result[o],
           terms' = terms, signed' = signed,
           NEW s, NEW x
    PROVE  /\ Approved(s, x) => Approved(s, x)'
           /\ Settled(s, x) => Settled(s, x)'
BY DEF Approved, Settled, Signs

LEMMA SettledIsApproved ==
    ASSUME NEW s, NEW x, Settled(s, x)
    PROVE  Approved(s, x)
BY DEF Approved, Settled, Signs

\* A step that moves neither the queue nor the results keeps the queue in order.
LEMMA SameQueue ==
    ASSUME QueueInv, phase # "idle",
           queue' = queue, result' = result, terms' = terms, signed' = signed,
           delegated' = delegated, phase' # "idle"
    PROVE  QueueInv'
BY DEF QueueInv

LEMMA FinishQueue ==
    ASSUME HeldInv, QueueInv, NEW o \in Ops, NEW how \in {"succeeded", "reverted"},
           Finish(o, how), InFrame, o = Head(queue)
    PROVE  /\ QueueInv'
           /\ \A p \in Ops : result[p] # "pending" => result'[p] # "pending"
           /\ \A p \in Ops : p # o => result'[p] = result[p]
           /\ result'[o] = how
<1>1. Rest
  BY TypeParts DEF HeldInv
<1>2. queue # <<>> /\ queue \in Seq(Ops)
  BY <1>1 DEF HeldInv, FrameInv, Rest
<1>3. /\ queue' = Tail(queue) /\ phase' = "executing" /\ terms' = terms /\ signed' = signed
      /\ delegated' = delegated /\ result' = [result EXCEPT ![o] = how]
  BY DEF Finish, fixed, config
<1>4. /\ \A p \in Ops : result[p] # "pending" => result'[p] # "pending"
      /\ \A p \in Ops : p # o => result'[p] = result[p]
      /\ result'[o] = how
  BY <1>1, <1>3 DEF Rest
<1>5. /\ Len(queue) \in Nat /\ Len(queue) >= 1 /\ queue[1] = o
      /\ Len(queue') = Len(queue) - 1
      /\ \A i \in 1 .. Len(queue') : queue'[i] = queue[i + 1]
  BY <1>2, <1>3
<1>6. ASSUME NEW p \in Ops, result'[p] = "validated"
      PROVE  \E i \in 1 .. Len(queue') : queue'[i] = p
  <2>1. p # o /\ result[p] = "validated"
    BY <1>4, <1>6
  <2>2. PICK j \in 1 .. Len(queue) : queue[j] = p
    BY <2>1 DEF QueueInv
  <2>3. j - 1 \in 1 .. Len(queue') /\ queue'[j - 1] = p
    BY <1>5, <2>1, <2>2
  <2> QED
    BY <2>3
<1>7. \A i \in 1 .. Len(queue') : /\ signed'[queue'[i]] # NoKey
                                  /\ terms'[queue'[i]].sender \in delegated'
  <2> SUFFICES ASSUME NEW i \in 1 .. Len(queue')
               PROVE  signed[queue[i + 1]] # NoKey /\ terms[queue[i + 1]].sender \in delegated
    BY <1>3, <1>5
  <2>1. i + 1 \in 1 .. Len(queue)
    BY <1>5
  <2> QED
    BY <2>1 DEF QueueInv
<1> QED
  BY <1>3, <1>4, <1>6, <1>7 DEF QueueInv

LEMMA FinishSignedInv ==
    ASSUME SignedInv, NEW o \in Ops, NEW how \in {"succeeded", "reverted"},
           Finish(o, how), InFrame, o = Head(queue),
           \/ relayed' = relayed /\ allowance' = allowance
           \/ relayed' = frameStart.relayed /\ allowance' = frameStart.allowance
    PROVE  QueueInv' /\ ApprovedInv'
<1>1. /\ QueueInv'
      /\ \A p \in Ops : result[p] # "pending" => result'[p] # "pending"
      /\ \A p \in Ops : p # o => result'[p] = result[p]
      /\ result'[o] = how
  BY FinishQueue DEF SignedInv
<1>2. phase' = "executing" /\ bundleStart' = bundleStart /\ terms' = terms /\ signed' = signed
      /\ open' = open
  BY DEF Finish, fixed, frame
<1>3. \A s, x : Approved(s, x) => Approved(s, x)'
  BY <1>1, <1>2 DEF Approved, Signs
<1>4. \A s, x : Settled(s, x) => Settled(s, x)'
  BY <1>1, <1>2 DEF Settled, Signs
<1>5. /\ \A s \in Senders, x \in Withdrawals : allowance'[s][x] > 0 => Approved(s, x)
      /\ \A x \in relayed' : Approved(x.recipient, x)
      /\ \A i \in 1 .. Len(open) : Approved(open[i].withdrawal.recipient, open[i].withdrawal)
  BY DEF SignedInv, ApprovedInv
<1>6. /\ bundleStart.allowance = NoAllowance
      /\ \A x \in bundleStart.relayed : Settled(x.recipient, x)
  BY DEF SignedInv, ApprovedInv, InFrame
<1> QED
  BY <1>1, <1>2, <1>3, <1>4, <1>5, <1>6 DEF ApprovedInv, InFrame

LEMMA SignedInvStep ==
    ASSUME SignedInv, [Next]_vars
    PROVE  QueueInv' /\ ApprovedInv'
<1>1. Rest /\ Fields /\ bundleStart \in Worlds /\ frameStart \in Worlds
  BY TypeParts DEF HeldInv, SignedInv
<1>2. QueueInv /\ ApprovedInv /\ HeldInv
  BY DEF SignedInv
<1> USE DEF fixed, config, chain, frame
<1>4. ASSUME UNCHANGED vars PROVE QueueInv' /\ ApprovedInv'
  BY <1>2, <1>4 DEF vars, QueueInv, ApprovedInv, Approved, Settled, Signs, InFrame
<1>5. ASSUME BeginBundle PROVE QueueInv' /\ ApprovedInv'
  <2>1. /\ phase = "idle" /\ phase' = "validating" /\ bundleStart' = world
        /\ UNCHANGED <<terms, signed, delegated, queue, result, relayed, allowance, open>>
    BY <1>5 DEF BeginBundle
  <2>2. queue = <<>> /\ allowance = NoAllowance
    BY <1>2, <2>1 DEF QueueInv
  <2>3. \A o \in Ops : result[o] # "validated"
    BY <1>2, <2>2 DEF QueueInv
  <2>4. \A s, x : Approved(s, x) => Settled(s, x)
    BY <1>1, <2>3 DEF Approved, Settled, Rest
  <2>5. world.relayed = relayed /\ world.allowance = allowance
    BY DEF world
  <2>6. QueueInv'
    BY <1>2, <2>1 DEF QueueInv
  <2>7. ApprovedInv'
    <3>1. \A s, x : (Approved(s, x) <=> Approved(s, x)') /\ (Settled(s, x) <=> Settled(s, x)')
      BY <2>1 DEF Approved, Settled, Signs
    <3> QED
      BY <1>2, <2>1, <2>2, <2>4, <2>5, <3>1 DEF ApprovedInv, InFrame
  <2> QED
    BY <2>6, <2>7
<1>6. ASSUME BeginExecution PROVE QueueInv' /\ ApprovedInv'
  BY <1>2, <1>6 DEF BeginExecution, QueueInv, ApprovedInv, Approved, Settled, Signs, InFrame
<1>7. ASSUME BeginFrame PROVE QueueInv' /\ ApprovedInv'
  <2>1. /\ phase = "executing" /\ phase' = "running" /\ frameStart' = world
        /\ bundleStart' = bundleStart
        /\ UNCHANGED <<terms, signed, delegated, queue, result, relayed, allowance, open>>
    BY <1>7 DEF BeginFrame
  <2>2. QueueInv'
    BY <1>2, <2>1, SameQueue
  <2>3. \A s, x : (Approved(s, x) <=> Approved(s, x)') /\ (Settled(s, x) <=> Settled(s, x)')
    BY <2>1 DEF Approved, Settled, Signs
  <2>4. world.relayed = relayed /\ world.allowance = allowance
    BY DEF world
  <2> QED
    BY <1>2, <2>1, <2>2, <2>3, <2>4 DEF ApprovedInv, InFrame
<1>8. ASSUME EndBundle PROVE QueueInv' /\ ApprovedInv'
  <2>1. /\ phase' = "idle" /\ queue = <<>> /\ allowance' = NoAllowance
        /\ UNCHANGED <<terms, signed, delegated, queue, result, relayed, open>>
    BY <1>8 DEF EndBundle
  <2>2. \A s, x : Approved(s, x) <=> Approved(s, x)'
    BY <2>1 DEF Approved, Signs
  <2>3. \A s \in Senders, x \in Withdrawals : ~(allowance'[s][x] > 0)
    BY <2>1 DEF NoAllowance
  <2> QED
    BY <1>2, <2>1, <2>2, <2>3 DEF QueueInv, ApprovedInv, InFrame
<1>9. ASSUME NEW o \in Ops, Validate(o) PROVE QueueInv' /\ ApprovedInv'
  <2> DEFINE t == terms[o]
  <2>1. /\ phase = "validating" /\ phase' = phase /\ result[o] = "pending"
        /\ terms' = terms /\ signed' = signed /\ delegated' = delegated
        /\ relayed' = relayed /\ bundleStart' = bundleStart /\ open' = open
        /\ queue' = Append(queue, o) /\ result' = [result EXCEPT ![o] = "validated"]
        /\ allowance' = [allowance EXCEPT ![t.sender][t.withdrawal] = @ + 1]
        /\ t.sender \in delegated /\ signed[o] = verifyingSigner
    BY <1>9 DEF Validate, GrantSponsorship, Accepted
  <2>2. signed[o] # NoKey
    BY <1>1, <2>1, BundleAssumption DEF Rest
  <2>3. \A p \in Ops : result'[p] = IF p = o THEN "validated" ELSE result[p]
    BY <1>1, <2>1 DEF Rest
  <2>4. /\ Len(queue') = Len(queue) + 1 /\ Len(queue) \in Nat /\ queue'[Len(queue) + 1] = o
        /\ \A i \in 1 .. Len(queue) : queue'[i] = queue[i]
    BY <1>1, <2>1 DEF Rest
  <2>5. QueueInv'
    <3>1. ASSUME NEW p \in Ops, result'[p] = "validated"
          PROVE  \E i \in 1 .. Len(queue') : queue'[i] = p
      <4>1. CASE p = o
        BY <2>4, <4>1
      <4>2. CASE p # o
        <5>1. PICK i \in 1 .. Len(queue) : queue[i] = p
          BY <1>2, <2>3, <3>1, <4>2 DEF QueueInv
        <5> QED
          BY <2>4, <5>1
      <4> QED
        BY <4>1, <4>2
    <3>2. ASSUME NEW i \in 1 .. Len(queue')
          PROVE  signed[queue'[i]] # NoKey /\ terms[queue'[i]].sender \in delegated
      <4>1. CASE i = Len(queue) + 1
        BY <2>1, <2>2, <2>4, <4>1
      <4>2. CASE i \in 1 .. Len(queue)
        BY <1>2, <2>4, <4>2 DEF QueueInv
      <4> QED
        BY <2>4, <4>1, <4>2
    <3> QED
      BY <2>1, <3>1, <3>2 DEF QueueInv
  <2>6. \A s, x : (Approved(s, x) => Approved(s, x)') /\ (Settled(s, x) => Settled(s, x)')
    BY <2>1, <2>3 DEF Approved, Settled, Signs
  <2>7. \A s, x : s = t.sender /\ x = t.withdrawal => Approved(s, x)'
    BY <2>1, <2>2, <2>3 DEF Approved, Signs
  <2>8. ASSUME NEW s \in Senders, NEW x \in Withdrawals, allowance'[s][x] > 0
        PROVE  Approved(s, x)'
    <3>1. CASE s = t.sender /\ x = t.withdrawal
      BY <2>7, <3>1
    <3>2. CASE ~(s = t.sender /\ x = t.withdrawal)
      <4>1. allowance'[s][x] = allowance[s][x]
        BY <1>1, <2>1, <3>2 DEF Fields
      <4> QED
        BY <1>2, <2>6, <2>8, <4>1 DEF ApprovedInv
    <3> QED
      BY <3>1, <3>2
  <2>9. ~InFrame'
    BY <2>1 DEF InFrame
  <2> QED
    BY <1>2, <2>1, <2>5, <2>6, <2>8, <2>9 DEF ApprovedInv
<1>10. ASSUME NEW o \in Ops, RevertBundle(o) PROVE QueueInv' /\ ApprovedInv'
  <2>1. /\ phase = "validating" /\ phase' = "idle" /\ queue' = <<>> /\ open' = open
        /\ terms' = terms /\ signed' = signed
        /\ relayed' = bundleStart.relayed /\ allowance' = bundleStart.allowance
        /\ result' = [p \in Ops |-> IF result[p] = "validated" THEN "pending" ELSE result[p]]
    BY <1>10 DEF RevertBundle, Restore
  <2>2. /\ bundleStart.allowance = NoAllowance
        /\ \A x \in bundleStart.relayed : Settled(x.recipient, x)
    BY <1>2, <2>1 DEF ApprovedInv
  <2>3. \A s, x : Settled(s, x) => Approved(s, x)'
    BY <2>1 DEF Settled, Approved, Signs
  <2>4. \A s \in Senders, x \in Withdrawals : ~(allowance'[s][x] > 0)
    BY <2>1, <2>2 DEF NoAllowance
  <2>5. \A p \in Ops : result'[p] # "validated"
    BY <2>1
  <2>6. QueueInv'
    BY <2>1, <2>2, <2>5 DEF QueueInv
  <2>7. open' = <<>>
    BY <1>2, <2>1 DEF HeldInv, FrameInv
  <2>8. ApprovedInv'
    BY <2>1, <2>2, <2>3, <2>4, <2>7 DEF ApprovedInv, InFrame
  <2> QED
    BY <2>6, <2>8
<1>11. ASSUME NEW x \in Withdrawals, RelayWithdraw(x)
       PROVE  QueueInv' /\ ApprovedInv'
  <2> DEFINE s == x.recipient
             r == [withdrawal |-> x, before |-> held]
  <2>1. /\ phase = "running" /\ phase' = phase /\ queue' = queue /\ result' = result
        /\ terms' = terms /\ signed' = signed /\ delegated' = delegated
        /\ bundleStart' = bundleStart /\ frameStart' = frameStart
        /\ allowance[s][x] > 0
        /\ allowance' = [allowance EXCEPT ![s][x] = @ - 1]
        /\ relayed' = relayed /\ open' = <<r>> \o open
    BY <1>11 DEF RelayWithdraw, ConsumeSponsorship
  <2>2. s \in Senders
    BY WithdrawalTypes
  <2>3. Approved(x.recipient, x)
    BY <1>2, <2>1, <2>2 DEF ApprovedInv
  <2>4. \A z, y : (Approved(z, y) <=> Approved(z, y)') /\ (Settled(z, y) <=> Settled(z, y)')
    BY <2>1 DEF Approved, Settled, Signs
  <2>5. \A z \in Senders, y \in Withdrawals : allowance'[z][y] > 0 => allowance[z][y] > 0
    BY <1>1, <2>1, <2>2 DEF Fields
  <2>6. QueueInv'
    BY <1>2, <2>1, SameQueue
  <2>7. \A i \in 1 .. Len(open') : open'[i] = r \/ \E j \in 1 .. Len(open) : open'[i] = open[j]
    <3>1. r \in Relays
      BY <1>1 DEF Relays, Fields
    <3> HIDE DEF r
    <3>2. /\ Len(open') = Len(open) + 1 /\ Len(open) \in Nat
          /\ open'[1] = r /\ \A j \in 1 .. Len(open) : open'[j + 1] = open[j]
      BY <1>1, <2>1, <3>1 DEF Rest
    <3> SUFFICES ASSUME NEW i \in 1 .. Len(open'), i # 1
                 PROVE  \E j \in 1 .. Len(open) : open'[i] = open[j]
      BY <3>2
    <3>3. i - 1 \in 1 .. Len(open) /\ open'[(i - 1) + 1] = open[i - 1] /\ (i - 1) + 1 = i
      BY <3>2
    <3> QED
      BY <3>3
  <2>8. \A i \in 1 .. Len(open') :
           Approved(open'[i].withdrawal.recipient, open'[i].withdrawal)
    BY <1>2, <2>3, <2>7 DEF ApprovedInv
  <2> QED
    BY <1>2, <2>1, <2>4, <2>5, <2>6, <2>8 DEF ApprovedInv, InFrame
<1>18. ASSUME RelayReturns PROVE QueueInv' /\ ApprovedInv'
  <2> DEFINE x == open[1].withdrawal
  <2>1. /\ phase = "running" /\ phase' = phase /\ queue' = queue /\ result' = result
        /\ terms' = terms /\ signed' = signed /\ delegated' = delegated
        /\ bundleStart' = bundleStart /\ frameStart' = frameStart
        /\ allowance' = allowance /\ open # <<>> /\ open' = Tail(open)
        /\ 1 \in 1 .. Len(open) /\ relayed' = relayed \cup {x}
    BY <1>1, <1>18 DEF RelayReturns, Rest
  <2>2. \A i \in 1 .. Len(open') : i + 1 \in 1 .. Len(open) /\ open'[i] = open[i + 1]
    BY <1>1, <2>1 DEF Rest
  <2>3. Approved(x.recipient, x)
    BY <1>2, <2>1 DEF ApprovedInv
  <2>4. \A z, y : (Approved(z, y) <=> Approved(z, y)') /\ (Settled(z, y) <=> Settled(z, y)')
    BY <2>1 DEF Approved, Settled, Signs
  <2>5. QueueInv'
    BY <1>2, <2>1, SameQueue
  <2> QED
    BY <1>2, <2>1, <2>2, <2>3, <2>4, <2>5 DEF ApprovedInv, InFrame
<1>12. ASSUME NEW o \in Ops, ExecutionEnds(o) PROVE QueueInv' /\ ApprovedInv'
  BY <1>2, <1>12 DEF ExecutionEnds, QueueInv, ApprovedInv, Approved, Settled, Signs, InFrame
<1>13. ASSUME NEW o \in Ops, ExecutionReverts(o) PROVE QueueInv' /\ ApprovedInv'
  <2>1. /\ phase = "running" /\ phase' = "settling" /\ queue' = queue /\ result' = result
        /\ terms' = terms /\ signed' = signed /\ delegated' = delegated
        /\ bundleStart' = bundleStart /\ frameStart' = frameStart
        /\ relayed' = frameStart.relayed /\ allowance' = frameStart.allowance /\ open' = <<>>
    BY <1>13 DEF ExecutionReverts, Restore
  <2>2. \A s, x : (Approved(s, x) <=> Approved(s, x)') /\ (Settled(s, x) <=> Settled(s, x)')
    BY <2>1 DEF Approved, Settled, Signs
  <2>3. QueueInv'
    BY <1>2, <2>1, SameQueue
  <2> QED
    BY <1>2, <2>1, <2>2, <2>3 DEF ApprovedInv, InFrame
<1>14. ASSUME NEW o \in Ops, PostOp(o) PROVE QueueInv' /\ ApprovedInv'
  <2>1. phase = "settling" /\ o = Head(queue) /\ Finish(o, "succeeded")
        /\ relayed' = relayed /\ allowance' = allowance
    BY <1>14 DEF PostOp
  <2>2. InFrame
    BY <2>1 DEF InFrame
  <2> QED
    BY <2>1, <2>2, FinishSignedInv
<1>15. ASSUME NEW o \in Ops, PostOpAfterRevert(o) PROVE QueueInv' /\ ApprovedInv'
  <2>1. phase = "settling" /\ o = Head(queue) /\ Finish(o, "reverted")
        /\ relayed' = relayed /\ allowance' = allowance
    BY <1>15 DEF PostOpAfterRevert
  <2>2. InFrame
    BY <2>1 DEF InFrame
  <2> QED
    BY <2>1, <2>2, FinishSignedInv
<1>16. ASSUME NEW o \in Ops, PostOpReverts(o) PROVE QueueInv' /\ ApprovedInv'
  <2>1. phase = "settling" /\ o = Head(queue) /\ Finish(o, "reverted")
    BY <1>16 DEF PostOpReverts
  <2>2. PICK charge \in 1 .. terms[o].prefund :
           Restore([frameStart EXCEPT !.deposit = @ + Returned(terms[o], charge)])
    BY <1>16 DEF PostOpReverts
  <2>3. Returned(terms[o], charge) \in Nat
    <3>1. terms[o].prefund \in Nat
      BY <1>1, TermTypes DEF Rest
    <3> QED
      BY <3>1 DEF Returned
  <2>4. relayed' = frameStart.relayed /\ allowance' = frameStart.allowance
    BY <1>1, <2>2, <2>3, WorldWithDeposit DEF Restore
  <2> QED
    BY <2>1, <2>4, FinishSignedInv DEF InFrame
<1>17. ASSUME MoveDeposit \/ (\E a \in Assets : Sweep(a))
              \/ (\E k \in Keys : SetVerifyingSigner(k)) \/ (\E s \in Senders : Redelegate(s))
       PROVE  QueueInv' /\ ApprovedInv'
  <2>1. Administer
    BY <1>17 DEF MoveDeposit, Sweep, SetVerifyingSigner, Redelegate
  <2>2. /\ phase = "idle" /\ phase' = phase /\ queue' = queue /\ result' = result
        /\ terms' = terms /\ signed' = signed /\ relayed' = relayed /\ allowance' = allowance
        /\ open' = open
    BY <2>1 DEF Administer
  <2>3. \A s, x : Approved(s, x) <=> Approved(s, x)'
    BY <2>2 DEF Approved, Signs
  <2>4. queue = <<>>
    BY <1>2, <2>2 DEF QueueInv
  <2> QED
    BY <1>2, <2>2, <2>3, <2>4 DEF QueueInv, ApprovedInv, InFrame
<1> QED
  BY <1>4, <1>5, <1>6, <1>7, <1>8, <1>9, <1>10, <1>11, <1>12, <1>13, <1>14, <1>15, <1>16, <1>17,
     <1>18 DEF Next

LEMMA SignedInvHolds == Spec => []SignedInv
<1>1. Init => SignedInv
  BY InitHeldInv, InitSignedInv DEF SignedInv
<1>2. SignedInv /\ [Next]_vars => SignedInv'
  BY HeldInvStep, SignedInvStep DEF SignedInv
<1> QED
  BY <1>1, <1>2, PTL DEF Spec

\* No withdrawal is relayed that the relayer did not sign into an operation of its
\* recipient's that was included, whatever the accounts call.
THEOREM RelayedWasApproved == Spec => []OnlyApprovedRelayed
<1>1. SignedInv => OnlyApprovedRelayed
  BY DEF SignedInv, ApprovedInv, Approved, Signs, OnlyApprovedRelayed
<1> QED
  BY <1>1, SignedInvHolds, PTL

-----------------------------------------------------------------------------
(* An account of the approved make relays the withdrawal it was signed for, *)
(* once, and its fee is in the received slot or with the master EOA by the  *)
(* time postOp runs.                                                        *)

Current == terms[Head(queue)].withdrawal

Paid(a) == IF Current \in called /\ a = Current.asset THEN Current.fee ELSE 0

\* What an approved account received was received in the frame of its own operation.
SlotInv ==
    \A s \in ApprovedSenders :
        /\ ~(InFrame /\ s = Sender) => received[s] = Zero
        /\ InFrame => frameStart.received[s] = Zero

\* It relays the withdrawal of the operation executed, once.
CallersInv ==
    \A i \in 1 .. Len(open) :
        open[i].withdrawal.recipient \in ApprovedSenders =>
            /\ open[i].withdrawal = Current /\ Current.recipient = Sender
            /\ Current \notin called /\ Current.note \in spent

FeeInv ==
    InFrame /\ Sender \in ApprovedSenders =>
        /\ Current \in called /\ phase = "running" => Current.note \in spent
        /\ deposit = frameStart.deposit
        /\ phase = "settling" /\ executed => Current \in called
        /\ phase = "running" \/ executed =>
              \A a \in Assets : /\ received[Sender][a] = (IF Current.toPaymaster THEN Paid(a) ELSE 0)
                              /\ master[a] >= frameStart.master[a]
                                              + (IF Current.toPaymaster THEN 0 ELSE Paid(a))
                              /\ held[a] >= frameStart.held[a] + received[Sender][a]

PaidInv == SlotInv /\ CallersInv /\ FeeInv

SignableInv == \A o \in Ops : signed[o] # NoKey => Signable(terms[o])

LEMMA ApprovedAreSenders == ApprovedSenders \subseteq Senders
BY BundleAssumption DEF ApprovedSenders

\* What there is in a frame.
LEMMA InsideFrame ==
    ASSUME SignedInv, SignableInv, InFrame
    PROVE  /\ queue # <<>> /\ Head(queue) \in Ops /\ Sender \in Senders /\ Current \in Withdrawals
           /\ Current.recipient = Sender /\ Sender \in delegated
<1>1. Rest
  BY TypeParts DEF HeldInv, SignedInv
<1>2. queue # <<>> /\ queue \in Seq(Ops)
  BY <1>1 DEF SignedInv, HeldInv, FrameInv, Rest
<1>3. Head(queue) \in Ops /\ Head(queue) = queue[1] /\ 1 \in 1 .. Len(queue)
  BY <1>2, HeadTail
<1>4. Sender \in Senders /\ Current \in Withdrawals
  BY <1>1, <1>3, TermTypes DEF Sender, Current, Rest
<1>5. signed[Head(queue)] # NoKey /\ Sender \in delegated
  BY <1>3 DEF SignedInv, QueueInv, Sender
<1>6. Current.recipient = Sender
  BY <1>3, <1>5 DEF SignableInv, Signable, Current, Sender
<1> QED
  BY <1>2, <1>3, <1>4, <1>5, <1>6

\* A step into the phases outside frames, which gives nobody anything.
LEMMA OutsidePaidInv ==
    ASSUME phase' \in {"idle", "validating", "executing"}, open' = <<>>,
           \A s \in ApprovedSenders' : received'[s] = Zero
    PROVE  PaidInv'
<1>1. ~InFrame' /\ Len(open') = 0
  BY DEF InFrame
<1>2. SlotInv'
  BY <1>1 DEF SlotInv
<1>3. CallersInv'
  BY <1>1 DEF CallersInv
<1>4. FeeInv'
  BY <1>1 DEF FeeInv
<1> QED
  BY <1>2, <1>3, <1>4 DEF PaidInv

\* Settling an operation takes what its sender received.
LEMMA FinishPaidInv ==
    ASSUME SignedInv, PaidInv, SignableInv, NEW o \in Ops, phase = "settling", o = Head(queue),
           NEW how, Finish(o, how),
           \/ TakeReceived(terms[o].sender)
           \/ received' = frameStart.received
    PROVE  PaidInv'
<1>1. Rest /\ Fields
  BY TypeParts DEF HeldInv, SignedInv
<1>2. InFrame /\ Sender = terms[o].sender /\ open = <<>>
  BY DEF InFrame, Sender, SignedInv, HeldInv, FrameInv
<1>3. phase' = "executing" /\ open' = open /\ delegated' = delegated
  BY DEF Finish, frame, config
<1>4. ApprovedSenders' = ApprovedSenders
  BY <1>3 DEF ApprovedSenders
<1>5. ASSUME NEW s \in ApprovedSenders PROVE received'[s] = Zero
  <2>1. s \in Senders
    BY ApprovedAreSenders
  <2>2. CASE received' = frameStart.received
    BY <1>2, <2>2 DEF PaidInv, SlotInv
  <2>3. CASE TakeReceived(Sender)
    <3>1. received' = [received EXCEPT ![Sender] = Zero]
      BY <2>3 DEF TakeReceived, Zero
    <3>2. s # Sender => received[s] = Zero
      BY DEF PaidInv, SlotInv
    <3> QED
      BY <1>1, <2>1, <3>1, <3>2 DEF Fields
  <2> QED
    BY <1>2, <2>2, <2>3
<1> QED
  BY <1>2, <1>3, <1>4, <1>5, OutsidePaidInv

LEMMA RelayWithdrawPaidInv ==
    ASSUME SignedInv, PaidInv, SignableInv, NEW x \in Withdrawals, RelayWithdraw(x)
    PROVE  PaidInv'
<1> DEFINE r == [withdrawal |-> x, before |-> held]
<1>1. Rest /\ Fields
  BY TypeParts DEF HeldInv, SignedInv
<1>2. /\ phase = "running" /\ UNCHANGED <<phase, queue, terms, delegated, held, master, deposit,
                                          received, called, frameStart, executed>>
      /\ x.note \notin spent /\ spent' = spent \cup {x.note}
      /\ open' = <<r>> \o open /\ MayCall(x.recipient)
      /\ x.recipient \in ApprovedSenders => x = terms[Head(queue)].withdrawal
  BY DEF RelayWithdraw, fixed, config
<1>3. InFrame /\ InFrame' /\ Sender' = Sender /\ Current' = Current
      /\ ApprovedSenders' = ApprovedSenders
  BY <1>2 DEF InFrame, Sender, Current, ApprovedSenders
<1>4. \A a \in Assets : Paid(a)' = Paid(a)
  BY <1>2, <1>3 DEF Paid
<1>5. SlotInv'
  BY <1>2, <1>3 DEF PaidInv, SlotInv
<1>6. FeeInv'
  BY <1>2, <1>3, <1>4 DEF PaidInv, FeeInv
<1>7. CallersInv'
  <2>1. r \in Relays
    BY <1>1 DEF Relays, Fields
  <2> HIDE DEF r
  <2>2. /\ Len(open') = Len(open) + 1 /\ Len(open) \in Nat
        /\ open'[1] = r /\ \A i \in 1 .. Len(open) : open'[i + 1] = open[i]
    BY <1>1, <1>2, <2>1 DEF Rest
  <2> SUFFICES ASSUME NEW i \in 1 .. Len(open'),
                      open'[i].withdrawal.recipient \in ApprovedSenders
               PROVE  /\ open'[i].withdrawal = Current /\ Current.recipient = Sender
                      /\ Current \notin called /\ Current.note \in spent'
    BY <1>2, <1>3 DEF CallersInv
  <2>3. CASE i = 1
    <3>1. open'[i].withdrawal = x
      BY <2>2, <2>3 DEF r
    <3>2. x = Current
      BY <1>2, <3>1 DEF Current
    <3>3. Current.recipient = Sender
      BY <1>3, InsideFrame
    <3>4. Current \notin called
      BY <1>2, <1>3, <3>1, <3>2, <3>3 DEF PaidInv, FeeInv
    <3> QED
      BY <1>2, <3>1, <3>2, <3>3, <3>4
  <2>4. CASE i # 1
    <3>1. i - 1 \in 1 .. Len(open) /\ open'[(i - 1) + 1] = open[i - 1] /\ (i - 1) + 1 = i
      BY <2>2, <2>4
    <3>2. open'[i] = open[i - 1]
      BY <3>1
    <3> QED
      BY <1>2, <3>1, <3>2 DEF PaidInv, CallersInv
  <2> QED
    BY <2>3, <2>4
<1> QED
  BY <1>5, <1>6, <1>7 DEF PaidInv

LEMMA RelayReturnsPaidInv ==
    ASSUME SignedInv, PaidInv, SignableInv, RelayReturns
    PROVE  PaidInv'
<1> DEFINE x == open[1].withdrawal
<1>1. Rest /\ Fields /\ frameStart \in Worlds
  BY TypeParts DEF HeldInv, SignedInv
<1>2. /\ x \in Withdrawals /\ x.recipient \in Senders /\ x.asset \in Assets /\ x.fee \in Nat
      /\ open # <<>> /\ open' = Tail(open) /\ phase = "running"
      /\ \A z \in Senders : z # x.recipient => received'[z] = received[z]
      /\ \A a \in Assets : held[a] <= held'[a] /\ held'[a] \in Nat /\ held[a] \in Nat
      /\ \A a \in Assets : master[a] <= master'[a]
      /\ \A a \in Assets : a # x.asset => held'[a] = held[a] /\ master'[a] = master[a]
      /\ held'[x.asset] = held[x.asset] + (IF x.toPaymaster THEN x.fee ELSE 0)
      /\ master'[x.asset] = master[x.asset] + (IF x.toPaymaster THEN 0 ELSE x.fee)
      /\ Quiet(open[1]) => \A a \in Assets : received'[x.recipient][a]
                                   = received[x.recipient][a] + held'[a] - held[a]
  BY ReturnFacts DEF SignedInv
<1>3. /\ UNCHANGED <<phase, queue, terms, delegated, deposit, spent, frameStart, executed>>
      /\ Head(open) = open[1] /\ 1 \in 1 .. Len(open)
      /\ called' = called \cup {x}
  BY <1>1, <1>2 DEF RelayReturns, fixed, config, Rest
<1>4. InFrame /\ InFrame' /\ Sender' = Sender /\ Current' = Current
      /\ ApprovedSenders' = ApprovedSenders
  BY <1>2, <1>3 DEF InFrame, Sender, Current, ApprovedSenders
<1>5. /\ Sender \in Senders /\ Current \in Withdrawals /\ Current.recipient = Sender
  BY <1>4, InsideFrame
<1>6. x.recipient \in ApprovedSenders => x = Current /\ Current \notin called
                                         /\ Current.note \in spent /\ Quiet(open[1])
  BY <1>3 DEF PaidInv, CallersInv, Quiet
<1> HIDE DEF x
<1>7. SlotInv'
  <2> SUFFICES ASSUME NEW s \in ApprovedSenders
               PROVE  /\ s # Sender => received'[s] = Zero
                      /\ frameStart.received[s] = Zero
    BY <1>3, <1>4 DEF SlotInv
  <2>1. s \in Senders /\ (s # Sender => received[s] = Zero) /\ frameStart.received[s] = Zero
    BY <1>4, ApprovedAreSenders DEF PaidInv, SlotInv
  <2>2. s = x.recipient => s = Sender
    BY <1>5, <1>6
  <2> QED
    BY <1>2, <2>1, <2>2
<1>8. CallersInv'
  <2> SUFFICES ASSUME NEW i \in 1 .. Len(open')
               PROVE  open'[i].withdrawal.recipient \notin ApprovedSenders
    BY <1>4 DEF CallersInv
  <2>1. i + 1 \in 1 .. Len(open) /\ open'[i] = open[i + 1] /\ i + 1 # 1
    BY <1>1, <1>2 DEF Rest
  <2>2. ~Quiet(open[i + 1])
    <3>1. \A j \in 1 .. Len(open) : Quiet(open[j]) => j = 1
      BY DEF SignedInv, HeldInv, RelaysInv
    <3> QED
      BY <2>1, <3>1
  <2> QED
    BY <2>1, <2>2 DEF Quiet
<1>9. FeeInv'
  <2> SUFFICES ASSUME Sender \in ApprovedSenders
               PROVE  /\ Current.note \in spent \/ Current \notin called'
                      /\ deposit = frameStart.deposit
                      /\ \A a \in Assets :
                            /\ received'[Sender][a] = (IF Current.toPaymaster THEN Paid(a)' ELSE 0)
                            /\ master'[a] >= frameStart.master[a]
                                             + (IF Current.toPaymaster THEN 0 ELSE Paid(a)')
                            /\ held'[a] >= frameStart.held[a] + received'[Sender][a]
    BY <1>2, <1>3, <1>4 DEF FeeInv
  <2>1. /\ Current \in called => Current.note \in spent
        /\ deposit = frameStart.deposit
        /\ \A a \in Assets : /\ received[Sender][a] = (IF Current.toPaymaster THEN Paid(a) ELSE 0)
                             /\ master[a] >= frameStart.master[a]
                                             + (IF Current.toPaymaster THEN 0 ELSE Paid(a))
                             /\ held[a] >= frameStart.held[a] + received[Sender][a]
    BY <1>2, <1>4 DEF PaidInv, FeeInv
  <2>2. \A a \in Assets : /\ master[a] \in Nat /\ master'[a] \in Nat
                          /\ frameStart.master[a] \in Nat /\ frameStart.held[a] \in Nat
                          /\ received[Sender][a] \in Nat
    <3>1. master' \in Balances
      BY ReturnFacts DEF SignedInv
    <3> QED
      BY <1>1, <1>5, <3>1 DEF Fields, Balances, Worlds
  <2>3. Current.fee \in Nat /\ Current.asset \in Assets
    BY <1>5, WithdrawalTypes
  <2>4. CASE x.recipient = Sender
    <3>1. x = Current /\ Current \notin called /\ Current.note \in spent /\ Quiet(open[1])
      BY <1>6, <2>4
    <3>2. \A a \in Assets : /\ Paid(a) = 0
                            /\ Paid(a)' = (IF a = Current.asset THEN Current.fee ELSE 0)
      BY <1>3, <1>4, <3>1 DEF Paid
    <3>3. \A a \in Assets : received'[Sender][a] = received[Sender][a] + held'[a] - held[a]
      BY <1>2, <2>4, <3>1
    <3>4. ASSUME NEW a \in Assets
          PROVE  /\ received'[Sender][a] = (IF Current.toPaymaster THEN Paid(a)' ELSE 0)
                 /\ master'[a] >= frameStart.master[a]
                                  + (IF Current.toPaymaster THEN 0 ELSE Paid(a)')
                 /\ held'[a] >= frameStart.held[a] + received'[Sender][a]
      <4>1. received[Sender][a] = 0 /\ master[a] >= frameStart.master[a]
            /\ held[a] >= frameStart.held[a]
        BY <2>1, <2>2, <3>2, <1>2
      <4>2. held'[a] \in Nat /\ held[a] \in Nat
        BY <1>2
      <4>3. /\ frameStart.held[a] \in Nat /\ frameStart.master[a] \in Nat
            /\ master[a] \in Nat
            /\ received'[Sender][a] = held'[a] - held[a]
        BY <2>2, <3>3, <4>1, <4>2
      <4>4. CASE a = Current.asset
        <5>1. /\ held'[a] = held[a] + (IF Current.toPaymaster THEN Current.fee ELSE 0)
              /\ master'[a] = master[a] + (IF Current.toPaymaster THEN 0 ELSE Current.fee)
          BY <1>2, <3>1, <4>4
        <5>2. Paid(a)' = Current.fee
          BY <3>2, <4>4
        <5> QED
          BY <2>3, <4>1, <4>2, <4>3, <5>1, <5>2
      <4>5. CASE a # Current.asset
        <5>1. held'[a] = held[a] /\ master'[a] = master[a]
          BY <1>2, <3>1, <4>5
        <5>2. Paid(a)' = 0
          BY <3>2, <4>5
        <5> QED
          BY <4>1, <4>2, <4>3, <5>1, <5>2
      <4> QED
        BY <4>4, <4>5
    <3> QED
      BY <2>1, <3>1, <3>4
  <2>5. CASE x.recipient # Sender
    <3>1. x # Current /\ (Current \in called' <=> Current \in called)
      BY <1>3, <1>5, <2>5
    <3>2. \A a \in Assets : Paid(a)' = Paid(a)
      BY <1>4, <3>1 DEF Paid
    <3>3. received'[Sender] = received[Sender]
      BY <1>2, <1>5, <2>5
    <3>4. ASSUME NEW a \in Assets
          PROVE  /\ received'[Sender][a] = (IF Current.toPaymaster THEN Paid(a)' ELSE 0)
                 /\ master'[a] >= frameStart.master[a]
                                  + (IF Current.toPaymaster THEN 0 ELSE Paid(a)')
                 /\ held'[a] >= frameStart.held[a] + received'[Sender][a]
      <4>1. Paid(a) \in Nat
        BY <2>3 DEF Paid
      <4>2. held'[a] \in Nat /\ held[a] \in Nat /\ held[a] <= held'[a] /\ master[a] <= master'[a]
        BY <1>2
      <4> QED
        BY <2>1, <2>2, <3>2, <3>3, <4>1, <4>2
    <3> QED
      BY <2>1, <3>1, <3>4
  <2> QED
    BY <2>4, <2>5
<1> QED
  BY <1>7, <1>8, <1>9 DEF PaidInv

LEMMA PaidInvStep ==
    ASSUME SignedInv, PaidInv, SignableInv, [Next]_vars
    PROVE  PaidInv'
<1>1. Rest /\ Fields /\ bundleStart \in Worlds /\ frameStart \in Worlds
  BY TypeParts DEF HeldInv, SignedInv
<1>2. QueueInv /\ HeldInv
  BY DEF SignedInv
<1>3. phase # "running" => open = <<>>
  BY <1>2 DEF HeldInv, FrameInv
<1>4. ~InFrame => \A s \in ApprovedSenders : received[s] = Zero
  BY DEF PaidInv, SlotInv
<1> USE DEF fixed, config, chain, frame
<1>5. ASSUME UNCHANGED vars PROVE PaidInv'
  <2>1. InFrame' = InFrame /\ Sender' = Sender /\ Current' = Current
        /\ ApprovedSenders' = ApprovedSenders /\ \A a \in Assets : Paid(a)' = Paid(a)
    BY <1>5 DEF vars, InFrame, Sender, Current, Paid, ApprovedSenders
  <2>2. SlotInv'
    BY <1>5, <2>1 DEF vars, PaidInv, SlotInv
  <2>3. CallersInv'
    BY <1>5, <2>1 DEF vars, PaidInv, CallersInv
  <2>4. FeeInv'
    BY <1>5, <2>1 DEF vars, PaidInv, FeeInv
  <2> QED
    BY <2>2, <2>3, <2>4 DEF PaidInv
<1>6. ASSUME BeginBundle \/ BeginExecution \/ \E o \in Ops : Validate(o) PROVE PaidInv'
  <2>1. /\ phase \in {"idle", "validating"} /\ phase' \in {"validating", "executing"}
        /\ UNCHANGED <<delegated, received, open>>
    BY <1>6 DEF BeginBundle, BeginExecution, Validate
  <2>2. \A s \in ApprovedSenders' : received'[s] = Zero
    BY <1>4, <2>1 DEF ApprovedSenders, InFrame
  <2> QED
    BY <1>3, <2>1, <2>2, OutsidePaidInv
<1>7. ASSUME EndBundle \/ \E o \in Ops : RevertBundle(o) PROVE PaidInv'
  <2>1. /\ phase \in {"executing", "validating"} /\ phase' = "idle" /\ open' = open
        /\ received' = NothingReceived \/ received' = bundleStart.received
    BY <1>7 DEF EndBundle, RevertBundle, Restore
  <2>2. received' = NothingReceived
    BY <1>2, <2>1 DEF HeldInv, FrameInv
  <2>3. ApprovedSenders' \subseteq Senders
    BY BundleAssumption DEF ApprovedSenders
  <2>4. \A s \in ApprovedSenders' : received'[s] = Zero
    BY <2>2, <2>3 DEF NothingReceived, Zero
  <2> QED
    BY <1>3, <2>1, <2>4, OutsidePaidInv
<1>8. ASSUME BeginFrame PROVE PaidInv'
  <2>1. /\ phase = "executing" /\ phase' = "running" /\ frameStart' = world /\ called' = {}
        /\ UNCHANGED <<queue, terms, delegated, held, received, master, deposit, open>>
    BY <1>8 DEF BeginFrame
  <2>2. /\ Sender' = Sender /\ InFrame' /\ ~InFrame /\ open' = <<>>
        /\ ApprovedSenders' = ApprovedSenders
    BY <1>3, <2>1 DEF Sender, InFrame, ApprovedSenders
  <2>3. \A s \in ApprovedSenders : received[s] = Zero
    BY <1>4, <2>2
  <2>4. SlotInv'
    BY <2>1, <2>2, <2>3, WorldParts DEF SlotInv
  <2>5. CallersInv'
    BY <2>2 DEF CallersInv
  <2>6. FeeInv'
    <3> SUFFICES ASSUME Sender \in ApprovedSenders PROVE FeeInv'
      BY <2>2 DEF FeeInv
    <3>1. /\ received'[Sender'] = Zero
          /\ \A a \in Assets : Paid(a)' = 0
      BY <2>1, <2>2, <2>3 DEF Paid
    <3>2. \A a \in Assets : master[a] \in Nat /\ held[a] \in Nat
      BY <1>1 DEF Fields, Balances
    <3>3. \A a \in Assets : /\ received'[Sender'][a] = 0
                            /\ master'[a] >= frameStart'.master[a] + 0
                            /\ held'[a] >= frameStart'.held[a] + 0
      BY <2>1, <3>1, <3>2, WorldParts DEF Zero
    <3> QED
      BY <2>1, <3>1, <3>3, WorldParts DEF FeeInv
  <2> QED
    BY <2>4, <2>5, <2>6 DEF PaidInv
<1>9. ASSUME RelayReturns \/ \E x \in Withdrawals : RelayWithdraw(x) PROVE PaidInv'
  BY <1>9, RelayWithdrawPaidInv, RelayReturnsPaidInv
<1>10. ASSUME NEW o \in Ops, ExecutionEnds(o) PROVE PaidInv'
  <2>1. /\ phase = "running" /\ phase' = "settling" /\ o = Head(queue) /\ open = <<>>
        /\ UNCHANGED <<queue, terms, delegated, held, received, master, deposit, open, called,
                       frameStart>>
        /\ Faithful(o) => terms[o].withdrawal \in called
    BY <1>10 DEF ExecutionEnds
  <2>2. InFrame /\ InFrame' /\ Sender' = Sender /\ Current' = Current
        /\ ApprovedSenders' = ApprovedSenders /\ \A a \in Assets : Paid(a)' = Paid(a)
    BY <2>1 DEF InFrame, Sender, Current, Paid, ApprovedSenders
  <2>3. SlotInv'
    BY <2>1, <2>2 DEF PaidInv, SlotInv
  <2>4. CallersInv'
    BY <2>1 DEF CallersInv
  <2>5. Sender \in ApprovedSenders => Current \in called
    <3> SUFFICES ASSUME Sender \in ApprovedSenders PROVE Current \in called
      OBVIOUS
    <3>1. Sender = terms[o].sender /\ Current = terms[o].withdrawal
      BY <2>1 DEF Sender, Current
    <3>2. Faithful(o)
      BY <3>1 DEF Faithful
    <3>3. terms[o].withdrawal \in called
      BY <2>1, <3>2
    <3> QED
      BY <3>1, <3>3
  <2>6. FeeInv'
    BY <2>1, <2>2, <2>5 DEF PaidInv, FeeInv
  <2> QED
    BY <2>3, <2>4, <2>6 DEF PaidInv
<1>11. ASSUME NEW o \in Ops, ExecutionReverts(o) PROVE PaidInv'
  <2>1. /\ phase = "running" /\ phase' = "settling" /\ ~executed' /\ open' = <<>>
        /\ received' = frameStart.received /\ deposit' = frameStart.deposit
        /\ UNCHANGED <<queue, terms, delegated, frameStart>>
    BY <1>11 DEF ExecutionReverts, Restore
  <2>2. InFrame /\ InFrame' /\ ApprovedSenders' = ApprovedSenders
    BY <2>1 DEF InFrame, ApprovedSenders
  <2>3. SlotInv'
    BY <2>1, <2>2 DEF PaidInv, SlotInv
  <2>4. CallersInv' /\ FeeInv'
    BY <2>1 DEF CallersInv, FeeInv
  <2> QED
    BY <2>3, <2>4 DEF PaidInv
<1>12. ASSUME NEW o \in Ops, PostOp(o) \/ PostOpAfterRevert(o) PROVE PaidInv'
  BY <1>12, FinishPaidInv DEF PostOp, PostOpAfterRevert
<1>13. ASSUME NEW o \in Ops, PostOpReverts(o) PROVE PaidInv'
  <2>1. phase = "settling" /\ o = Head(queue) /\ Finish(o, "reverted")
    BY <1>13 DEF PostOpReverts
  <2>2. PICK charge \in 1 .. terms[o].prefund :
           Restore([frameStart EXCEPT !.deposit = @ + Returned(terms[o], charge)])
    BY <1>13 DEF PostOpReverts
  <2>3. Returned(terms[o], charge) \in Nat
    <3>1. terms[o].prefund \in Nat
      BY <1>1, TermTypes DEF Rest
    <3> QED
      BY <3>1 DEF Returned
  <2>4. received' = frameStart.received
    BY <1>1, <2>2, <2>3, WorldWithDeposit DEF Restore
  <2> QED
    BY <2>1, <2>4, FinishPaidInv
<1>14. ASSUME MoveDeposit \/ (\E a \in Assets : Sweep(a))
              \/ (\E k \in Keys : SetVerifyingSigner(k)) \/ (\E s \in Senders : Redelegate(s))
       PROVE  PaidInv'
  <2>1. Administer /\ delegated' \subseteq Senders
    BY <1>1, <1>14 DEF MoveDeposit, Sweep, SetVerifyingSigner, Redelegate, Rest
  <2>2. phase = "idle" /\ phase' = phase /\ received' = received /\ open' = open
    BY <2>1 DEF Administer
  <2>3. received = NothingReceived
    BY <1>2, <2>2 DEF HeldInv, FrameInv
  <2>4. \A s \in ApprovedSenders' : received'[s] = Zero
    BY <2>1, <2>2, <2>3 DEF NothingReceived, Zero, ApprovedSenders
  <2> QED
    BY <1>3, <2>2, <2>4, OutsidePaidInv
<1> QED
  BY <1>5, <1>6, <1>7, <1>8, <1>9, <1>10, <1>11, <1>12, <1>13, <1>14 DEF Next

\* Terms and signatures never change.
LEMMA SignableInvStep ==
    ASSUME SignableInv, [Next]_vars
    PROVE  SignableInv'
<1>1. terms' = terms /\ signed' = signed
  BY DEF Next, vars, fixed, BeginBundle, BeginExecution, BeginFrame, EndBundle, Validate,
         RevertBundle, RelayWithdraw, RelayReturns, ExecutionEnds, ExecutionReverts, PostOp,
         PostOpAfterRevert, PostOpReverts, Finish, Administer, MoveDeposit, Sweep,
         SetVerifyingSigner, Redelegate
<1> QED
  BY <1>1 DEF SignableInv

\* What a settled withdrawal leaves behind, whoever its fee was paid to.
LEMMA SettlementPays ==
    ASSUME NEW o \in Ops, terms[o].sender \in FaithfulSenders, SignedInv, PaidInv, SignableInv, PostOp(o)
    PROVE  SuccessPays(o)
<1> DEFINE t == terms[o]
           b == t.withdrawal.asset
           fee == t.withdrawal.fee
           balance == received[t.sender][b]
           rate == tokenPerEth(b)
<1>1. Rest /\ Fields /\ bundleStart \in Worlds /\ frameStart \in Worlds
  BY TypeParts DEF HeldInv, SignedInv
<1>2. phase = "settling" /\ o = Head(queue) /\ executed /\ master' = master
  BY DEF PostOp
<1>3. HeldInv /\ InFrame /\ Current = t.withdrawal /\ Sender = t.sender
      /\ Sender \in ApprovedSenders
  <2>1. HeldInv /\ InFrame /\ Current = t.withdrawal /\ Sender = t.sender
    BY <1>2 DEF SignedInv, InFrame, Current, Sender
  <2> QED
    BY <2>1, InsideFrame DEF ApprovedSenders
<1>4. /\ t \in Terms /\ t.sender \in Senders /\ t.prefund \in Nat /\ b \in Assets
      /\ \A a \in Assets : /\ held[a] \in Nat /\ frameStart.held[a] \in Nat
                           /\ received[t.sender][a] \in Nat
  BY <1>2, <1>3, FrameFacts
<1>5. t.serviceFee \in Nat /\ fee \in Nat /\ balance \in Nat /\ rate \in Nat
  <2>1. t.serviceFee \in Nat /\ fee \in Nat
    BY <1>4, TermTypes, WithdrawalTypes
  <2>2. rate \in Nat
    BY BundleAssumption DEF tokenPerEth
  <2> QED
    BY <1>4, <2>1, <2>2
<1>6. fee >= minimumFee(t.prefund, t.serviceFee, rate)
  <2>1. queue # <<>>
    BY <1>3 DEF HeldInv, FrameInv
  <2>2. Len(queue) >= 1 /\ Len(queue) \in Nat /\ queue[1] = o
    BY <1>1, <1>2, <2>1 DEF Rest
  <2>3. signed[o] # NoKey
    BY <2>2 DEF SignedInv, QueueInv
  <2> QED
    BY <2>3 DEF SignableInv, Signable
<1>7. /\ balance = (IF t.withdrawal.toPaymaster THEN fee ELSE 0)
      /\ master[b] >= frameStart.master[b] + (IF t.withdrawal.toPaymaster THEN 0 ELSE fee)
      /\ held[b] >= frameStart.held[b] + balance
      /\ master[b] \in Nat /\ frameStart.master[b] \in Nat
      /\ deposit = frameStart.deposit /\ deposit \in Nat
  <2>1. Current \in called /\ deposit = frameStart.deposit
    BY <1>2, <1>3 DEF PaidInv, FeeInv
  <2>2. Paid(b) = fee
    BY <1>3, <2>1 DEF Paid
  <2>3. /\ received[Sender][b] = (IF t.withdrawal.toPaymaster THEN Paid(b) ELSE 0)
        /\ master[b] >= frameStart.master[b] + (IF t.withdrawal.toPaymaster THEN 0 ELSE Paid(b))
        /\ held[b] >= frameStart.held[b] + received[Sender][b]
    BY <1>2, <1>3, <1>4 DEF PaidInv, FeeInv
  <2>4. frameStart.master[b] \in Nat /\ master[b] \in Nat /\ deposit \in Nat
    BY <1>1, <1>4 DEF Worlds, Balances, Fields
  <2> QED
    BY <1>3, <2>1, <2>2, <2>3, <2>4
<1>9. PICK gasCost \in Nat, charge \in 1 .. t.prefund, refund \in 0 .. balance :
         /\ charge <= gasCost
         /\ refund \in {0, RefundOf(t, balance, gasCost)}
         /\ deposit' \in Nat /\ held' \in Balances
         /\ b = Eth => held'[b] + deposit' = held[b] + deposit + t.prefund - charge - refund
         /\ b # Eth => held'[b] = held[b] - refund /\ deposit' = deposit + t.prefund - charge
  BY <1>3, Settling DEF HeldInv
<1> DEFINE keep == Keep(gasCost, t.serviceFee, rate)
           owed == InAsset(charge, rate) + t.serviceFee
<1>10. charge \in Nat /\ charge <= t.prefund
  BY <1>4, <1>9
<1>11. fee - Refund(fee, keep, fee) >= owed
  <2> HIDE DEF rate
  <2> QED
    BY <1>4, <1>5, <1>6, <1>9, <1>10, FeeCoversCharge
<1>12. owed \in Nat /\ keep \in Nat
  <2> HIDE DEF rate
  <2>1. InAsset(charge, rate) \in Nat
    BY <1>5, <1>10, InAssetMonotone
  <2>2. keep \in Nat
    BY <1>5, <1>9, <1>10, KeepCovers
  <2> QED
    BY <1>5, <2>1, <2>2
<1>13. refund \in {0, (IF t.withdrawal.toPaymaster THEN Refund(fee, keep, balance) ELSE 0)}
  BY <1>9 DEF RefundOf
<1> HIDE DEF keep
<1>14. fee - refund >= owed
  <2> HIDE DEF owed
  <2>1. CASE t.withdrawal.toPaymaster
    <3>1. balance = fee
      BY <1>7, <2>1
    <3>2. refund \in {0, Refund(fee, keep, fee)}
      BY <1>13, <2>1, <3>1
    <3>3. Refund(fee, keep, fee) \in 0 .. fee
      BY <1>5, <1>12, RefundBounds
    <3> QED
      BY <1>5, <1>11, <1>12, <3>2, <3>3
  <2>2. CASE ~t.withdrawal.toPaymaster
    <3>1. refund = 0
      BY <1>13, <2>2
    <3>2. Refund(fee, keep, fee) \in 0 .. fee
      BY <1>5, <1>12, RefundBounds
    <3> QED
      BY <1>5, <1>11, <1>12, <3>1, <3>2
  <2> QED
    BY <2>1, <2>2
<1>15. held[b] + master[b] >= frameStart.held[b] + frameStart.master[b] + fee
  BY <1>4, <1>5, <1>7
<1>16. /\ Eth \in Assets /\ Token \in Assets /\ Assets = {Eth, Token} /\ Eth # Token
       /\ TokenRate # 0
  BY BundleAssumption DEF Assets
<1>17. \A a \in Assets : held'[a] \in Nat
  BY <1>9 DEF Balances
<1>18. CASE b = Eth
  <2>1. owed = charge + t.serviceFee
    BY <1>18 DEF InAsset, tokenPerEth
  <2>2. held'[Eth] + deposit' + master'[Eth]
            >= frameStart.held[Eth] + frameStart.deposit + frameStart.master[Eth]
               + t.prefund + t.serviceFee
    <3> HIDE DEF owed, fee, rate
    <3>1. held'[Eth] \in Nat /\ deposit' \in Nat /\ refund \in Nat /\ charge \in Nat
          /\ held[Eth] \in Nat /\ frameStart.held[Eth] \in Nat /\ frameStart.master[Eth] \in Nat
          /\ t.prefund \in Nat /\ t.serviceFee \in Nat /\ fee \in Nat
      BY <1>4, <1>5, <1>7, <1>9, <1>16, <1>17, <1>18
    <3>2. held'[Eth] + deposit' = held[Eth] + deposit + t.prefund - charge - refund
      BY <1>9, <1>18
    <3>3. held[Eth] + master[Eth] >= frameStart.held[Eth] + frameStart.master[Eth] + fee
      BY <1>15, <1>18
    <3>4. fee - refund >= charge + t.serviceFee
      BY <1>14, <2>1
    <3>5. master'[Eth] = master[Eth] /\ deposit = frameStart.deposit /\ deposit \in Nat
      BY <1>2, <1>7
    <3>6. master[Eth] \in Nat
      BY <1>1, <1>16 DEF Fields, Balances
    <3> QED
      BY <3>1, <3>2, <3>3, <3>4, <3>5, <3>6
  <2>3. EthWorth(world)' = deposit' + held'[Eth] + master'[Eth]
    BY DEF EthWorth, world
  <2> QED
    BY <1>1, <1>4, <1>5, <1>7, <1>16, <1>17, <1>18, <2>2, <2>3, <1>9, <1>2 DEF SuccessPays, EthWorth
<1>19. CASE b # Eth
  <2>1. b = Token /\ rate = TokenRate /\ owed = (charge * TokenRate) \div RateScale + t.serviceFee
    BY <1>4, <1>16, <1>19 DEF InAsset, tokenPerEth
  <2>2. frameStart.deposit + t.prefund - deposit' = charge
    BY <1>4, <1>7, <1>9, <1>10, <1>19
  <2>3. held'[Token] + master'[Token]
            >= frameStart.held[Token] + frameStart.master[Token] + owed
    <3> HIDE DEF owed, fee, rate
    <3>1. held'[Token] \in Nat /\ refund \in Nat /\ held[Token] \in Nat
          /\ frameStart.held[Token] \in Nat /\ frameStart.master[Token] \in Nat
          /\ fee \in Nat /\ owed \in Nat
      BY <1>4, <1>5, <1>7, <1>9, <1>12, <1>16, <1>17, <2>1
    <3>2. held'[Token] = held[Token] - refund
      BY <1>9, <1>19, <2>1
    <3>3. held[Token] + master[Token] >= frameStart.held[Token] + frameStart.master[Token] + fee
      BY <1>15, <2>1
    <3>4. master'[Token] = master[Token]
      BY <1>2
    <3>5. master[Token] \in Nat
      BY <1>1, <1>16 DEF Fields, Balances
    <3> QED
      BY <1>14, <3>1, <3>2, <3>3, <3>4, <3>5
  <2>4. TokenWorth(world)' = held'[Token] + master'[Token]
    BY DEF TokenWorth, world
  <2>5. (charge * TokenRate) \div RateScale \in Nat
    <3>1. charge * TokenRate \in Nat
      BY <1>10, BundleAssumption, TimesMonotone
    <3> QED
      BY <3>1, Division, FeeAssumption
  <2>6. TokenWorth(frameStart) = frameStart.held[Token] + frameStart.master[Token]
        /\ TokenWorth(frameStart) \in Nat
    BY <1>4, <1>7, <1>16, <2>1 DEF TokenWorth
  <2>7. TokenWorth(world)' >= TokenWorth(frameStart) + t.serviceFee
                              + (charge * TokenRate) \div RateScale
    BY <1>5, <2>1, <2>3, <2>4, <2>5, <2>6
  <2> QED
    BY <1>19, <2>2, <2>7 DEF SuccessPays
<1> QED
  BY <1>18, <1>19

\* Every operation of an account of the approved make that succeeds leaves the
\* relayer its gas and the service fee, whatever the gas turned out to be, whether or
\* not the refund is taken, and for every price and rate signed.
THEOREM SuccessPaysForItself == Spec => SuccessNeverLoses
<1> DEFINE PayInv == SignedInv /\ PaidInv /\ SignableInv
<1>1. Init => PayInv
  <2>1. Init => PaidInv
    <3> SUFFICES ASSUME Init PROVE PaidInv
      OBVIOUS
    <3>1. phase = "idle" /\ open = <<>> /\ received = NothingReceived
      BY DEF Init
    <3>2. \A s \in Senders : received[s] = Zero
      BY <3>1 DEF NothingReceived, Zero
    <3>3. ~InFrame /\ Len(open) = 0
      BY <3>1 DEF InFrame
    <3>4. SlotInv
      BY <3>2, <3>3, ApprovedAreSenders DEF SlotInv
    <3>5. CallersInv
      BY <3>3 DEF CallersInv
    <3>6. FeeInv
      BY <3>3 DEF FeeInv
    <3> QED
      BY <3>4, <3>5, <3>6 DEF PaidInv
  <2>2. Init => SignableInv
    BY DEF Init, SignableInv
  <2> QED
    BY <2>1, <2>2, InitHeldInv, InitSignedInv DEF SignedInv
<1>2. PayInv /\ [Next]_vars => PayInv'
  BY HeldInvStep, SignedInvStep, PaidInvStep, SignableInvStep DEF SignedInv
<1>3. PayInv /\ [Next]_vars =>
         [\A o \in Ops :
             result[o] = "validated" /\ result'[o] = "succeeded" /\ terms[o].sender \in FaithfulSenders
                => SuccessPays(o)]_vars
  <2> SUFFICES ASSUME PayInv, Next, NEW o \in Ops,
                      result[o] = "validated", result'[o] = "succeeded",
                      terms[o].sender \in FaithfulSenders
               PROVE  SuccessPays(o)
    OBVIOUS
  <2>1. Rest
    BY TypeParts DEF SignedInv, HeldInv
  <2>2. result' # result
    OBVIOUS
  <2>3. PICK p \in Ops : Validate(p) \/ RevertBundle(p) \/ PostOp(p) \/ PostOpAfterRevert(p)
                         \/ PostOpReverts(p)
    BY <2>2 DEF Next, BeginBundle, BeginExecution, BeginFrame, EndBundle, RelayWithdraw,
       RelayReturns, ExecutionEnds, ExecutionReverts, MoveDeposit, Sweep, SetVerifyingSigner, Redelegate,
       Administer
  <2>4. ~Validate(p)
    BY <2>1 DEF Validate, Rest
  <2>5. ~RevertBundle(p)
    BY <2>1 DEF RevertBundle, Rest
  <2>6. ~PostOpAfterRevert(p) /\ ~PostOpReverts(p)
    BY <2>1 DEF PostOpAfterRevert, PostOpReverts, Finish, Rest
  <2>7. PostOp(p)
    BY <2>3, <2>4, <2>5, <2>6
  <2>8. o = p
    BY <2>1, <2>7 DEF PostOp, Finish, Rest
  <2> QED
    BY <2>7, <2>8, SettlementPays
<1> QED
  BY <1>1, <1>2, <1>3, PTL DEF Spec, SuccessNeverLoses

=============================================================================

