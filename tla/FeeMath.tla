------------------------------- MODULE FeeMath -------------------------------
(***************************************************************************)
(* The arithmetic of the fee: what the relayer asks for (fee.ts) and what  *)
(* the paymaster keeps of it when it settles (postOp in                    *)
(* TornadoRelayerPaymasterCore.sol).  Both sides round their own way.      *)
(* A rate of 0 is how an ETH instance is written.                          *)
(***************************************************************************)
EXTENDS Integers

CONSTANTS
    Bps,                 \* 10_000
    RateScale,           \* 1e18
    GasMarginBps,
    PostOpGasOverhead

ASSUME FeeAssumption ==
    /\ Bps \in Nat \ {0} /\ RateScale \in Nat \ {0}
    /\ GasMarginBps \in Nat /\ PostOpGasOverhead \in Nat

GasLimits == [callGasLimit : Nat, verificationGasLimit : Nat, preVerificationGas : Nat,
              paymasterVerificationGasLimit : Nat, paymasterPostOpGasLimit : Nat]

totalGas(gas) ==
    gas.callGasLimit + gas.verificationGasLimit + gas.preVerificationGas
        + gas.paymasterVerificationGasLimit + gas.paymasterPostOpGasLimit

CeilDiv(a, b) == (a + b - 1) \div b

serviceFeeFor(denomination, serviceFeeBps) == (denomination * serviceFeeBps) \div Bps

WithMargin(wei) == wei + (wei * GasMarginBps) \div Bps

-----------------------------------------------------------------------------
(* The relayer's side: the least fee it accepts for a prefund.              *)

minimumFee(prefund, serviceFee, tokenPerEth) ==
    IF tokenPerEth = 0
    THEN WithMargin(prefund) + serviceFee
    ELSE CeilDiv(WithMargin(prefund) * tokenPerEth, RateScale) + serviceFee

-----------------------------------------------------------------------------
(* The paymaster's side.                                                    *)

\* Gas as postOp reckons it, its own billing included.
GasCost(actualGasCost, feePerGas) == actualGasCost + PostOpGasOverhead * feePerGas

Keep(gasCost, serviceFee, tokenPerEth) ==
    IF tokenPerEth = 0
    THEN WithMargin(gasCost) + serviceFee
    ELSE (WithMargin(gasCost) * tokenPerEth) \div RateScale + serviceFee

\* What is sent back of `balance`, the amount the withdrawal really paid.
Refund(fee, keep, balance) ==
    IF fee <= keep THEN 0
    ELSE IF fee - keep > balance THEN balance ELSE fee - keep

=============================================================================
