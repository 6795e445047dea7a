---------------------------- MODULE OperationRules ----------------------------
(***************************************************************************)
(* What the relayer makes of an operation it is asked to sponsor:          *)
(* validate.ts, which finds the one withdrawal that pays for it.           *)
(*                                                                         *)
(* A call is [target, value, function, withdraw]: the function its data    *)
(* decodes to and, for a withdrawal, the arguments.  A direct call of a    *)
(* pool names the pool as its target; relayWithdraw names it in the        *)
(* arguments.  callData is [function, calls], with one call for execute.   *)
(***************************************************************************)
EXTENDS Integers, Sequences

CONSTANTS
    Paymaster,
    Instances            \* the pools this relayer serves

ASSUME RulesAssumption == Paymaster \notin Instances

\* callData that is neither execute nor executeBatch has no calls to look at.
decodeAccountCalls(callData) ==
    IF callData.function \in {"execute", "executeBatch"} THEN callData.calls ELSE <<>>

Relayed(call) == call.target = Paymaster /\ call.function = "relayWithdraw"

\* A withdrawal sent straight to a pool, or to anything that is called like one.
Direct(call) == call.target # Paymaster /\ call.function = "withdraw"

\* A decoder that knows the paymaster's function only.
decodeRelayedWithdraws(calls) == {i \in DOMAIN calls : Relayed(calls[i])}

\* The indices of the Tornado withdrawals among the account's calls.
decodeTornadoWithdraws(calls) ==
    {i \in DOMAIN calls : Relayed(calls[i]) \/ Direct(calls[i])}

\* The index of the withdrawal that pays, as a set: empty when it is refused.
findSponsoringWithdraw(calls, rewardAccount, sender) ==
    {i \in DOMAIN calls :
        /\ Relayed(calls[i])
        /\ decodeTornadoWithdraws(calls) = {i}
        /\ \A k \in DOMAIN calls : calls[k].target = Paymaster => Relayed(calls[k])
        /\ calls[i].withdraw.relayer = rewardAccount
        /\ calls[i].withdraw.recipient = sender
        /\ calls[i].withdraw.instance \in Instances
        /\ calls[i].value = 0}

-----------------------------------------------------------------------------
(* The reference: which of its calls take a note out of a served pool, when *)
(* the account runs them as written.  relayWithdraw (the paymaster) accepts *)
(* nobody but the recipient as its caller.                                  *)

TakesNote(call, sender) ==
    \/ Relayed(call) /\ call.withdraw.recipient = sender /\ call.withdraw.instance \in Instances
    \/ call.target \in Instances /\ call.function = "withdraw"

\* Exactly one call takes a note, and it pays its fee to rewardAccount.
PaysOnce(calls, rewardAccount, sender) ==
    \E i \in DOMAIN calls :
        /\ {k \in DOMAIN calls : TakesNote(calls[k], sender)} = {i}
        /\ Relayed(calls[i]) /\ calls[i].withdraw.relayer = rewardAccount

=============================================================================
