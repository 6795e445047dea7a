--------------------------- MODULE MCWithdrawalFlow ---------------------------
EXTENDS WithdrawalFlow

Gas(call, ver, pre, pmVer, postOp) ==
    [callGasLimit |-> call, verificationGasLimit |-> ver, preVerificationGas |-> pre,
     paymasterVerificationGasLimit |-> pmVer, paymasterPostOpGasLimit |-> postOp]

MCGas == Gas(45, 10, 12, 6, 9)

\* What comes to the ceilings again when raised; more than them; without the paymaster's fields.
MCNeeds == {
    Gas(81, 9, 11, 4, 6), Gas(99, 20, 12, 7, 9),
    [callGasLimit |-> 60, verificationGasLimit |-> 8, preVerificationGas |-> 10]}

\* Worker mode of a master, master mode with a limit of its own, or a paymaster that is
\* allowed to be unregistered.
Config(rewardAccount, fee, margin, cap, mode) ==
    [rewardAccount |-> rewardAccount, serviceFeeBps |-> fee, gasPriceMarginBps |-> margin,
     maxSponsorshipGasWei |-> cap, registryMode |-> mode]
MCConfigs == {Config("master", 30, 11000, None, "worker"),
              Config(Paymaster, 30, 11000, 4000, "master"),
              Config(Paymaster, 60, 10000, None, "unregistered")}

Standing(budget, registered, relays, answers) ==
    [budget |-> budget, registered |-> registered, relays |-> relays, answers |-> answers]
MCServing == Standing(6000, TRUE, TRUE, TRUE)

\* Enough for any operation at any price; for a small one at the lower price; unknown,
\* and nothing else holds; each of the others fails alone.
MCStandings == {
    MCServing, Standing(1500, TRUE, TRUE, TRUE), Standing(None, FALSE, FALSE, FALSE),
    Standing(6000, FALSE, TRUE, TRUE), Standing(6000, TRUE, FALSE, TRUE),
    Standing(6000, TRUE, TRUE, FALSE)}

MCGasPrices == {[maxFeePerGas |-> 10, maxPriorityFeePerGas |-> 2],
                [maxFeePerGas |-> 30, maxPriorityFeePerGas |-> 12]}

Withdrawal == [instance |-> Pool, nullifierHash |-> "n2", root |-> 1, recipient |-> Sender,
               relayer |-> Paymaster, fee |-> Denomination]
Call(target, function, w) == [target |-> target, value |-> 0, function |-> function, withdraw |-> w]
Paying(call) == [call EXCEPT !.value = 1]
Relay(w) == Call(Paymaster, "relayWithdraw", w)

MCOtherCalls == {
    Relay(Withdrawal), Paying(Relay(Withdrawal)), Relay([Withdrawal EXCEPT !.nullifierHash = "n3"]),
    Relay([Withdrawal EXCEPT !.relayer = "master"]),
    Relay([Withdrawal EXCEPT !.recipient = Elsewhere]),
    Relay([Withdrawal EXCEPT !.instance = Elsewhere]),
    Call(Pool, "withdraw", [Withdrawal EXCEPT !.nullifierHash = "n3"]),
    Call(Elsewhere, "withdraw", Withdrawal),
    Call(Paymaster, "deposit", None), Paying(Call(Elsewhere, "transfer", None))}

Form(factory, data, initCode) == [factory |-> factory, factoryData |-> data, initCode |-> initCode]
MCForms == {
    Form(None, <<>>, None), Form(Bare, <<>>, None), Form(Bare, <<"init">>, None),
    Form(None, <<>>, <<>>), Form(None, <<>>, <<Bare>>), Form(None, <<>>, <<Padded, "init">>),
    Form("factory", <<"create">>, None)}

=============================================================================
